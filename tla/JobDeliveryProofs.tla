------------------------- MODULE JobDeliveryProofs -------------------------
(***************************************************************************)
(* Proofs about JobDelivery, for every number of jobs, queues, workers and *)
(* every policy.                                                           *)
(***************************************************************************)
EXTENDS JobDelivery, Arithmetic, TLAPS

\* The table of powers that backoff_for indexes holds numbers.
LEMMA Pow2Type == \A n \in 0 .. 16 : Pow2[n + 1] \in Nat
  BY SMT DEF Pow2

\* A product of natural numbers is one (stated for the provers).
LEMMA NatTimes == \A x, y \in Nat : x * y \in Nat
  OBVIOUS

\* A backoff is a number, whatever the attempt.
LEMMA BackoffType ==
  ASSUME NEW p \in QueuePolicy, NEW a \in Nat
  PROVE  BackoffFor(p, a) \in Nat
<1> DEFINE e == IF a = 0 THEN 0 ELSE IF a - 1 > 16 THEN 16 ELSE a - 1
<1>1. e \in 0 .. 16
  OBVIOUS
<1>2. p.backoff \in Nat /\ p.max_backoff \in Nat
  BY DEF QueuePolicy
<1>3. Pow2[e + 1] \in Nat
  BY <1>1, Pow2Type
<1>4. p.backoff * Pow2[e + 1] \in Nat
  BY <1>2, <1>3, NatTimes, Zenon
<1> QED BY <1>2, <1>4 DEF BackoffFor

-----------------------------------------------------------------------------
(* Types                                                                   *)

DeadTable == [JobIds -> DeadRow \cup {NoJob}]

\* Enforcing the dead-letter bounds keeps the table well typed.
LEMMA EnforceType ==
  ASSUME NEW d \in DeadTable, NEW q
  PROVE  EnforceDeadLetterBounds(d, q) \in DeadTable
  BY DEF EnforceDeadLetterBounds, DeadTable

\* Expiring dead letters by age keeps the table well typed.
LEMMA CleanupType ==
  ASSUME NEW d \in DeadTable, NEW q, NEW now
  PROVE  CleanupDeadLetters(d, q, now) \in DeadTable
<1> DEFINE e == [j \in JobIds |->
                  IF /\ j \in DeadOf(d, q)
                     /\ d[j].failed_at + Policy[q].dead_letter_ttl <= now
                  THEN NoJob ELSE d[j]]
<1>1. e \in DeadTable
  BY DEF DeadTable
<1> QED BY <1>1, EnforceType DEF CleanupDeadLetters

\* Burying jobs keeps the dead-letter table well typed.
LEMMA DeadLetterType ==
  ASSUME NEW d \in DeadTable, NEW q, NEW S \in SUBSET JobIds, NEW now \in Nat,
         jobs \in [JobIds -> JobRow \cup {NoJob}],
         \A j \in S : jobs[j] # NoJob
  PROVE  DeadLetter(d, q, S, now) \in DeadTable
<1> DEFINE e == [j \in JobIds |->
                  IF j \in S
                  THEN [seq |-> jobs[j].seq, attempts |-> jobs[j].attempts,
                        failed_at |-> now]
                  ELSE d[j]]
<1>1. \A j \in S : jobs[j] \in JobRow
  OBVIOUS
<1>2. e \in DeadTable
  BY <1>1 DEF DeadTable, JobRow, DeadRow
<1> QED BY <1>2, EnforceType DEF DeadLetter

\* The policy of the queue a job belongs to is a queue policy.
LEMMA PolicyType ==
  ASSUME NEW j \in JobIds
  PROVE  Policy[Target[j]] \in QueuePolicy
  BY JobQueueAssumption

\* The sets a reservation works with are sets of jobs.
LEMMA QueueSubsets ==
  ASSUME NEW q, NEW now
  PROVE  /\ Terminalized(q, now) \subseteq {j \in JobIds : jobs[j] # NoJob}
         /\ Deliverable(q, now) \subseteq {j \in JobIds : jobs[j] # NoJob}
         /\ Terminalized(q, now) \cap Deliverable(q, now) = {}
  BY DEF Terminalized, Deliverable, Scanned, Eligible, Queued

\* Committing an outcome keeps the tables well typed.
LEMMA CommitPlanType ==
  ASSUME TypeOK, NEW writes \in BOOLEAN, NEW expected, NEW pubs \in Seq(JobIds),
         NEW completion, NEW owner, NEW now \in Nat,
         CommitPlan(writes, expected, pubs, completion, owner, now)
  PROVE  /\ jobs' \in [JobIds -> JobRow \cup {NoJob}]
         /\ dead' \in [JobIds -> DeadRow \cup {NoJob}]
         /\ sequence' \in Nat /\ revision' \in Nat
<1>1. \A j \in Range(pubs) : (CHOOSE i \in DOMAIN pubs : pubs[i] = j) \in Nat
  <2> TAKE j \in Range(pubs)
  <2>1. \E i \in DOMAIN pubs : pubs[i] = j
    BY DEF Range
  <2>2. (CHOOSE i \in DOMAIN pubs : pubs[i] = j) \in DOMAIN pubs
    BY <2>1
  <2> QED BY <2>2
<1>2. \A j \in Range(pubs) : PublishedRow(pubs, j, now) \in JobRow
  <2> TAKE j \in Range(pubs)
  <2> DEFINE c == CHOOSE i \in DOMAIN pubs : pubs[i] = j
  <2>0. c \in Nat
    BY <1>1
  <2>2. PublishedRow(pubs, j, now) =
          [seq |-> sequence + c, attempts |-> 0, visible_at |-> now,
           owner |-> NoOwner, lease_until |-> 0]
    BY DEF PublishedRow
  <2> HIDE DEF c
  <2>1. sequence + c \in Nat
    BY <2>0 DEF TypeOK
  <2> QED BY <2>1, <2>2 DEF JobRow
<1> QED BY <1>2 DEF CommitPlan, TypeOK

\* Reserving keeps the tables well typed.
LEMMA ReserveJobType ==
  ASSUME TypeOK, NEW q \in Queues, NEW owner \in Owners, NEW now \in Nat,
         ReserveJob(q, owner, now)
  PROVE  /\ jobs' \in [JobIds -> JobRow \cup {NoJob}]
         /\ dead' \in [JobIds -> DeadRow \cup {NoJob}]
         /\ sequence' \in Nat /\ revision' \in Nat
<1>1. \A j \in Deliverable(q, now) : LeasedRow(j, owner, now) \in JobRow
  <2> TAKE j \in Deliverable(q, now)
  <2>1. j \in JobIds /\ jobs[j] \in JobRow
    BY QueueSubsets DEF TypeOK
  <2>2. Policy[Target[j]].lease \in Nat
    BY <2>1, PolicyType DEF QueuePolicy
  <2> DEFINE a == jobs[j].attempts + 1
             u == now + Policy[Target[j]].lease
  <2>3. a \in Nat /\ u \in Nat
    BY <2>1, <2>2 DEF JobRow
  <2>4. LeasedRow(j, owner, now) =
          [jobs[j] EXCEPT !.attempts = a, !.owner = owner, !.lease_until = u]
    BY DEF LeasedRow
  <2> HIDE DEF a, u
  <2> QED BY <2>1, <2>3, <2>4 DEF JobRow
<1>2. jobs' \in [JobIds -> JobRow \cup {NoJob}]
  BY <1>1 DEF ReserveJob, TypeOK
<1>3. dead \in DeadTable
  BY DEF TypeOK, DeadTable
<1>4. dead' \in DeadTable
  BY <1>3, CleanupType, DeadLetterType, QueueSubsets DEF ReserveJob, TypeOK
<1> QED BY <1>2, <1>4 DEF ReserveJob, TypeOK, DeadTable

\* Failing a delivery keeps the tables well typed.
LEMMA FailJobType ==
  ASSUME TypeOK, NEW j \in JobIds, NEW owner, NEW now \in Nat,
         FailJob(j, owner, now)
  PROVE  /\ jobs' \in [JobIds -> JobRow \cup {NoJob}]
         /\ dead' \in [JobIds -> DeadRow \cup {NoJob}]
         /\ sequence' \in Nat /\ revision' \in Nat
<1>1. CASE FailLost(j, owner)
  BY <1>1 DEF FailLost, storeVars, TypeOK
<1>2. CASE FailDeadLetter(j, owner, now)
  <2>1. dead \in DeadTable
    BY DEF TypeOK, DeadTable
  <2>2. dead' \in DeadTable
    BY <1>2, <2>1, DeadLetterType DEF FailDeadLetter, OwnsJob, TypeOK
  <2> QED BY <1>2, <2>2 DEF FailDeadLetter, TypeOK, DeadTable
<1>3. CASE FailRetry(j, owner, now)
  <2>1. jobs[j] \in JobRow
    BY <1>3 DEF FailRetry, OwnsJob, TypeOK
  <2>2. BackoffFor(Policy[Target[j]], jobs[j].attempts) \in Nat
    BY <2>1, PolicyType, BackoffType DEF JobRow
  <2> DEFINE v == now + BackoffFor(Policy[Target[j]], jobs[j].attempts)
  <2>3. v \in Nat
    BY <2>2
  <2>4. jobs' = [jobs EXCEPT ![j] = [jobs[j] EXCEPT !.visible_at = v,
                                     !.owner = NoOwner, !.lease_until = 0]]
    BY <1>3, <2>1 DEF FailRetry, TypeOK, JobRow
  <2> HIDE DEF v
  <2>5. [jobs[j] EXCEPT !.visible_at = v, !.owner = NoOwner, !.lease_until = 0] \in JobRow
    BY <2>1, <2>3 DEF JobRow
  <2>6. jobs' \in [JobIds -> JobRow \cup {NoJob}]
    BY <2>4, <2>5 DEF TypeOK
  <2> QED BY <1>3, <2>6 DEF FailRetry, TypeOK
<1> QED BY <1>1, <1>2, <1>3 DEF FailJob

-----------------------------------------------------------------------------
(* The inductive invariant                                                 *)

\* Owners are handed out once: a row's owner is not from the future, and no two
\* dispatches hold the same owner.
OwnerInv ==
    /\ \A j \in JobIds :
          jobs[j] # NoJob /\ jobs[j].owner # NoOwner => jobs[j].owner <= lastOwner
    /\ \A w \in Workers :
          worker[w].pc # "idle" =>
             /\ worker[w].job \in published
             /\ worker[w].owner \in Nat /\ worker[w].owner <= lastOwner
    /\ \A v, w \in Workers :
          v # w /\ worker[v].pc # "idle" /\ worker[w].pc # "idle"
             => worker[v].owner # worker[w].owner

\* What a dispatch has staged to publish is published nowhere else.
StagedInv ==
    /\ \A w \in Workers : worker[w].pc = "idle" => worker[w].pubs = << >>
    /\ \A w \in Workers : Range(worker[w].pubs) \cap published = {}
    /\ \A v, w \in Workers :
          v # w => Range(worker[v].pubs) \cap Range(worker[w].pubs) = {}

Unpublished == \A j \in JobIds : j \notin published => delivered[j] = 0

LifeInv == Conservation /\ EffectOnlyWithAck /\ AttemptBudget /\ Unpublished

IInv == TypeOK /\ OwnerInv /\ StagedInv /\ LifeInv

\* Nothing is in an empty sequence.
LEMMA EmptyRange == Range(<< >>) = {}
  BY DEF Range

\* A worker without a dispatch is well typed.
LEMMA IdleType == Idle \in WorkerState
  BY DEF Idle, WorkerState, PCs

\* A step that only changes what one dispatch holds.
LEMMA LocalStep ==
  ASSUME IInv, NEW w \in Workers, NEW s \in WorkerState,
         worker' = [worker EXCEPT ![w] = s],
         UNCHANGED <<storeVars, lastOwner, applied, history>>,
         \/ s = Idle
         \/ /\ worker[w].pc # "idle" /\ s.pc # "idle"
            /\ s.job = worker[w].job /\ s.owner = worker[w].owner
            /\ \A j \in Range(s.pubs) : j \in Range(worker[w].pubs) \/ Fresh(j)
  PROVE  IInv'
<1> USE DEF IInv
<1>1. TypeOK'
  BY DEF TypeOK, storeVars, history
<1>2. LifeInv'
  BY DEF LifeInv, Conservation, EffectOnlyWithAck, AttemptBudget, Unpublished,
         storeVars, history
<1>3. /\ worker'[w] = s
      /\ \A v \in Workers : v # w => worker'[v] = worker[v]
  BY DEF TypeOK
<1>4. OwnerInv'
  <2>1. CASE s = Idle
    BY <1>3, <2>1 DEF OwnerInv, Idle, storeVars, history
  <2>2. CASE s # Idle
    BY <1>3, <2>2 DEF OwnerInv, storeVars, history
  <2> QED BY <2>1, <2>2
<1>5. /\ Range(worker'[w].pubs) = Range(s.pubs)
      /\ \A v \in Workers : v # w => Range(worker'[v].pubs) = Range(worker[v].pubs)
  BY <1>3
<1>6. Range(s.pubs) \cap published = {}
  BY EmptyRange DEF StagedInv, Fresh, Idle
<1>7. \A v \in Workers : v # w => Range(s.pubs) \cap Range(worker[v].pubs) = {}
  BY EmptyRange DEF StagedInv, Fresh, Idle
<1>8. s.pc = "idle" => s.pubs = << >>
  BY DEF Idle
<1>9. StagedInv'
  <2>1. \A v \in Workers : worker'[v].pc = "idle" => worker'[v].pubs = << >>
    BY <1>3, <1>8 DEF StagedInv
  <2>2. \A v \in Workers : Range(worker'[v].pubs) \cap published' = {}
    BY <1>5, <1>6 DEF StagedInv, history
  <2>3. \A u, v \in Workers :
          u # v => Range(worker'[u].pubs) \cap Range(worker'[v].pubs) = {}
    BY <1>5, <1>7 DEF StagedInv
  <2> QED BY <2>1, <2>2, <2>3 DEF StagedInv
<1> QED BY <1>1, <1>2, <1>4, <1>9

-----------------------------------------------------------------------------
(* One lemma per action                                                    *)

\* The initial state satisfies the invariant.
LEMMA InitIInv == Init => IInv
<1> SUFFICES ASSUME Init PROVE IInv
  OBVIOUS
<1>1. TypeOK
  BY IdleType DEF Init, TypeOK
<1>2. OwnerInv
  BY DEF Init, OwnerInv, Idle
<1>3. StagedInv
  BY EmptyRange DEF Init, StagedInv, Idle
<1>4. LifeInv
  <2>1. \A j \in JobIds : Policy[Target[j]].max_attempts \in Nat \ {0}
    BY PolicyType DEF QueuePolicy
  <2> QED BY <2>1 DEF Init, LifeInv, Conservation, EffectOnlyWithAck, AttemptBudget,
                      Unpublished
<1> QED BY <1>1, <1>2, <1>3, <1>4 DEF IInv

\* Starting the guest changes its own dispatch only.
LEMMA StartGuestIInv ==
  ASSUME IInv, NEW w \in Workers, NEW now \in Nat, StartGuest(w, now)
  PROVE  IInv'
<1> DEFINE s == [worker[w] EXCEPT !.pc = "running", !.clock = now, !.rev = revision]
<1>1. worker[w] \in WorkerState /\ revision \in Nat
  BY DEF IInv, TypeOK
<1>2. /\ s \in WorkerState /\ s.pc = "running" /\ s.job = worker[w].job
      /\ s.owner = worker[w].owner /\ s.pubs = worker[w].pubs
  BY <1>1 DEF WorkerState, PCs
<1>3. worker' = [worker EXCEPT ![w] = s]
  BY <1>1 DEF StartGuest, IInv, TypeOK
<1> HIDE DEF s
<1> QED BY <1>2, <1>3, LocalStep DEF StartGuest

\* Staging a write changes its own dispatch only.
LEMMA StageWriteIInv ==
  ASSUME IInv, NEW w \in Workers, StageWrite(w)
  PROVE  IInv'
<1> DEFINE s == [worker[w] EXCEPT !.writes = TRUE]
<1>1. worker[w] \in WorkerState
  BY DEF IInv, TypeOK
<1>2. /\ s \in WorkerState /\ s.pc = worker[w].pc /\ s.job = worker[w].job
      /\ s.owner = worker[w].owner /\ s.pubs = worker[w].pubs
  BY <1>1 DEF WorkerState
<1>3. worker' = [worker EXCEPT ![w] = s]
  BY <1>1 DEF StageWrite, IInv, TypeOK
<1> HIDE DEF s
<1> QED BY <1>2, <1>3, LocalStep DEF StageWrite

\* A staged publication has an identity nobody else uses.
LEMMA StagePublishIInv ==
  ASSUME IInv, NEW w \in Workers, NEW j \in JobIds, StagePublish(w, j)
  PROVE  IInv'
<1> DEFINE p == Append(worker[w].pubs, j)
           s == [worker[w] EXCEPT !.pubs = p]
<1>1. worker[w] \in WorkerState /\ worker[w].pubs \in Seq(JobIds)
  BY DEF IInv, TypeOK, WorkerState
<1>2. p \in Seq(JobIds)
  BY <1>1
<1>3. \A k \in Range(p) : k \in Range(worker[w].pubs) \/ k = j
  BY <1>1 DEF Range
<1>4. worker' = [worker EXCEPT ![w] = s]
  BY <1>1 DEF StagePublish, IInv, TypeOK
<1> HIDE DEF p
<1>5. /\ s \in WorkerState /\ s.pc = worker[w].pc /\ s.job = worker[w].job
      /\ s.owner = worker[w].owner /\ s.pubs = p
  BY <1>1, <1>2 DEF WorkerState
<1> HIDE DEF s
<1> QED BY <1>3, <1>4, <1>5, LocalStep DEF StagePublish

\* A guest that returns changes its own dispatch only.
LEMMA GuestOkIInv ==
  ASSUME IInv, NEW w \in Workers, GuestOk(w)
  PROVE  IInv'
<1> DEFINE s == [worker[w] EXCEPT !.pc = "returned"]
<1>1. worker[w] \in WorkerState
  BY DEF IInv, TypeOK
<1>2. /\ s \in WorkerState /\ s.pc = "returned" /\ s.job = worker[w].job
      /\ s.owner = worker[w].owner /\ s.pubs = worker[w].pubs
  BY <1>1 DEF WorkerState, PCs
<1>3. worker' = [worker EXCEPT ![w] = s]
  BY <1>1 DEF GuestOk, IInv, TypeOK
<1> HIDE DEF s
<1> QED BY <1>2, <1>3, LocalStep DEF GuestOk

\* A failure drops what was staged, whether the guest or the commit failed.
LEMMA FailingIInv ==
  ASSUME IInv, NEW w \in Workers, GuestFailed(w) \/ CommitRejected(w)
  PROVE  IInv'
<1> DEFINE e == << >>
           s == [worker[w] EXCEPT !.pc = "failing", !.writes = FALSE, !.pubs = e]
<1>0. e \in Seq(JobIds) /\ Range(e) = {}
  BY EmptyRange
<1>1. worker[w] \in WorkerState
  BY DEF IInv, TypeOK
<1>3. worker' = [worker EXCEPT ![w] = s]
  BY <1>1 DEF GuestFailed, CommitRejected, IInv, TypeOK
<1> HIDE DEF e
<1>2. /\ s \in WorkerState /\ s.pc = "failing" /\ s.job = worker[w].job
      /\ s.owner = worker[w].owner /\ s.pubs = e
  BY <1>0, <1>1 DEF WorkerState, PCs
<1> HIDE DEF s
<1> QED BY <1>0, <1>2, <1>3, LocalStep DEF GuestFailed, CommitRejected

\* A crash forgets the dispatch and leaves the tables.
LEMMA CrashIInv ==
  ASSUME IInv, NEW w \in Workers, Crash(w)
  PROVE  IInv'
  BY LocalStep, IdleType DEF Crash

\* What the rows of a commit look like: freshly published jobs.
LEMMA PublishedRowFacts ==
  ASSUME TypeOK, NEW pubs \in Seq(JobIds), NEW j \in Range(pubs), NEW now \in Nat
  PROVE  /\ PublishedRow(pubs, j, now) # NoJob
         /\ PublishedRow(pubs, j, now).attempts = 0
         /\ PublishedRow(pubs, j, now).owner = NoOwner
<1> DEFINE c == CHOOSE i \in DOMAIN pubs : pubs[i] = j
<1>1. \E i \in DOMAIN pubs : pubs[i] = j
  BY DEF Range
<1>2. c \in DOMAIN pubs
  BY <1>1
<1>3. c \in Nat
  BY <1>2
<1>4. PublishedRow(pubs, j, now) =
        [seq |-> sequence + c, attempts |-> 0, visible_at |-> now,
         owner |-> NoOwner, lease_until |-> 0]
  BY DEF PublishedRow
<1> HIDE DEF c
<1>5. PublishedRow(pubs, j, now) \in JobRow
  BY <1>3, <1>4 DEF JobRow, TypeOK
<1> QED BY <1>4, <1>5, JobQueueAssumption

\* The members of a sequence of jobs are jobs.
LEMMA SeqRange ==
  ASSUME NEW pubs \in Seq(JobIds)
  PROVE  Range(pubs) \subseteq JobIds
  BY DEF Range

\* An invocation that publishes adds jobs that were unpublished.
LEMMA InvocationIInv ==
  ASSUME IInv, NEW pubs \in Seq(JobIds), NEW writes \in BOOLEAN, NEW now \in Nat,
         InvocationCommit(pubs, writes, now)
  PROVE  IInv'
<1> USE DEF IInv
<1> DEFINE P == Range(pubs)
<1>1. P \subseteq JobIds
  BY SeqRange
<1>2. \A j \in P : j \notin published /\ jobs[j] = NoJob /\ delivered[j] = 0
                   /\ j \notin acked /\ j \notin buried
  BY <1>1 DEF InvocationCommit, Fresh, LifeInv, Conservation, Unpublished
<1>3. \A j \in JobIds : jobs'[j] = IF j \in P THEN PublishedRow(pubs, j, now) ELSE jobs[j]
  BY DEF InvocationCommit, CommitPlan
<1>4. \A j \in P : /\ jobs'[j] # NoJob /\ jobs'[j].attempts = 0
                   /\ jobs'[j].owner = NoOwner
  BY <1>1, <1>3, PublishedRowFacts
<1>5. \A j \in JobIds \ P : jobs'[j] = jobs[j]
  BY <1>3
<1>6. /\ published' = published \cup P
      /\ UNCHANGED <<worker, lastOwner, applied, acked, buried, delivered>>
  BY DEF InvocationCommit, procVars
<1>7. TypeOK'
  <2>1. CommitPlan(writes, revision, pubs, {}, NoOwner, now)
    BY DEF InvocationCommit
  <2>2. /\ jobs' \in [JobIds -> JobRow \cup {NoJob}]
        /\ dead' \in [JobIds -> DeadRow \cup {NoJob}]
        /\ sequence' \in Nat /\ revision' \in Nat
    BY <2>1, CommitPlanType
  <2> QED BY <2>2, <1>1, <1>6 DEF TypeOK
<1> HIDE DEF P
<1>8. OwnerInv'
  BY <1>4, <1>5, <1>6 DEF OwnerInv
<1>9. StagedInv'
  <2>1. \A w \in Workers : Range(worker[w].pubs) \cap P = {}
    BY DEF InvocationCommit, Fresh, P
  <2> QED BY <2>1, <1>6 DEF StagedInv
<1>10. Conservation'
  BY <1>1, <1>2, <1>4, <1>5, <1>6 DEF LifeInv, Conservation
<1>11. AttemptBudget'
  <2>1. \A j \in JobIds : Policy[Target[j]].max_attempts \in Nat
    BY PolicyType DEF QueuePolicy
  <2> QED BY <2>1, <1>1, <1>2, <1>4, <1>5, <1>6 DEF LifeInv, AttemptBudget
<1>12. EffectOnlyWithAck' /\ Unpublished'
  BY <1>6 DEF LifeInv, EffectOnlyWithAck, Unpublished
<1> QED BY <1>7, <1>8, <1>9, <1>10, <1>11, <1>12 DEF LifeInv

\* A reservation counts its delivery, takes a new owner and buries only spent jobs.
LEMMA ReserveIInv ==
  ASSUME IInv, NEW w \in Workers, NEW q \in Queues, NEW now \in Nat,
         Reserve(w, q, now)
  PROVE  IInv'
<1> USE DEF IInv
<1> DEFINE D == Deliverable(q, now)
           T == Terminalized(q, now)
           o == lastOwner + 1
           s == IF D = {} THEN Idle
                ELSE [Idle EXCEPT !.pc = "reserved", !.job = CHOOSE j \in D : TRUE,
                                  !.owner = o, !.clock = now]
<1>1. /\ D \subseteq JobIds /\ T \subseteq JobIds /\ D \cap T = {}
      /\ \A j \in D \cup T : jobs[j] # NoJob
  BY QueueSubsets
<1>2. o \in Owners /\ lastOwner \in Nat
  BY DEF TypeOK, Owners
<1>3. /\ ReserveJob(q, o, now)
      /\ worker' = [worker EXCEPT ![w] = s]
      /\ lastOwner' = IF D = {} THEN lastOwner ELSE o
      /\ delivered' = [j \in JobIds |-> IF j \in D THEN delivered[j] + 1 ELSE delivered[j]]
      /\ buried' = buried \cup T
      /\ UNCHANGED <<applied, published, acked>>
      /\ worker[w].pc = "idle"
  BY DEF Reserve
<1>4. \A j \in JobIds : jobs'[j] = IF j \in T THEN NoJob
                                   ELSE IF j \in D THEN LeasedRow(j, o, now)
                                   ELSE jobs[j]
  BY <1>3 DEF ReserveJob
<1>5. \A j \in D : /\ jobs'[j] # NoJob /\ jobs'[j].attempts = jobs[j].attempts + 1
                   /\ jobs'[j].owner = o
  <2> TAKE j \in D
  <2>1. jobs[j] \in JobRow /\ j \in JobIds
    BY <1>1 DEF TypeOK
  <2>2. jobs'[j] = LeasedRow(j, o, now)
    BY <1>1, <1>4
  <2>3. jobs' \in [JobIds -> JobRow \cup {NoJob}]
    BY <1>2, <1>3, ReserveJobType
  <2>4. /\ LeasedRow(j, o, now).attempts = jobs[j].attempts + 1
        /\ LeasedRow(j, o, now).owner = o
        /\ LeasedRow(j, o, now) \in JobRow
    <3> DEFINE u == now + Policy[Target[j]].lease
               a == jobs[j].attempts + 1
    <3>1. u \in Nat /\ a \in Nat
      BY <2>1, PolicyType DEF QueuePolicy, JobRow
    <3>2. LeasedRow(j, o, now) =
            [jobs[j] EXCEPT !.attempts = a, !.owner = o, !.lease_until = u]
      BY DEF LeasedRow
    <3> HIDE DEF u, a
    <3>3. LeasedRow(j, o, now).attempts = a /\ LeasedRow(j, o, now).owner = o
          /\ LeasedRow(j, o, now) \in JobRow
      BY <2>1, <1>2, <3>1, <3>2 DEF JobRow
    <3> QED BY <3>3 DEF a
  <2> QED BY <2>2, <2>4, JobQueueAssumption
<1>6. /\ \A j \in T : jobs'[j] = NoJob
      /\ \A j \in JobIds : j \notin D /\ j \notin T => jobs'[j] = jobs[j]
  BY <1>1, <1>4
<1>7. s \in WorkerState /\ s.pubs = << >>
      /\ (s.pc # "idle" => s.job \in D /\ s.owner = o /\ D # {})
  <2>1. CASE D = {}
    BY <2>1, IdleType DEF Idle
  <2>2. CASE D # {}
    <3>1. (CHOOSE j \in D : TRUE) \in D
      BY <2>2
    <3> DEFINE c == CHOOSE j \in D : TRUE
    <3>2. c \in JobIds /\ c \in D
      BY <1>1, <3>1
    <3> HIDE DEF c
    <3>3. s = [Idle EXCEPT !.pc = "reserved", !.job = c, !.owner = o, !.clock = now]
      BY <2>2 DEF c
    <3> HIDE DEF s
    <3>4. /\ s \in WorkerState /\ s.job = c /\ s.owner = o /\ s.pubs = Idle.pubs
      BY <1>2, <3>2, <3>3, IdleType DEF WorkerState, PCs
    <3>5. Idle.pubs = << >>
      BY DEF Idle
    <3> QED BY <2>2, <3>2, <3>4, <3>5
  <2> QED BY <2>1, <2>2
<1> HIDE DEF s
<1>8. TypeOK'
  <2>1. /\ jobs' \in [JobIds -> JobRow \cup {NoJob}]
        /\ dead' \in [JobIds -> DeadRow \cup {NoJob}]
        /\ sequence' \in Nat /\ revision' \in Nat
    BY <1>2, <1>3, ReserveJobType
  <2> QED BY <2>1, <1>1, <1>2, <1>3, <1>7 DEF TypeOK
<1> HIDE DEF D, T
<1>9. /\ worker'[w] = s
      /\ \A v \in Workers : v # w => worker'[v] = worker[v]
  BY <1>3 DEF TypeOK
<1>10. D \subseteq published /\ T \subseteq published
  BY <1>1 DEF LifeInv, Conservation
<1>11. OwnerInv'
  <2>1. \A j \in JobIds : jobs'[j] # NoJob /\ jobs'[j].owner # NoOwner
                             => jobs'[j].owner <= lastOwner'
    <3> SUFFICES ASSUME NEW j \in JobIds, jobs'[j] # NoJob, jobs'[j].owner # NoOwner
                 PROVE  jobs'[j].owner <= lastOwner'
      OBVIOUS
    <3>1. CASE j \in D
      BY <1>2, <1>3, <1>5, <3>1
    <3>2. CASE j \notin D
      <4>1. jobs'[j] = jobs[j]
        BY <1>6, <3>2
      <4>2. jobs[j].owner <= lastOwner /\ jobs[j].owner \in Nat
        BY <4>1 DEF OwnerInv, TypeOK, JobRow, Owners
      <4> QED BY <4>1, <4>2, <1>2, <1>3
    <3> QED BY <3>1, <3>2
  <2>2. \A v \in Workers : worker'[v].pc # "idle" =>
             /\ worker'[v].job \in published'
             /\ worker'[v].owner \in Nat /\ worker'[v].owner <= lastOwner'
    BY <1>2, <1>3, <1>7, <1>9, <1>10 DEF OwnerInv
  <2>3. \A v \in Workers : v # w /\ worker'[v].pc # "idle" /\ worker'[w].pc # "idle"
             => worker'[v].owner # worker'[w].owner
    BY <1>2, <1>7, <1>9 DEF OwnerInv
  <2>4. \A u, v \in Workers :
           u # v /\ worker'[u].pc # "idle" /\ worker'[v].pc # "idle"
             => worker'[u].owner # worker'[v].owner
    BY <1>9, <2>3 DEF OwnerInv
  <2> QED BY <2>1, <2>2, <2>4 DEF OwnerInv
<1>12. StagedInv'
  <2>1. /\ Range(worker'[w].pubs) = {}
        /\ \A v \in Workers : v # w => Range(worker'[v].pubs) = Range(worker[v].pubs)
    BY <1>7, <1>9, EmptyRange
  <2>2. \A v \in Workers : worker'[v].pc = "idle" => worker'[v].pubs = << >>
    BY <1>7, <1>9 DEF StagedInv
  <2>3. \A v \in Workers : Range(worker'[v].pubs) \cap published' = {}
    BY <2>1, <1>3 DEF StagedInv
  <2>4. \A u, v \in Workers :
          u # v => Range(worker'[u].pubs) \cap Range(worker'[v].pubs) = {}
    BY <2>1 DEF StagedInv
  <2> QED BY <2>2, <2>3, <2>4 DEF StagedInv
<1>13. Conservation'
  BY <1>1, <1>3, <1>5, <1>6, <1>10 DEF LifeInv, Conservation
<1>14. AttemptBudget'
  <2> SUFFICES ASSUME NEW j \in JobIds
               PROVE  /\ delivered'[j] <= Policy[Target[j]].max_attempts
                      /\ j \in buried' => delivered'[j] = Policy[Target[j]].max_attempts
                      /\ jobs'[j] # NoJob => jobs'[j].attempts = delivered'[j]
    BY DEF AttemptBudget
  <2>1. /\ Policy[Target[j]].max_attempts \in Nat /\ delivered[j] \in Nat
        /\ delivered[j] <= Policy[Target[j]].max_attempts
        /\ j \in buried => delivered[j] = Policy[Target[j]].max_attempts
        /\ jobs[j] # NoJob => jobs[j].attempts = delivered[j]
        /\ jobs[j] # NoJob => j \notin buried
    BY PolicyType DEF QueuePolicy, TypeOK, LifeInv, AttemptBudget, Conservation
  <2>2. CASE j \in D
    <3>1. ~Exhausted(j)
      BY <2>2 DEF D, Deliverable
    <3>2. delivered[j] + 1 <= Policy[Target[j]].max_attempts
      BY <2>1, <2>2, <3>1, <1>1 DEF Exhausted
    <3> QED BY <2>1, <2>2, <3>2, <1>1, <1>3, <1>5
  <2>3. CASE j \in T
    <3>1. Exhausted(j)
      BY <2>3 DEF T, Terminalized
    <3>2. delivered[j] = Policy[Target[j]].max_attempts
      BY <2>1, <2>3, <3>1, <1>1 DEF Exhausted
    <3> QED BY <2>1, <2>3, <3>2, <1>1, <1>3, <1>6
  <2>4. CASE j \notin D /\ j \notin T
    BY <2>1, <2>4, <1>3, <1>6
  <2> QED BY <2>2, <2>3, <2>4
<1>15. EffectOnlyWithAck' /\ Unpublished'
  BY <1>3, <1>10 DEF LifeInv, EffectOnlyWithAck, Unpublished
<1> QED BY <1>8, <1>11, <1>12, <1>13, <1>14, <1>15 DEF LifeInv

\* A committed outcome acknowledges the job of its owner, once, with its writes.
LEMMA CommitOutcomeIInv ==
  ASSUME IInv, NEW w \in Workers, NEW now \in Nat, CommitOutcome(w, now)
  PROVE  IInv'
<1> USE DEF IInv
<1> DEFINE j0 == worker[w].job
           pubs == worker[w].pubs
           P == Range(pubs)
<1>1. /\ pubs \in Seq(JobIds) /\ worker[w].writes \in BOOLEAN
      /\ worker[w].pc = "returned"
  BY DEF TypeOK, WorkerState, CommitOutcome
<1>2. CommitPlan(worker[w].writes, worker[w].rev, pubs, {j0}, worker[w].owner, now)
  BY DEF CommitOutcome
<1>3. /\ worker' = [worker EXCEPT ![w] = Idle]
      /\ applied' = [applied EXCEPT ![j0] = IF worker[w].writes THEN @ + 1 ELSE @]
      /\ published' = published \cup P
      /\ acked' = acked \cup {j0}
      /\ UNCHANGED <<lastOwner, buried, delivered>>
  BY DEF CommitOutcome
<1>4. P \subseteq JobIds /\ P \cap published = {}
  BY <1>1, SeqRange DEF StagedInv
<1>5. /\ j0 \in published /\ j0 \in JobIds
      /\ jobs[j0] # NoJob
  BY <1>1, <1>2 DEF OwnerInv, TypeOK, CommitPlan, CommitAccepted, OwnsJob
<1>6. j0 \notin P /\ j0 \notin acked /\ j0 \notin buried
  BY <1>4, <1>5 DEF LifeInv, Conservation
<1>7. \A j \in P : /\ jobs[j] = NoJob /\ delivered[j] = 0
                   /\ j \notin acked /\ j \notin buried
  BY <1>4 DEF LifeInv, Conservation, Unpublished
<1>8. \A j \in JobIds : jobs'[j] = IF j = j0 THEN NoJob
                                   ELSE IF j \in P THEN PublishedRow(pubs, j, now)
                                   ELSE jobs[j]
  BY <1>2 DEF CommitPlan
<1>9. \A j \in P : /\ jobs'[j] # NoJob /\ jobs'[j].attempts = 0
                   /\ jobs'[j].owner = NoOwner
  BY <1>1, <1>4, <1>6, <1>8, PublishedRowFacts
<1>10. /\ jobs'[j0] = NoJob
       /\ \A j \in JobIds : j # j0 /\ j \notin P => jobs'[j] = jobs[j]
  BY <1>5, <1>8
<1>11. TypeOK'
  <2>1. /\ jobs' \in [JobIds -> JobRow \cup {NoJob}]
        /\ dead' \in [JobIds -> DeadRow \cup {NoJob}]
        /\ sequence' \in Nat /\ revision' \in Nat
    BY <1>1, <1>2, CommitPlanType
  <2> QED BY <2>1, <1>3, <1>4, <1>5, IdleType DEF TypeOK
<1> HIDE DEF j0, P, pubs
<1>12. /\ worker'[w] = Idle
       /\ \A v \in Workers : v # w => worker'[v] = worker[v]
  BY <1>3 DEF TypeOK
<1>13. Idle.pc = "idle" /\ Idle.pubs = << >>
  BY DEF Idle
<1>14. OwnerInv'
  <2>1. \A j \in JobIds : jobs'[j] # NoJob /\ jobs'[j].owner # NoOwner
                             => jobs'[j].owner <= lastOwner'
    BY <1>3, <1>9, <1>10 DEF OwnerInv
  <2> QED BY <2>1, <1>3, <1>12, <1>13 DEF OwnerInv
<1>15. StagedInv'
  <2>1. /\ Range(worker'[w].pubs) = {}
        /\ \A v \in Workers : v # w => /\ Range(worker'[v].pubs) = Range(worker[v].pubs)
                                        /\ Range(worker[v].pubs) \cap P = {}
    BY <1>12, <1>13, EmptyRange DEF StagedInv, P, pubs
  <2>2. \A v \in Workers : worker'[v].pc = "idle" => worker'[v].pubs = << >>
    BY <1>12, <1>13 DEF StagedInv
  <2>3. \A v \in Workers : Range(worker'[v].pubs) \cap published' = {}
    BY <2>1, <1>3 DEF StagedInv
  <2>4. \A u, v \in Workers :
          u # v => Range(worker'[u].pubs) \cap Range(worker'[v].pubs) = {}
    BY <2>1 DEF StagedInv
  <2> QED BY <2>2, <2>3, <2>4 DEF StagedInv
<1>16. Conservation'
  BY <1>3, <1>4, <1>5, <1>6, <1>7, <1>9, <1>10 DEF LifeInv, Conservation
<1>17. AttemptBudget'
  <2>1. \A j \in JobIds : Policy[Target[j]].max_attempts \in Nat
    BY PolicyType DEF QueuePolicy
  <2> QED BY <2>1, <1>3, <1>7, <1>9, <1>10 DEF LifeInv, AttemptBudget
<1>18. EffectOnlyWithAck'
  <2>1. applied[j0] = 0
    BY <1>5, <1>6 DEF LifeInv, EffectOnlyWithAck
  <2>2. applied'[j0] \in {0, 1}
    BY <2>1, <1>3, <1>5 DEF TypeOK
  <2>3. \A j \in JobIds : j # j0 => applied'[j] = applied[j]
    BY <1>3 DEF TypeOK
  <2> QED BY <2>2, <2>3, <1>3 DEF LifeInv, EffectOnlyWithAck
<1>19. Unpublished'
  BY <1>3 DEF LifeInv, Unpublished
<1> QED BY <1>11, <1>14, <1>15, <1>16, <1>17, <1>18, <1>19 DEF LifeInv

\* A failed delivery is rescheduled, buried with its budget spent, or not its own any more.
LEMMA FailDeliveryIInv ==
  ASSUME IInv, NEW w \in Workers, NEW now \in Nat, FailDelivery(w, now)
  PROVE  IInv'
<1> USE DEF IInv
<1> DEFINE j0 == worker[w].job
           o == worker[w].owner
<1>1. /\ worker[w].pc = "failing" /\ FailJob(j0, o, now)
      /\ worker' = [worker EXCEPT ![w] = Idle]
      /\ buried' = IF OwnsJob(j0, o) /\ jobs'[j0] = NoJob THEN buried \cup {j0} ELSE buried
      /\ UNCHANGED <<lastOwner, applied, published, acked, delivered>>
  BY DEF FailDelivery
<1>2. j0 \in published /\ j0 \in JobIds
  BY <1>1 DEF OwnerInv, TypeOK
<1>3. TypeOK'
  <2>1. /\ jobs' \in [JobIds -> JobRow \cup {NoJob}]
        /\ dead' \in [JobIds -> DeadRow \cup {NoJob}]
        /\ sequence' \in Nat /\ revision' \in Nat
    BY <1>1, <1>2, FailJobType
  <2> QED BY <2>1, <1>1, <1>2, IdleType DEF TypeOK
\* The job's row is left alone, or is gone with its budget spent, or waits
\* for another attempt without an owner.
<1>4. \/ jobs' = jobs /\ buried' = buried
      \/ /\ jobs[j0] # NoJob /\ jobs' = [jobs EXCEPT ![j0] = NoJob]
         /\ buried' = buried \cup {j0}
         /\ jobs[j0].attempts >= Policy[Target[j0]].max_attempts
      \/ /\ jobs[j0] # NoJob /\ jobs'[j0] # NoJob /\ buried' = buried
         /\ jobs'[j0].attempts = jobs[j0].attempts /\ jobs'[j0].owner = NoOwner
         /\ \A j \in JobIds : j # j0 => jobs'[j] = jobs[j]
  <2>1. CASE FailLost(j0, o)
    BY <2>1, <1>1 DEF FailLost, storeVars
  <2>2. CASE FailDeadLetter(j0, o, now)
    BY <2>2, <1>1, <1>2 DEF FailDeadLetter, OwnsJob, TypeOK
  <2>3. CASE FailRetry(j0, o, now)
    <3>1. jobs[j0] # NoJob /\ jobs[j0] \in JobRow
      BY <2>3, <1>2 DEF FailRetry, OwnsJob, TypeOK
    <3> DEFINE v == now + BackoffFor(Policy[Target[j0]], jobs[j0].attempts)
               r == [jobs[j0] EXCEPT !.visible_at = v, !.owner = NoOwner, !.lease_until = 0]
    <3>2. jobs' = [jobs EXCEPT ![j0] = r]
      BY <2>3, <3>1, <1>2 DEF FailRetry, TypeOK, JobRow
    <3>3. v \in Nat
      BY <3>1, <1>2, PolicyType, BackoffType DEF JobRow
    <3> HIDE DEF v
    <3>4. r \in JobRow /\ r.attempts = jobs[j0].attempts /\ r.owner = NoOwner
      BY <3>1, <3>3 DEF JobRow
    <3> HIDE DEF r
    <3>5. jobs'[j0] = r /\ \A j \in JobIds : j # j0 => jobs'[j] = jobs[j]
      BY <3>2, <1>2 DEF TypeOK
    <3>6. r # NoJob
      BY <3>4, JobQueueAssumption
    <3> QED BY <3>1, <3>4, <3>5, <3>6, <1>1
  <2> QED BY <1>1, <2>1, <2>2, <2>3 DEF FailJob
<1> HIDE DEF j0, o
<1>5. /\ worker'[w] = Idle
      /\ \A v \in Workers : v # w => worker'[v] = worker[v]
  BY <1>1 DEF TypeOK
<1>6. Idle.pc = "idle" /\ Idle.pubs = << >>
  BY DEF Idle
<1>7. \A j \in JobIds : j # j0 => jobs'[j] = jobs[j]
  BY <1>2, <1>4 DEF TypeOK
<1>8. OwnerInv'
  <2>1. \A j \in JobIds : jobs'[j] # NoJob /\ jobs'[j].owner # NoOwner
                             => jobs'[j].owner <= lastOwner'
    BY <1>1, <1>2, <1>4, <1>7 DEF OwnerInv, TypeOK
  <2> QED BY <2>1, <1>1, <1>5, <1>6 DEF OwnerInv
<1>9. StagedInv'
  <2>1. /\ Range(worker'[w].pubs) = {}
        /\ \A v \in Workers : v # w => Range(worker'[v].pubs) = Range(worker[v].pubs)
    BY <1>5, <1>6, EmptyRange
  <2>2. \A v \in Workers : worker'[v].pc = "idle" => worker'[v].pubs = << >>
    BY <1>5, <1>6 DEF StagedInv
  <2>3. \A v \in Workers : Range(worker'[v].pubs) \cap published' = {}
    BY <2>1, <1>1 DEF StagedInv
  <2>4. \A u, v \in Workers :
          u # v => Range(worker'[u].pubs) \cap Range(worker'[v].pubs) = {}
    BY <2>1 DEF StagedInv
  <2> QED BY <2>2, <2>3, <2>4 DEF StagedInv
<1>10. Conservation'
  BY <1>1, <1>2, <1>4, <1>7 DEF LifeInv, Conservation, TypeOK
<1>11. AttemptBudget'
  <2>1. \A j \in JobIds : Policy[Target[j]].max_attempts \in Nat /\ delivered[j] \in Nat
    BY PolicyType DEF QueuePolicy, TypeOK
  <2>2. \A j \in JobIds :
          /\ delivered[j] <= Policy[Target[j]].max_attempts
          /\ j \in buried => delivered[j] = Policy[Target[j]].max_attempts
          /\ jobs[j] # NoJob => jobs[j].attempts = delivered[j]
    BY DEF LifeInv, AttemptBudget
  <2>3. /\ j0 \in buried' => delivered[j0] = Policy[Target[j0]].max_attempts
        /\ jobs'[j0] # NoJob => jobs'[j0].attempts = delivered[j0]
    <3>1. CASE jobs' = jobs /\ buried' = buried
      BY <3>1, <2>2, <1>2
    <3>2. CASE /\ jobs[j0] # NoJob /\ jobs' = [jobs EXCEPT ![j0] = NoJob]
               /\ jobs[j0].attempts >= Policy[Target[j0]].max_attempts
      <4>1. jobs'[j0] = NoJob
        BY <3>2, <1>2 DEF TypeOK
      <4>2. delivered[j0] = Policy[Target[j0]].max_attempts
        BY <3>2, <2>1, <2>2, <1>2
      <4> QED BY <4>1, <4>2
    <3>3. CASE /\ jobs[j0] # NoJob /\ jobs'[j0] # NoJob /\ buried' = buried
               /\ jobs'[j0].attempts = jobs[j0].attempts
      BY <3>3, <2>2, <1>2
    <3> QED BY <3>1, <3>2, <3>3, <1>4
  <2>4. \A j \in JobIds : j # j0 => (j \in buried' => j \in buried)
    BY <1>4
  <2> QED BY <2>2, <2>3, <2>4, <1>1, <1>7 DEF AttemptBudget
<1>12. EffectOnlyWithAck' /\ Unpublished'
  BY <1>1 DEF LifeInv, EffectOnlyWithAck, Unpublished
<1> QED BY <1>3, <1>8, <1>9, <1>10, <1>11, <1>12 DEF LifeInv

-----------------------------------------------------------------------------
(* Safety                                                                  *)

\* Instants are numbers.
LEMMA InstantsNat == Instants \subseteq Nat
  BY JobQueueAssumption DEF Instants

\* What another invocation publishes at a time is a sequence of jobs.
LEMMA ShortSeqs ==
  ASSUME NEW pubs \in {<< >>} \cup {<<j>> : j \in JobIds}
  PROVE  pubs \in Seq(JobIds)
<1>1. << >> \in Seq(JobIds)
  OBVIOUS
<1>2. \A j \in JobIds : <<j>> \in Seq(JobIds)
  OBVIOUS
<1> QED BY <1>1, <1>2

\* Every step keeps the inductive invariant.
LEMMA StepIInv == IInv /\ [Next]_vars => IInv'
<1> SUFFICES ASSUME IInv, [Next]_vars PROVE IInv'
  OBVIOUS
<1>1. CASE UNCHANGED vars
  BY <1>1 DEF vars, storeVars, procVars, history, IInv, TypeOK, OwnerInv, StagedInv,
              LifeInv, Conservation, EffectOnlyWithAck, AttemptBudget, Unpublished
<1>2. CASE Invocation
  <2>1. PICK now \in Instants, writes \in BOOLEAN,
             pubs \in {<< >>} \cup {<<j>> : j \in JobIds} :
               InvocationCommit(pubs, writes, now)
    BY <1>2 DEF Invocation
  <2>2. pubs \in Seq(JobIds)
    BY ShortSeqs
  <2> QED BY <2>1, <2>2, InstantsNat, InvocationIInv
<1>3. ASSUME NEW w \in Workers, Dispatch(w) PROVE IInv'
  <2>1. CASE \E q \in Queues, now \in Instants : Reserve(w, q, now)
    BY <2>1, InstantsNat, ReserveIInv
  <2>2. CASE \E now \in Instants : StartGuest(w, now)
    BY <2>2, InstantsNat, StartGuestIInv
  <2>3. CASE StageWrite(w)
    BY <2>3, StageWriteIInv
  <2>4. CASE \E j \in JobIds : StagePublish(w, j)
    BY <2>4, StagePublishIInv
  <2>5. CASE GuestOk(w)
    BY <2>5, GuestOkIInv
  <2>6. CASE GuestFailed(w) \/ CommitRejected(w)
    BY <2>6, FailingIInv
  <2>7. CASE \E now \in Instants : CommitOutcome(w, now)
    BY <2>7, InstantsNat, CommitOutcomeIInv
  <2>8. CASE \E now \in Instants : FailDelivery(w, now)
    BY <2>8, InstantsNat, FailDeliveryIInv
  <2>9. CASE Crash(w)
    BY <2>9, CrashIInv
  <2> QED BY <1>3, <2>1, <2>2, <2>3, <2>4, <2>5, <2>6, <2>7, <2>8, <2>9 DEF Dispatch
<1> QED BY <1>1, <1>2, <1>3 DEF Next

\* The inductive invariant holds in every reachable state, for any queues, jobs,
\* workers and policies: what the theorems below read their results off.
THEOREM Invariance == Spec => []IInv
  BY InitIInv, StepIInv, PTL DEF Spec

\* Every variable keeps its type in every behaviour of the dispatchers.
THEOREM TypeCorrect == Spec => []TypeOK
<1>1. IInv => TypeOK
  BY DEF IInv
<1> QED BY <1>1, Invariance, PTL

\* No published job is lost, duplicated, or both acknowledged and dead-lettered,
\* for every number of workers, jobs and queues and every policy.
THEOREM JobsConserved == Spec => []Conservation
<1>1. IInv => Conservation
  BY DEF IInv, LifeInv
<1> QED BY <1>1, Invariance, PTL

\* A job's staged writes commit at most once, and only with its acknowledgement.
THEOREM EffectsOnce == Spec => []EffectOnlyWithAck
<1>1. IInv => EffectOnlyWithAck
  BY DEF IInv, LifeInv
<1> QED BY <1>1, Invariance, PTL

\* No job is handed out more often than its budget, and only a spent one is
\* dead-lettered.
THEOREM BudgetKept == Spec => []AttemptBudget
<1>1. IInv => AttemptBudget
  BY DEF IInv, LifeInv
<1> QED BY <1>1, Invariance, PTL

\* A job is handed out within its budget, takes effect once and ends in one
\* place, for every number of workers, jobs and queues and every policy.
THEOREM JobsDeliveredOnce == Spec => []DeliveredOnce
<1>1. Conservation /\ EffectOnlyWithAck /\ AttemptBudget => DeliveredOnce
  BY DEF DeliveredOnce
<1> QED BY <1>1, JobsConserved, EffectsOnce, BudgetKept, PTL

\* At most one dispatch owns a job's row.
THEOREM OwnersExclusive == Spec => []OneCurrentOwner
<1>1. IInv => OneCurrentOwner
  BY DEF IInv, OwnerInv, OneCurrentOwner, OwnsJob
<1> QED BY <1>1, Invariance, PTL

\* A worker whose lease was taken over changes nothing when its delivery ends.
THEOREM StaleOwnersFenced == Spec => StaleOwnerMutatesNothing
<1> DEFINE Harmless(w) ==
      /\ worker[w].pc \in {"returned", "failing"}
      /\ worker'[w].pc # worker[w].pc
      /\ ~OwnsJob(worker[w].job, worker[w].owner)
      => UNCHANGED <<storeVars, applied, acked>>
<1>1. ASSUME TypeOK, [Next]_vars, NEW w \in Workers PROVE Harmless(w)
  <2> SUFFICES ASSUME worker[w].pc \in {"returned", "failing"},
                      worker'[w].pc # worker[w].pc,
                      ~OwnsJob(worker[w].job, worker[w].owner)
               PROVE  UNCHANGED <<storeVars, applied, acked>>
    OBVIOUS
  <2>1. CASE UNCHANGED vars
    BY <2>1 DEF vars, procVars
  <2>2. CASE Invocation
    BY <2>2 DEF Invocation, InvocationCommit, procVars
  <2>3. ASSUME NEW v \in Workers, Dispatch(v), v # w PROVE FALSE
    <3>1. worker'[w] = worker[w]
      BY <1>1, <2>3 DEF TypeOK, Dispatch, Reserve, StartGuest, StageWrite, StagePublish,
         GuestOk, GuestFailed, CommitOutcome, CommitRejected, FailDelivery, Crash
    <3> QED BY <3>1
  <2>4. CASE Dispatch(w)
    <3>1. CASE \E now \in Instants : CommitOutcome(w, now)
      BY <3>1 DEF CommitOutcome, CommitPlan, CommitAccepted
    <3>2. CASE \E now \in Instants : FailDelivery(w, now)
      BY <3>2 DEF FailDelivery, FailJob, FailLost, FailDeadLetter, FailRetry
    <3>3. CASE CommitRejected(w) \/ Crash(w)
      BY <3>3 DEF CommitRejected, Crash, history
    <3> QED BY <2>4, <3>1, <3>2, <3>3 DEF Dispatch, Reserve, StartGuest, StageWrite,
               StagePublish, GuestOk, GuestFailed
  <2> QED BY <1>1, <2>1, <2>2, <2>3, <2>4 DEF Next
<1>2. TypeOK /\ [Next]_vars => [\A w \in Workers : Harmless(w)]_vars
  BY <1>1
<1> QED BY <1>2, TypeCorrect, PTL DEF Spec, StaleOwnerMutatesNothing

\* An acknowledgement commits only for the current owner, over the revision its
\* guest read, with all its writes.
THEOREM OutcomesOwned == Spec => CommittedOutcomeOwned
<1> DEFINE Owned(j) == j \in acked' \ acked =>
          \E w \in Workers :
              /\ worker[w].job = j /\ OwnsJob(j, worker[w].owner)
              /\ applied'[j] = applied[j] + (IF worker[w].writes THEN 1 ELSE 0)
              /\ (worker[w].writes => worker[w].rev = revision)
<1>1. ASSUME IInv, [Next]_vars, NEW j \in JobIds, j \in acked' \ acked
      PROVE  Owned(j)
  <2>1. PICK w \in Workers, now \in Instants : CommitOutcome(w, now)
    BY <1>1 DEF Next, Dispatch, vars, history, Invocation, InvocationCommit, Reserve,
       StartGuest, StageWrite, StagePublish, GuestOk, GuestFailed, CommitRejected,
       FailDelivery, Crash
  <2>2. worker[w].job = j
    BY <1>1, <2>1 DEF CommitOutcome
  <2>3. OwnsJob(j, worker[w].owner) /\ (worker[w].writes => worker[w].rev = revision)
    BY <2>1, <2>2 DEF CommitOutcome, CommitPlan, CommitAccepted
  <2>4. applied'[j] = applied[j] + (IF worker[w].writes THEN 1 ELSE 0)
    BY <1>1, <2>1, <2>2 DEF CommitOutcome, IInv, TypeOK
  <2> QED BY <2>2, <2>3, <2>4
<1>2. IInv /\ [Next]_vars => [\A j \in JobIds : Owned(j)]_vars
  BY <1>1
<1> QED BY <1>2, Invariance, PTL DEF Spec, CommittedOutcomeOwned

-----------------------------------------------------------------------------
(* The tables: their order and their bounds                                *)

\* Every set of jobs is finite.
LEMMA JobsFinite ==
  ASSUME NEW S \in SUBSET JobIds
  PROVE  IsFiniteSet(S) /\ Cardinality(S) \in Nat
  BY JobQueueAssumption, FS_Subset, FS_CardinalityType

\* Enforcing the bound only takes rows away, and only from its queue.
LEMMA EnforceKeeps ==
  ASSUME NEW d \in DeadTable, NEW q, NEW j \in JobIds
  PROVE  /\ EnforceDeadLetterBounds(d, q)[j] \in {NoJob, d[j]}
         /\ Target[j] # q => EnforceDeadLetterBounds(d, q)[j] = d[j]
  BY DEF EnforceDeadLetterBounds, DeadOf

\* After enforcing the bound the queue has at most that many dead letters,
\* because their sequences differ.
LEMMA EnforceBounded ==
  ASSUME NEW d \in DeadTable, NEW q \in Queues,
         \A j, k \in DeadOf(d, q) : j # k => d[j].seq # d[k].seq
  PROVE  Cardinality(DeadOf(EnforceDeadLetterBounds(d, q), q))
            <= Policy[q].dead_letter_max_entries
<1> DEFINE A == DeadOf(d, q)
           f == [j \in A |-> d[j].seq]
           m == Policy[q].dead_letter_max_entries
           B == {j \in A : Cardinality({k \in A : f[k] > f[j]}) < m}
<1>1. IsFiniteSet(A) /\ A \subseteq JobIds
  BY JobsFinite DEF DeadOf
<1>2. \A j \in A : d[j] \in DeadRow
  BY DEF DeadOf, DeadTable
<1>3. \A j \in A : f[j] \in Int
  BY <1>2 DEF DeadRow
<1>4. m \in Nat
  BY JobQueueAssumption DEF QueuePolicy
<1>5. DeadOf(EnforceDeadLetterBounds(d, q), q) \subseteq B
  <2> SUFFICES ASSUME NEW j \in DeadOf(EnforceDeadLetterBounds(d, q), q) PROVE j \in B
    OBVIOUS
  <2>1. /\ j \in JobIds /\ Target[j] = q
        /\ EnforceDeadLetterBounds(d, q)[j] # NoJob
    BY DEF DeadOf
  <2>2. d[j] # NoJob
    BY <2>1, EnforceKeeps
  <2>3. j \in A
    BY <2>1, <2>2 DEF DeadOf
  <2>4. ~(Cardinality({k \in A : d[k].seq > d[j].seq}) >= m)
    BY <2>1, <2>3 DEF EnforceDeadLetterBounds
  <2>5. {k \in A : f[k] > f[j]} = {k \in A : d[k].seq > d[j].seq}
    BY <2>3
  <2>6. Cardinality({k \in A : f[k] > f[j]}) \in Nat
    <3>1. {k \in A : f[k] > f[j]} \in SUBSET JobIds
      BY <1>1
    <3> QED BY <3>1, JobsFinite
  <2> DEFINE c == Cardinality({k \in A : f[k] > f[j]})
  <2>7. c \in Nat /\ ~(c >= m)
    BY <2>4, <2>5, <2>6
  <2> HIDE DEF c, m
  <2>8. c < m
    BY <2>7, <1>4
  <2> QED BY <2>3, <2>8 DEF c, m
<1>6. \A j, k \in A : j # k => f[j] # f[k]
  OBVIOUS
<1>7. Cardinality(B) <= m
  <2> HIDE DEF A, f, m
  <2> QED BY <1>1, <1>3, <1>4, <1>6, NewestBounded
<1>8. B \in SUBSET JobIds
  BY <1>1
<1> HIDE DEF B, m
<1>9. /\ Cardinality(DeadOf(EnforceDeadLetterBounds(d, q), q)) <= Cardinality(B)
      /\ Cardinality(DeadOf(EnforceDeadLetterBounds(d, q), q)) \in Nat
      /\ Cardinality(B) \in Nat
  <2>1. IsFiniteSet(B)
    BY <1>8, JobsFinite
  <2>2. Cardinality(DeadOf(EnforceDeadLetterBounds(d, q), q)) <= Cardinality(B)
    BY <1>5, <2>1, FS_Subset
  <2>3. DeadOf(EnforceDeadLetterBounds(d, q), q) \in SUBSET JobIds
    BY <1>5, <1>8
  <2> QED BY <2>2, <2>3, <1>8, JobsFinite
<1>10. Cardinality(DeadOf(EnforceDeadLetterBounds(d, q), q)) <= m
  BY <1>4, <1>7, <1>9
<1> QED BY <1>10 DEF m

\* What burying the jobs S of queue q makes of the dead-letter table d.
LEMMA DeadLetterFacts ==
  ASSUME TypeOK, NEW d \in DeadTable, NEW q \in Queues, NEW S \in SUBSET Queued(q),
         NEW now \in Nat,
         \A j, k \in JobIds : d[j] # NoJob /\ d[k] # NoJob /\ j # k => d[j].seq # d[k].seq,
         \A j \in S, k \in JobIds : d[k] # NoJob => jobs[j].seq # d[k].seq,
         \A j, k \in S : j # k => jobs[j].seq # jobs[k].seq
  PROVE  /\ \A j \in JobIds : DeadLetter(d, q, S, now)[j] # NoJob =>
               \/ d[j] # NoJob /\ DeadLetter(d, q, S, now)[j].seq = d[j].seq
               \/ j \in S /\ DeadLetter(d, q, S, now)[j].seq = jobs[j].seq
         /\ \A j \in JobIds : Target[j] # q => DeadLetter(d, q, S, now)[j] = d[j]
         /\ Cardinality(DeadOf(DeadLetter(d, q, S, now), q))
               <= Policy[q].dead_letter_max_entries
<1> DEFINE row(j) == [seq |-> jobs[j].seq, attempts |-> jobs[j].attempts, failed_at |-> now]
           e == [j \in JobIds |-> IF j \in S THEN row(j) ELSE d[j]]
<1>1. DeadLetter(d, q, S, now) = EnforceDeadLetterBounds(e, q)
  BY DEF DeadLetter
<1>2. S \subseteq JobIds /\ \A j \in S : jobs[j] \in JobRow /\ Target[j] = q
  BY DEF Queued, TypeOK
<1>3. \A j \in S : e[j] = row(j) /\ e[j].seq = jobs[j].seq
  BY <1>2
<1>4. \A j \in JobIds : j \notin S => e[j] = d[j]
  OBVIOUS
<1>5. e \in DeadTable
  BY <1>2 DEF DeadTable, DeadRow, JobRow
<1> HIDE DEF e, row
<1>6. \A j, k \in DeadOf(e, q) : j # k => e[j].seq # e[k].seq
  <2> SUFFICES ASSUME NEW j \in DeadOf(e, q), NEW k \in DeadOf(e, q), j # k
               PROVE  e[j].seq # e[k].seq
    OBVIOUS
  <2>1. j \in JobIds /\ k \in JobIds /\ e[j] # NoJob /\ e[k] # NoJob
    BY DEF DeadOf
  <2>2. CASE j \in S /\ k \in S
    BY <2>2, <1>3
  <2>3. CASE j \in S /\ k \notin S
    BY <2>1, <2>3, <1>3, <1>4
  <2>4. CASE j \notin S /\ k \in S
    BY <2>1, <2>4, <1>3, <1>4
  <2>5. CASE j \notin S /\ k \notin S
    BY <2>1, <2>5, <1>4
  <2> QED BY <2>2, <2>3, <2>4, <2>5
<1>7. Cardinality(DeadOf(EnforceDeadLetterBounds(e, q), q)) <= Policy[q].dead_letter_max_entries
  BY <1>5, <1>6, EnforceBounded
<1>8. \A j \in JobIds : /\ EnforceDeadLetterBounds(e, q)[j] \in {NoJob, e[j]}
                        /\ Target[j] # q => EnforceDeadLetterBounds(e, q)[j] = e[j]
  BY <1>5, EnforceKeeps
<1>9. \A j \in JobIds : EnforceDeadLetterBounds(e, q)[j] # NoJob =>
               \/ d[j] # NoJob /\ EnforceDeadLetterBounds(e, q)[j].seq = d[j].seq
               \/ j \in S /\ EnforceDeadLetterBounds(e, q)[j].seq = jobs[j].seq
  BY <1>3, <1>4, <1>8
<1>10. \A j \in JobIds : Target[j] # q => EnforceDeadLetterBounds(e, q)[j] = d[j]
  BY <1>2, <1>4, <1>8
<1> QED BY <1>1, <1>7, <1>9, <1>10

\* Expiring dead letters only takes rows away, and only from its queue.
LEMMA CleanupKeeps ==
  ASSUME NEW d \in DeadTable, NEW q, NEW now, NEW j \in JobIds
  PROVE  /\ CleanupDeadLetters(d, q, now)[j] \in {NoJob, d[j]}
         /\ Target[j] # q => CleanupDeadLetters(d, q, now)[j] = d[j]
<1> DEFINE e == [k \in JobIds |->
                  IF /\ k \in DeadOf(d, q)
                     /\ d[k].failed_at + Policy[q].dead_letter_ttl <= now
                  THEN NoJob ELSE d[k]]
<1>1. e \in DeadTable
  BY DEF DeadTable
<1>2. e[j] \in {NoJob, d[j]} /\ (Target[j] # q => e[j] = d[j])
  BY DEF DeadOf
<1>3. CleanupDeadLetters(d, q, now) = EnforceDeadLetterBounds(e, q)
  BY DEF CleanupDeadLetters
<1> HIDE DEF e
<1> QED BY <1>1, <1>2, <1>3, EnforceKeeps

\* How a step moves rows: a row keeps its sequence, a new one gets a sequence of
\* its own above all earlier ones, and a dead letter was one before or was a job.
RowsFollow ==
    /\ sequence <= sequence'
    /\ \A j \in JobIds :
          /\ jobs[j] # NoJob /\ jobs'[j] # NoJob => jobs'[j].seq = jobs[j].seq
          /\ jobs[j] = NoJob /\ jobs'[j] # NoJob =>
                jobs'[j].seq > sequence /\ jobs'[j].seq <= sequence'
          /\ dead'[j] # NoJob =>
                \/ dead[j] # NoJob /\ dead'[j].seq = dead[j].seq
                \/ jobs[j] # NoJob /\ jobs'[j] = NoJob /\ dead'[j].seq = jobs[j].seq
    /\ \A j, k \in JobIds :
          jobs[j] = NoJob /\ jobs'[j] # NoJob /\ jobs[k] = NoJob /\ jobs'[k] # NoJob
          /\ j # k => jobs'[j].seq # jobs'[k].seq

\* Rows that move that way keep their sequences unique.
LEMMA SequenceStep ==
  ASSUME TypeOK, TypeOK', SequenceUnique, RowsFollow,
         \A j \in JobIds : dead[j] # NoJob => jobs[j] = NoJob
  PROVE  SequenceUnique'
<1>1. sequence \in Nat /\ sequence' \in Nat
  BY DEF TypeOK
<1>2. \A j \in JobIds : /\ jobs[j] # NoJob => jobs[j].seq \in Nat
                        /\ dead[j] # NoJob => dead[j].seq \in Nat
                        /\ jobs'[j] # NoJob => jobs'[j].seq \in Nat
                        /\ dead'[j] # NoJob => dead'[j].seq \in Nat
  BY DEF TypeOK, JobRow, DeadRow
<1>3. \A j \in JobIds :
        /\ jobs[j] # NoJob => jobs[j].seq >= 1 /\ jobs[j].seq <= sequence
        /\ dead[j] # NoJob => dead[j].seq >= 1 /\ dead[j].seq <= sequence
  BY DEF SequenceUnique
<1>4. \A j, k \in JobIds :
        /\ jobs[j] # NoJob /\ jobs[k] # NoJob /\ j # k => jobs[j].seq # jobs[k].seq
        /\ jobs[j] # NoJob /\ dead[k] # NoJob => jobs[j].seq # dead[k].seq
        /\ dead[j] # NoJob /\ dead[k] # NoJob /\ j # k => dead[j].seq # dead[k].seq
  BY DEF SequenceUnique
<1> SUFFICES ASSUME NEW j \in JobIds, NEW k \in JobIds
             PROVE  /\ jobs'[j] # NoJob => jobs'[j].seq \in 1 .. sequence'
                    /\ dead'[j] # NoJob => dead'[j].seq \in 1 .. sequence'
                    /\ jobs'[j] # NoJob /\ jobs'[k] # NoJob /\ j # k => jobs'[j].seq # jobs'[k].seq
                    /\ jobs'[j] # NoJob /\ dead'[k] # NoJob => jobs'[j].seq # dead'[k].seq
                    /\ dead'[j] # NoJob /\ dead'[k] # NoJob /\ j # k => dead'[j].seq # dead'[k].seq
  BY DEF SequenceUnique
<1>5. \A i \in JobIds : jobs'[i] # NoJob =>
        \/ jobs[i] # NoJob /\ jobs'[i].seq = jobs[i].seq
        \/ jobs[i] = NoJob /\ jobs'[i].seq > sequence /\ jobs'[i].seq <= sequence'
  BY DEF RowsFollow
<1>6. \A i \in JobIds : dead'[i] # NoJob =>
        \/ dead[i] # NoJob /\ dead'[i].seq = dead[i].seq
        \/ jobs[i] # NoJob /\ jobs'[i] = NoJob /\ dead'[i].seq = jobs[i].seq
  BY DEF RowsFollow
<1>7. sequence <= sequence'
  BY DEF RowsFollow
<1>8. jobs'[j] # NoJob => jobs'[j].seq \in 1 .. sequence'
  BY <1>1, <1>2, <1>3, <1>5, <1>7
<1>9. dead'[j] # NoJob => dead'[j].seq \in 1 .. sequence' /\ dead'[j].seq <= sequence
  BY <1>1, <1>2, <1>3, <1>6, <1>7
<1>10. jobs'[j] # NoJob /\ jobs'[k] # NoJob /\ j # k => jobs'[j].seq # jobs'[k].seq
  <2>1. CASE jobs[j] = NoJob /\ jobs[k] = NoJob
    BY <2>1 DEF RowsFollow
  <2>2. CASE jobs[j] # NoJob \/ jobs[k] # NoJob
    BY <2>2, <1>1, <1>2, <1>3, <1>4, <1>5
  <2> QED BY <2>1, <2>2
<1>11. jobs'[j] # NoJob /\ dead'[k] # NoJob => jobs'[j].seq # dead'[k].seq
  <2> SUFFICES ASSUME jobs'[j] # NoJob, dead'[k] # NoJob PROVE jobs'[j].seq # dead'[k].seq
    OBVIOUS
  <2>1. dead'[k].seq <= sequence
    BY <1>1, <1>2, <1>3, <1>6
  <2>2. CASE jobs[j] = NoJob
    BY <2>1, <2>2, <1>1, <1>2, <1>5
  <2>3. CASE jobs[j] # NoJob
    BY <2>3, <1>4, <1>5, <1>6
  <2> QED BY <2>2, <2>3
<1>12. dead'[j] # NoJob /\ dead'[k] # NoJob /\ j # k => dead'[j].seq # dead'[k].seq
  BY <1>4, <1>6
<1> QED BY <1>8, <1>9, <1>10, <1>11, <1>12

\* The bytes of a set of jobs are a sum over a finite set.
LEMMA SizeSums ==
  ASSUME NEW S \in SUBSET JobIds
  PROVE  /\ SizeOf(S) = SumOver(Size, S) /\ SizeOf(S) \in Nat
         /\ \A T \in SUBSET S : SizeOf(T) <= SizeOf(S)
<1>1. \A T : SizeOf(T) = SumOver(Size, T)
  BY DEF SizeOf, SumOver
<1>2. IsFiniteSet(S) /\ \A j \in S : Size[j] \in Nat
  BY JobsFinite, JobQueueAssumption
<1>3. SumOver(Size, S) \in Nat
  BY <1>2, SumNat
<1>4. \A T \in SUBSET S : SumOver(Size, T) <= SumOver(Size, S)
  BY <1>2, SumMonotone
<1> QED BY <1>1, <1>3, <1>4

\* A table that lost rows, or gained accepted ones, stays within its bounds.
LEMMA QueueStep ==
  ASSUME QueueBounded, NEW q \in Queues, NEW N \in SUBSET JobIds, NEW M \in SUBSET JobIds,
         M \subseteq Queued(q) \cup N,
         \/ N = {}
         \/ /\ N \cap Queued(q) = {}
            /\ Cardinality(Queued(q)) + Cardinality(N) <= Policy[q].max_depth
            /\ SizeOf(Queued(q)) + SizeOf(N) <= Policy[q].max_queue_bytes
  PROVE  Cardinality(M) <= Policy[q].max_depth /\ SizeOf(M) <= Policy[q].max_queue_bytes
<1> DEFINE Q == Queued(q)
<1>1. Q \in SUBSET JobIds
  BY DEF Queued
<1>2. Cardinality(Q) <= Policy[q].max_depth /\ SizeOf(Q) <= Policy[q].max_queue_bytes
  BY DEF QueueBounded
<1>3. Policy[q].max_depth \in Nat /\ Policy[q].max_queue_bytes \in Nat
  BY JobQueueAssumption DEF QueuePolicy
<1> HIDE DEF Q
<1>4. /\ Cardinality(M) \in Nat /\ Cardinality(Q) \in Nat /\ Cardinality(N) \in Nat
      /\ SizeOf(M) \in Nat /\ SizeOf(Q) \in Nat /\ SizeOf(N) \in Nat
  BY <1>1, JobsFinite, SizeSums
<1>5. M \subseteq Q \cup N
  BY DEF Q
<1>6. CASE N = {}
  <2>1. M \in SUBSET Q /\ IsFiniteSet(Q)
    BY <1>1, <1>5, <1>6, JobsFinite
  <2>2. Cardinality(M) <= Cardinality(Q)
    BY <2>1, FS_Subset
  <2>3. SizeOf(M) <= SizeOf(Q)
    BY <2>1, <1>1, SizeSums
  <2> QED BY <2>2, <2>3, <1>2, <1>3, <1>4
<1>7. CASE /\ N \cap Q = {}
           /\ Cardinality(Q) + Cardinality(N) <= Policy[q].max_depth
           /\ SizeOf(Q) + SizeOf(N) <= Policy[q].max_queue_bytes
  <2> DEFINE U == Q \cup N
  <2>1. U \in SUBSET JobIds /\ IsFiniteSet(U) /\ IsFiniteSet(Q) /\ IsFiniteSet(N)
    BY <1>1, JobsFinite
  <2>2. Cardinality(M) <= Cardinality(U)
    BY <2>1, <1>5, FS_Subset
  <2>3. Cardinality(U) = Cardinality(Q) + Cardinality(N)
    <3>1. Cardinality(U) = Cardinality(Q) + Cardinality(N) - Cardinality(Q \cap N)
      BY <2>1, FS_Union
    <3>2. Cardinality(Q \cap N) = 0
      BY <1>7, FS_EmptySet
    <3> QED BY <3>1, <3>2, <1>4
  <2>4. SizeOf(M) <= SizeOf(U)
    BY <2>1, <1>5, SizeSums
  <2>5. SizeOf(U) = SizeOf(Q) + SizeOf(N)
    <3>1. \A j \in U : Size[j] \in Nat
      BY <2>1, JobQueueAssumption
    <3>2. Q \in SUBSET U /\ U \ Q = N
      BY <1>7
    <3> HIDE DEF U
    <3>3. SumOver(Size, U) = SumOver(Size, Q) + SumOver(Size, U \ Q)
      BY <2>1, <3>1, <3>2, SumSplit
    <3> QED BY <2>1, <3>2, <3>3, <1>1, SizeSums
  <2> HIDE DEF U
  <2>6. Cardinality(U) \in Nat /\ SizeOf(U) \in Nat
    BY <2>3, <2>5, <1>4
  <2> QED BY <2>2, <2>3, <2>4, <2>5, <2>6, <1>3, <1>4, <1>7
<1> QED BY <1>6, <1>7 DEF Q

\* A step that only takes rows out of the queue keeps it within its bounds.
LEMMA QueueShrinks ==
  ASSUME QueueBounded, \A j \in JobIds : jobs'[j] # NoJob => jobs[j] # NoJob
  PROVE  QueueBounded'
<1> SUFFICES ASSUME NEW q \in Queues
             PROVE  /\ Cardinality(Queued(q)') <= Policy[q].max_depth
                    /\ SizeOf(Queued(q)') <= Policy[q].max_queue_bytes
  BY DEF QueueBounded
<1> DEFINE M == Queued(q)'
<1>1. M \in SUBSET JobIds /\ M \subseteq Queued(q) \cup {} /\ {} \in SUBSET JobIds
  BY DEF Queued
<1> HIDE DEF M
<1>2. Cardinality(M) <= Policy[q].max_depth /\ SizeOf(M) <= Policy[q].max_queue_bytes
  BY <1>1, QueueStep
<1> QED BY <1>2 DEF M

\* A commit publishes within the bounds, with new sequences.
LEMMA CommitTables ==
  ASSUME TypeOK, QueueBounded, NEW writes \in BOOLEAN, NEW expected,
         NEW pubs \in Seq(JobIds), NEW completion, NEW owner, NEW now \in Nat,
         completion \cap Range(pubs) = {},
         CommitPlan(writes, expected, pubs, completion, owner, now)
  PROVE  RowsFollow /\ QueueBounded' /\ dead' = dead
<1> DEFINE P == Range(pubs)
           c(j) == CHOOSE i \in DOMAIN pubs : pubs[i] = j
<1>1. P \subseteq JobIds /\ Len(pubs) \in Nat /\ sequence \in Nat
  BY SeqRange DEF TypeOK
<1>2. \A j \in P : c(j) \in 1 .. Len(pubs) /\ pubs[c(j)] = j
  <2> TAKE j \in P
  <2>1. \E i \in DOMAIN pubs : pubs[i] = j
    BY DEF Range
  <2>2. c(j) \in DOMAIN pubs /\ pubs[c(j)] = j
    BY <2>1
  <2> QED BY <2>2
<1>3. \A j \in P : /\ PublishedRow(pubs, j, now).seq = sequence + c(j)
                   /\ PublishedRow(pubs, j, now) # NoJob
  <2> TAKE j \in P
  <2>1. PublishedRow(pubs, j, now).seq = sequence + c(j)
    BY DEF PublishedRow
  <2> QED BY <2>1, <1>1, PublishedRowFacts
<1>4. PublishAccepted(pubs)
  BY DEF CommitPlan, CommitAccepted
<1>5. \A j \in P : jobs[j] = NoJob
  <2> TAKE j \in P
  <2>1. Target[j] \in Queues
    BY <1>1, JobQueueAssumption
  <2> QED BY <1>4, <2>1 DEF PublishAccepted
<1>6. /\ sequence' = sequence + Len(pubs) /\ dead' = dead
      /\ jobs' = [j \in JobIds |-> IF j \in completion THEN NoJob
                                   ELSE IF j \in P THEN PublishedRow(pubs, j, now)
                                   ELSE jobs[j]]
  BY DEF CommitPlan
<1> HIDE DEF c
<1>7. RowsFollow
  <2>1. \A j \in JobIds : /\ j \in P => jobs'[j] # NoJob /\ jobs'[j].seq = sequence + c(j)
                          /\ j \notin P => jobs'[j] = NoJob \/ jobs'[j] = jobs[j]
    <3> SUFFICES ASSUME NEW j \in JobIds
                 PROVE /\ j \in P => jobs'[j] # NoJob /\ jobs'[j].seq = sequence + c(j)
                       /\ j \notin P => jobs'[j] = NoJob \/ jobs'[j] = jobs[j]
      OBVIOUS
    <3>1. CASE j \in P
      BY <3>1, <1>3, <1>6
    <3>2. CASE j \notin P
      BY <3>2, <1>6
    <3> QED BY <3>1, <3>2
  <2> HIDE DEF P
  <2>2. sequence <= sequence'
    BY <1>1, <1>6
  <2>3. \A j \in P : sequence + c(j) > sequence /\ sequence + c(j) <= sequence'
    BY <1>1, <1>2, <1>6
  <2>4. \A j, k \in P : j # k => sequence + c(j) # sequence + c(k)
    <3> SUFFICES ASSUME NEW j \in P, NEW k \in P, sequence + c(j) = sequence + c(k) PROVE j = k
      OBVIOUS
    <3>1. c(j) = c(k)
      BY <1>1, <1>2
    <3> QED BY <3>1, <1>2
  <2> QED BY <1>5, <1>6, <2>1, <2>2, <2>3, <2>4 DEF RowsFollow
<1>8. QueueBounded'
  <2> SUFFICES ASSUME NEW q \in Queues
               PROVE  /\ Cardinality(Queued(q)') <= Policy[q].max_depth
                      /\ SizeOf(Queued(q)') <= Policy[q].max_queue_bytes
    BY DEF QueueBounded
  <2> DEFINE M == Queued(q)'
             N == {j \in P : Target[j] = q}
  <2>1. M \in SUBSET JobIds /\ N \in SUBSET JobIds
    BY <1>1 DEF Queued
  <2>2. M \subseteq Queued(q) \cup N
    BY <1>6 DEF Queued
  <2>3. N \cap Queued(q) = {}
    BY <1>5 DEF Queued
  <2>4. N # {} => /\ Cardinality(Queued(q)) + Cardinality(N) <= Policy[q].max_depth
                  /\ SizeOf(Queued(q)) + SizeOf(N) <= Policy[q].max_queue_bytes
    BY <1>4 DEF PublishAccepted
  <2> HIDE DEF M, N
  <2>5. Cardinality(M) <= Policy[q].max_depth /\ SizeOf(M) <= Policy[q].max_queue_bytes
    BY <2>1, <2>2, <2>3, <2>4, QueueStep
  <2> QED BY <2>5 DEF M
<1> QED BY <1>6, <1>7, <1>8

\* A step that expires dead letters of queue q and buries the jobs S of q keeps
\* the bounds of every queue and the sequences of every row.
LEMMA BuryTables ==
  ASSUME TypeOK, TypeOK', TablesSound, NEW q \in Queues, NEW S \in SUBSET Queued(q),
         NEW now \in Nat, NEW d \in DeadTable,
         \A j \in JobIds : d[j] \in {NoJob, dead[j]} /\ (Target[j] # q => d[j] = dead[j]),
         dead' = DeadLetter(d, q, S, now), sequence' = sequence,
         \A j \in JobIds : /\ jobs'[j] # NoJob => jobs[j] # NoJob /\ jobs'[j].seq = jobs[j].seq
                           /\ j \in S => jobs'[j] = NoJob,
         buried \cup S \subseteq buried'
  PROVE  RowsFollow /\ QueueBounded' /\ DeadLettersBounded'
<1>1. \A j, k \in JobIds :
        /\ jobs[j] # NoJob /\ jobs[k] # NoJob /\ j # k => jobs[j].seq # jobs[k].seq
        /\ jobs[j] # NoJob /\ dead[k] # NoJob => jobs[j].seq # dead[k].seq
        /\ dead[j] # NoJob /\ dead[k] # NoJob /\ j # k => dead[j].seq # dead[k].seq
  BY DEF TablesSound, SequenceUnique
<1>2. S \subseteq JobIds /\ \A j \in S : jobs[j] # NoJob
  BY DEF Queued
<1>3. \A j, k \in JobIds : d[j] # NoJob /\ d[k] # NoJob /\ j # k => d[j].seq # d[k].seq
  BY <1>1
<1>4. \A j \in S, k \in JobIds : d[k] # NoJob => jobs[j].seq # d[k].seq
  BY <1>1, <1>2
<1>5. \A j, k \in S : j # k => jobs[j].seq # jobs[k].seq
  BY <1>1, <1>2
<1>6. /\ \A j \in JobIds : dead'[j] # NoJob =>
               \/ d[j] # NoJob /\ dead'[j].seq = d[j].seq
               \/ j \in S /\ dead'[j].seq = jobs[j].seq
      /\ \A j \in JobIds : Target[j] # q => dead'[j] = d[j]
      /\ Cardinality(DeadOf(dead', q)) <= Policy[q].dead_letter_max_entries
  <2> DEFINE e == DeadLetter(d, q, S, now)
  <2>1. /\ \A j \in JobIds : e[j] # NoJob =>
               \/ d[j] # NoJob /\ e[j].seq = d[j].seq
               \/ j \in S /\ e[j].seq = jobs[j].seq
        /\ \A j \in JobIds : Target[j] # q => e[j] = d[j]
        /\ Cardinality(DeadOf(e, q)) <= Policy[q].dead_letter_max_entries
    BY <1>3, <1>4, <1>5, DeadLetterFacts
  <2>2. dead' = e
    OBVIOUS
  <2> HIDE DEF e
  <2> QED BY <2>1, <2>2
<1>7. \A j \in JobIds : dead'[j] # NoJob =>
               \/ dead[j] # NoJob /\ dead'[j].seq = dead[j].seq
               \/ jobs[j] # NoJob /\ jobs'[j] = NoJob /\ dead'[j].seq = jobs[j].seq
  BY <1>2, <1>6
<1>8. RowsFollow
  BY <1>7 DEF RowsFollow, TypeOK
<1>9. QueueBounded'
  BY QueueShrinks DEF TablesSound
<1>10. \A j \in JobIds : dead'[j] # NoJob => j \in buried'
  BY <1>6 DEF TablesSound, DeadLettersBounded
<1>11. \A p \in Queues : Cardinality(DeadOf(dead', p)) <= Policy[p].dead_letter_max_entries
  <2> TAKE p \in Queues
  <2>1. CASE p = q
    BY <2>1, <1>6
  <2>2. CASE p # q
    <3>1. DeadOf(dead', p) = DeadOf(dead, p)
      BY <2>2, <1>6 DEF DeadOf
    <3> QED BY <3>1 DEF TablesSound, DeadLettersBounded
  <2> QED BY <2>1, <2>2
<1>12. DeadLettersBounded'
  BY <1>10, <1>11 DEF DeadLettersBounded, DeadOf
<1> QED BY <1>8, <1>9, <1>12

\* Reserving keeps both tables sound.
LEMMA ReserveTables ==
  ASSUME TypeOK, TypeOK', TablesSound, NEW w \in Workers, NEW q \in Queues, NEW now \in Nat,
         Reserve(w, q, now)
  PROVE  RowsFollow /\ QueueBounded' /\ DeadLettersBounded'
<1> DEFINE S == Terminalized(q, now)
           d == CleanupDeadLetters(dead, q, now)
<1>1. S \in SUBSET Queued(q) /\ Deliverable(q, now) \in SUBSET Queued(q)
  BY DEF Terminalized, Deliverable, Scanned, Eligible
<1>2. dead \in DeadTable
  BY DEF TypeOK, DeadTable
<1>3. d \in DeadTable
  BY <1>2, CleanupType
<1>4. \A j \in JobIds : d[j] \in {NoJob, dead[j]} /\ (Target[j] # q => d[j] = dead[j])
  BY <1>2, CleanupKeeps
<1>5. dead' = DeadLetter(d, q, S, now) /\ sequence' = sequence /\ buried \cup S \subseteq buried'
  BY DEF Reserve, ReserveJob
<1>6. \A j \in JobIds : /\ jobs'[j] # NoJob => jobs[j] # NoJob /\ jobs'[j].seq = jobs[j].seq
                        /\ j \in S => jobs'[j] = NoJob
  <2> TAKE j \in JobIds
  <2>1. jobs' = [i \in JobIds |-> IF i \in S THEN NoJob
                   ELSE IF i \in Deliverable(q, now) THEN LeasedRow(i, lastOwner + 1, now)
                   ELSE jobs[i]]
    BY DEF Reserve, ReserveJob
  <2>2. j \in Deliverable(q, now) =>
           jobs[j] # NoJob /\ LeasedRow(j, lastOwner + 1, now).seq = jobs[j].seq
    <3> SUFFICES ASSUME j \in Deliverable(q, now)
                 PROVE  jobs[j] # NoJob /\ LeasedRow(j, lastOwner + 1, now).seq = jobs[j].seq
      OBVIOUS
    <3>1. jobs[j] # NoJob
      BY <1>1 DEF Queued
    <3>2. jobs[j] \in JobRow
      BY <3>1 DEF TypeOK
    <3> QED BY <3>1, <3>2 DEF LeasedRow, JobRow
  <2> HIDE DEF S
  <2> QED BY <2>1, <2>2
<1> HIDE DEF S, d
<1> QED BY <1>1, <1>3, <1>4, <1>5, <1>6, BuryTables

\* Failing a delivery keeps both tables sound.
LEMMA FailTables ==
  ASSUME TypeOK, TypeOK', TablesSound, NEW w \in Workers, NEW now \in Nat,
         worker[w].job \in JobIds, FailDelivery(w, now)
  PROVE  RowsFollow /\ QueueBounded' /\ DeadLettersBounded'
<1> DEFINE j == worker[w].job
           o == worker[w].owner
<1>1. jobs \in [JobIds -> JobRow \cup {NoJob}] /\ dead \in DeadTable
  BY DEF TypeOK, DeadTable
<1>2. CASE FailDeadLetter(j, o, now)
  <2>1. /\ dead' = DeadLetter(dead, Target[j], {j}, now) /\ sequence' = sequence
        /\ jobs' = [jobs EXCEPT ![j] = NoJob] /\ OwnsJob(j, o)
    BY <1>2 DEF FailDeadLetter
  <2>2. jobs'[j] = NoJob
    BY <2>1, <1>1
  <2>3. buried' = buried \cup {j}
    BY <2>1, <2>2 DEF FailDelivery
  <2>4. {j} \in SUBSET Queued(Target[j]) /\ Target[j] \in Queues
    BY <2>1, JobQueueAssumption DEF Queued, OwnsJob
  <2>5. \A i \in JobIds : /\ jobs'[i] # NoJob => jobs[i] # NoJob /\ jobs'[i].seq = jobs[i].seq
                          /\ i \in {j} => jobs'[i] = NoJob
    BY <2>1, <2>2, <1>1
  <2> HIDE DEF j
  <2> QED BY <1>1, <2>1, <2>3, <2>4, <2>5, BuryTables
<1>3. CASE FailRetry(j, o, now) \/ FailLost(j, o)
  <2>1. /\ dead' = dead /\ sequence' = sequence
        /\ \A i \in JobIds : jobs'[i] # NoJob => jobs[i] # NoJob /\ jobs'[i].seq = jobs[i].seq
    <3>1. CASE FailLost(j, o)
      BY <3>1 DEF FailLost, storeVars
    <3>2. CASE FailRetry(j, o, now)
      <4>1. jobs[j] \in JobRow
        BY <3>2, <1>1 DEF FailRetry, OwnsJob
      <4>2. dead' = dead /\ sequence' = sequence
        BY <3>2 DEF FailRetry
      <4> DEFINE v == now + BackoffFor(Policy[Target[j]], jobs[j].attempts)
      <4>3. jobs' = [jobs EXCEPT ![j].visible_at = v, ![j].owner = NoOwner, ![j].lease_until = 0]
        BY <3>2 DEF FailRetry
      <4> HIDE DEF v
      <4>4. jobs'[j].seq = jobs[j].seq /\ \A i \in JobIds : i # j => jobs'[i] = jobs[i]
        BY <4>1, <4>3, <1>1 DEF JobRow
      <4>5. jobs[j] # NoJob
        BY <4>1, JobQueueAssumption
      <4> HIDE DEF j
      <4> QED BY <4>2, <4>4, <4>5
    <3> QED BY <3>1, <3>2, <1>3
  <2>2. buried \subseteq buried'
    BY DEF FailDelivery
  <2>3. QueueBounded'
    BY <2>1, QueueShrinks DEF TablesSound
  <2>4. DeadLettersBounded'
    BY <2>1, <2>2 DEF TablesSound, DeadLettersBounded, DeadOf
  <2>5. RowsFollow
    BY <2>1 DEF RowsFollow, TypeOK
  <2> QED BY <2>3, <2>4, <2>5
<1>4. FailDeadLetter(j, o, now) \/ FailRetry(j, o, now) \/ FailLost(j, o)
  BY DEF FailDelivery, FailJob
<1> QED BY <1>2, <1>3, <1>4

\* A step that leaves the tables alone leaves them sound.
LEMMA QuietTables ==
  ASSUME TypeOK, TablesSound, UNCHANGED <<jobs, dead, sequence>>, buried \subseteq buried'
  PROVE  RowsFollow /\ QueueBounded' /\ DeadLettersBounded'
<1>1. QueueBounded'
  BY QueueShrinks DEF TablesSound
<1>2. DeadLettersBounded'
  BY DEF TablesSound, DeadLettersBounded, DeadOf
<1> QED BY <1>1, <1>2 DEF RowsFollow, TypeOK

\* Every step keeps both tables sound.
LEMMA StepTables ==
  ASSUME IInv, IInv', TablesSound, [Next]_vars
  PROVE  TablesSound'
<1>1. TypeOK /\ TypeOK' /\ worker \in [Workers -> WorkerState]
  BY DEF IInv, TypeOK
<1>2. \A j \in JobIds : dead[j] # NoJob => jobs[j] = NoJob
  BY DEF TablesSound, DeadLettersBounded, IInv, LifeInv, Conservation
<1>3. RowsFollow /\ QueueBounded' /\ DeadLettersBounded'
  <2>1. CASE Invocation
    <3>1. PICK now \in Instants, writes \in BOOLEAN, pubs \in {<< >>} \cup {<<j>> : j \in JobIds} :
             InvocationCommit(pubs, writes, now)
      BY <2>1 DEF Invocation
    <3>2. now \in Nat /\ pubs \in Seq(JobIds)
      BY InstantsNat, ShortSeqs
    <3>5. {} \cap Range(pubs) = {}
      OBVIOUS
    <3>3. CommitPlan(writes, revision, pubs, {}, NoOwner, now) /\ buried' = buried
      BY <3>1 DEF InvocationCommit
    <3>4. RowsFollow /\ QueueBounded' /\ dead' = dead
      BY <1>1, <3>2, <3>3, <3>5, CommitTables DEF TablesSound
    <3> QED BY <3>3, <3>4 DEF TablesSound, DeadLettersBounded, DeadOf
  <2>2. ASSUME NEW w \in Workers, NEW q \in Queues, NEW now \in Instants, Reserve(w, q, now)
        PROVE  RowsFollow /\ QueueBounded' /\ DeadLettersBounded'
    BY <1>1, <2>2, InstantsNat, ReserveTables
  <2>3. ASSUME NEW w \in Workers, NEW now \in Instants, CommitOutcome(w, now)
        PROVE  RowsFollow /\ QueueBounded' /\ DeadLettersBounded'
    <3> DEFINE s == worker[w]
    <3>1. s \in WorkerState /\ now \in Nat
      BY <1>1, InstantsNat
    <3>2. s.pubs \in Seq(JobIds) /\ s.writes \in BOOLEAN /\ s.pc = "returned"
      BY <3>1, <2>3 DEF WorkerState, CommitOutcome
    <3>3. CommitPlan(s.writes, s.rev, s.pubs, {s.job}, s.owner, now) /\ buried' = buried
      BY <2>3 DEF CommitOutcome
    <3>4. {s.job} \cap Range(s.pubs) = {}
      <4>1. jobs[s.job] # NoJob
        BY <3>3 DEF CommitPlan, CommitAccepted, OwnsJob
      <4>2. \A j \in Range(s.pubs) : jobs[j] = NoJob
        <5>1. \A j \in Range(s.pubs) : j \in JobIds /\ j \notin published
          BY <3>2, SeqRange DEF IInv, StagedInv
        <5> QED BY <5>1 DEF IInv, LifeInv, Conservation
      <4> QED BY <4>1, <4>2
    <3> HIDE DEF s
    <3>5. RowsFollow /\ QueueBounded' /\ dead' = dead
      BY <1>1, <3>1, <3>2, <3>3, <3>4, CommitTables DEF TablesSound
    <3> QED BY <3>3, <3>5 DEF TablesSound, DeadLettersBounded, DeadOf
  <2>4. ASSUME NEW w \in Workers, NEW now \in Instants, FailDelivery(w, now)
        PROVE  RowsFollow /\ QueueBounded' /\ DeadLettersBounded'
    <3>1. worker[w].job \in JobIds
      BY <2>4, <1>1 DEF IInv, TypeOK, OwnerInv, FailDelivery
    <3> QED BY <1>1, <2>4, <3>1, InstantsNat, FailTables
  <2>5. ASSUME UNCHANGED storeVars, UNCHANGED history
        PROVE  RowsFollow /\ QueueBounded' /\ DeadLettersBounded'
    BY <1>1, <2>5, QuietTables DEF storeVars, history
  <2>6. CASE UNCHANGED vars
    BY <2>5, <2>6 DEF vars
  <2>7. ASSUME NEW w \in Workers, Dispatch(w)
        PROVE  RowsFollow /\ QueueBounded' /\ DeadLettersBounded'
    BY <2>2, <2>3, <2>4, <2>5, <2>7 DEF Dispatch, StartGuest, StageWrite, StagePublish,
       GuestOk, GuestFailed, CommitRejected, Crash
  <2> QED BY <2>1, <2>6, <2>7 DEF Next
<1>4. SequenceUnique'
  BY <1>1, <1>2, <1>3, SequenceStep DEF TablesSound
<1> QED BY <1>3, <1>4 DEF TablesSound

\* Empty tables are sound.
LEMMA InitTables == Init => TablesSound
<1> SUFFICES ASSUME Init PROVE TablesSound
  OBVIOUS
<1>1. \A j \in JobIds : jobs[j] = NoJob /\ dead[j] = NoJob
  BY DEF Init
<1>2. \A q \in Queues : Queued(q) = {} /\ DeadOf(dead, q) = {}
  BY <1>1 DEF Queued, DeadOf
<1>3. Cardinality({}) = 0 /\ SizeOf({}) = 0
  <2>1. {} \in SUBSET JobIds
    OBVIOUS
  <2>2. SizeOf({}) = SumOver(Size, {})
    BY <2>1, SizeSums
  <2> QED BY <2>2, FS_EmptySet, SumEmpty
<1>4. \A q \in Queues : /\ Policy[q].max_depth \in Nat /\ Policy[q].max_queue_bytes \in Nat
                        /\ Policy[q].dead_letter_max_entries \in Nat
  BY JobQueueAssumption DEF QueuePolicy
<1>5. QueueBounded
  <2> SUFFICES ASSUME NEW q \in Queues
               PROVE  /\ Cardinality(Queued(q)) <= Policy[q].max_depth
                      /\ SizeOf(Queued(q)) <= Policy[q].max_queue_bytes
    BY DEF QueueBounded
  <2>1. Cardinality(Queued(q)) = 0 /\ SizeOf(Queued(q)) = 0
    BY <1>2, <1>3
  <2> QED BY <2>1, <1>4
<1>6. DeadLettersBounded
  <2>1. \A q \in Queues : Cardinality(DeadOf(dead, q)) = 0
    BY <1>2, <1>3
  <2> QED BY <1>1, <1>4, <2>1 DEF DeadLettersBounded
<1> QED BY <1>1, <1>5, <1>6 DEF TablesSound, SequenceUnique

\* For every set of jobs, queues, workers and every policy: queue_jobs stays
\* within its depth and its bytes, queue_dead within its entries, and every
\* sequence over both tables is unique, so FIFO order is a total order
\* (commit_plan, reserve_job, fail_job, enforce_dead_letter_bounds).
THEOREM TablesStaySound == Spec => []TablesSound
<1>1. IInv /\ IInv' /\ TablesSound /\ [Next]_vars => TablesSound'
  BY StepTables
<1> QED BY <1>1, InitTables, Invariance, PTL DEF Spec

-----------------------------------------------------------------------------
(* Refinement: the queue's contract                                        *)

\* A dispatch in flight works on a job that was delivered to it.
DispatchedInv ==
    \A w \in Workers : worker[w].pc # "idle" => delivered[worker[w].job] > 0

\* The scan hands out at most one job, because sequences differ.
LEMMA DeliverableSingle ==
  ASSUME TypeOK, SequenceUnique, NEW q, NEW now
  PROVE  \/ Deliverable(q, now) = {}
         \/ \E j \in JobIds : Deliverable(q, now) = {j}
<1> SUFFICES ASSUME NEW j \in Deliverable(q, now), NEW k \in Deliverable(q, now) PROVE j = k
  BY QueueSubsets
<1>1. j \in JobIds /\ k \in JobIds /\ jobs[j] # NoJob /\ jobs[k] # NoJob
  BY QueueSubsets
<1>2. jobs[j].seq \in Nat /\ jobs[k].seq \in Nat
  BY <1>1 DEF TypeOK, JobRow
<1>3. ~(jobs[j].seq < jobs[k].seq) /\ ~(jobs[k].seq < jobs[j].seq)
  BY DEF Deliverable, Before
<1>4. jobs[j].seq = jobs[k].seq
  BY <1>2, <1>3
<1> QED BY <1>1, <1>4 DEF SequenceUnique

\* Every step keeps the job of a dispatch delivered.
LEMMA StepDispatched ==
  ASSUME IInv, TablesSound, DispatchedInv, [Next]_vars
  PROVE  DispatchedInv'
<1>1. worker \in [Workers -> WorkerState] /\ delivered \in [JobIds -> Nat]
  BY DEF IInv, TypeOK
<1>2. \A w \in Workers : worker[w].pc # "idle" => worker[w].job \in JobIds
  BY DEF IInv, OwnerInv, TypeOK
<1>3. ASSUME NEW w \in Workers, NEW q \in Queues, NEW now \in Instants, Reserve(w, q, now)
      PROVE  DispatchedInv'
  <2> DEFINE D == Deliverable(q, now)
  <2>1. delivered' = [j \in JobIds |-> IF j \in D THEN delivered[j] + 1 ELSE delivered[j]]
    BY <1>3 DEF Reserve
  <2>2. \A v \in Workers : v # w => worker'[v] = worker[v]
    BY <1>1, <1>3 DEF Reserve
  <2>3. \A j \in JobIds : delivered[j] > 0 => delivered'[j] > 0
    BY <2>1, <1>1
  <2>4. worker'[w].pc # "idle" => delivered'[worker'[w].job] > 0
    <3>1. CASE D = {}
      <4>1. worker'[w] = Idle
        BY <3>1, <1>1, <1>3 DEF Reserve
      <4> QED BY <4>1 DEF Idle
    <3>2. CASE D # {}
      <4> DEFINE j == CHOOSE i \in D : TRUE
      <4>1. j \in D /\ j \in JobIds
        BY <3>2, QueueSubsets
      <4>2. worker'[w] = [Idle EXCEPT !.pc = "reserved", !.job = j,
                                      !.owner = lastOwner + 1, !.clock = now]
        BY <3>2, <1>1, <1>3 DEF Reserve
      <4> HIDE DEF j, D
      <4>3. worker'[w].job = j
        BY <4>2 DEF Idle
      <4>4. delivered'[j] = delivered[j] + 1 /\ delivered[j] \in Nat
        BY <4>1, <2>1, <1>1
      <4> QED BY <4>3, <4>4
    <3> QED BY <3>1, <3>2
  <2> HIDE DEF D
  <2> QED BY <2>2, <2>3, <2>4, <1>2 DEF DispatchedInv
<1>4. ASSUME delivered' = delivered,
             \A w \in Workers : worker'[w].pc # "idle" =>
                 worker[w].pc # "idle" /\ worker'[w].job = worker[w].job
      PROVE  DispatchedInv'
  BY <1>4 DEF DispatchedInv
<1>5. CASE Invocation \/ UNCHANGED vars
  BY <1>4, <1>5 DEF Invocation, InvocationCommit, vars, procVars, history
<1>6. ASSUME NEW w \in Workers,
             \/ \E now \in Instants : StartGuest(w, now)
             \/ StageWrite(w)
             \/ \E j \in JobIds : StagePublish(w, j)
             \/ GuestOk(w) \/ GuestFailed(w) \/ CommitRejected(w)
      PROVE  DispatchedInv'
  <2>1. delivered' = delivered
    BY <1>6 DEF StartGuest, StageWrite, StagePublish, GuestOk, GuestFailed, CommitRejected,
       history
  <2>2. worker[w].pc # "idle" /\ worker[w] \in WorkerState
    BY <1>1, <1>6 DEF StartGuest, StageWrite, StagePublish, GuestOk, GuestFailed, CommitRejected
  <2>3. \A v \in Workers : v # w => worker'[v] = worker[v]
    BY <1>1, <1>6 DEF StartGuest, StageWrite, StagePublish, GuestOk, GuestFailed, CommitRejected
  <2>4. worker'[w].job = worker[w].job
    <3>1. CASE \E now \in Instants : StartGuest(w, now)
      BY <3>1, <1>1, <2>2 DEF WorkerState, StartGuest
    <3>2. CASE StageWrite(w)
      BY <3>2, <1>1, <2>2 DEF WorkerState, StageWrite
    <3>3. CASE \E j \in JobIds : StagePublish(w, j)
      BY <3>3, <1>1, <2>2 DEF WorkerState, StagePublish
    <3>4. CASE GuestOk(w)
      BY <3>4, <1>1, <2>2 DEF WorkerState, GuestOk
    <3>5. CASE GuestFailed(w) \/ CommitRejected(w)
      BY <3>5, <1>1, <2>2 DEF WorkerState, GuestFailed, CommitRejected
    <3> QED BY <1>6, <3>1, <3>2, <3>3, <3>4, <3>5
  <2> QED BY <1>4, <2>1, <2>2, <2>3, <2>4
<1>7. ASSUME NEW w \in Workers,
             \/ \E now \in Instants : CommitOutcome(w, now) \/ FailDelivery(w, now)
             \/ Crash(w)
      PROVE  DispatchedInv'
  <2>1. delivered' = delivered /\ worker' = [worker EXCEPT ![w] = Idle]
    BY <1>7 DEF CommitOutcome, FailDelivery, Crash, history
  <2>2. \A v \in Workers : worker'[v].pc # "idle" => worker'[v] = worker[v]
    BY <2>1, <1>1 DEF Idle
  <2> QED BY <1>4, <2>1, <2>2
<1> QED BY <1>3, <1>5, <1>6, <1>7 DEF Next, Dispatch

\* The status of a job that is neither acknowledged nor buried.
LEMMA StatusFacts ==
  ASSUME IInv, NEW j \in JobIds
  PROVE  /\ jobs[j] # NoJob => Status[j] = "queued"
         /\ j \notin published => Status[j] = "unpublished"
  BY DEF IInv, LifeInv, Conservation, Status

\* A publication of new jobs is a Publish of the contract.
LEMMA PublishRefines ==
  ASSUME IInv, IInv', NEW writes \in BOOLEAN, NEW now \in Instants, NEW pubs \in Seq(JobIds),
         InvocationCommit(pubs, writes, now)
  PROVE  Contract!Publish(Range(pubs))
<1>1. /\ published' = published \cup Range(pubs) /\ acked' = acked /\ buried' = buried
      /\ delivered' = delivered /\ applied' = applied
      /\ \A j \in Range(pubs) : j \notin published
  BY DEF InvocationCommit, Fresh
<1>2. Range(pubs) \subseteq JobIds
  BY SeqRange
<1>3. \A j \in Range(pubs) : Status[j] = "unpublished"
  BY <1>1, <1>2, StatusFacts
<1>4. \A j \in JobIds : j \in Range(pubs) => j \notin acked /\ j \notin buried
  BY <1>1 DEF IInv, LifeInv, Conservation
<1>5. Status' = [j \in JobIds |-> IF j \in Range(pubs) THEN "queued" ELSE Status[j]]
  BY <1>1, <1>2, <1>4 DEF Status
<1> QED BY <1>1, <1>3, <1>5 DEF Contract!Publish

\* A reservation is a Deliver of the contract: it buries the spent jobs the scan
\* meets and hands out one that has an attempt left.
LEMMA ReserveRefines ==
  ASSUME IInv, IInv', TablesSound, NEW w \in Workers, NEW q \in Queues, NEW now \in Instants,
         Reserve(w, q, now)
  PROVE  Contract!Deliver(Terminalized(q, now), Deliverable(q, now))
<1> DEFINE B == Terminalized(q, now)
           D == Deliverable(q, now)
           Most == [j \in JobIds |-> Policy[Target[j]].max_attempts]
<1>1. /\ published' = published /\ acked' = acked /\ buried' = buried \cup B
      /\ applied' = applied
      /\ delivered' = [j \in JobIds |-> IF j \in D THEN delivered[j] + 1 ELSE delivered[j]]
  BY DEF Reserve
<1>2. \A j \in B \cup D : j \in JobIds /\ jobs[j] # NoJob
  BY QueueSubsets
<1>3. \A j \in B \cup D : Status[j] = "queued" /\ j \notin acked
  BY <1>2, StatusFacts DEF IInv, LifeInv, Conservation
<1>4. \A j \in B \cup D : /\ delivered[j] = jobs[j].attempts /\ delivered[j] \in Nat
                          /\ delivered[j] <= Most[j] /\ Most[j] \in Nat
                          /\ Most[j] = Policy[Target[j]].max_attempts
  BY <1>2, PolicyType DEF IInv, LifeInv, AttemptBudget, TypeOK, QueuePolicy
<1>5. \A j \in B : delivered[j] = Most[j]
  <2> TAKE j \in B
  <2>1. jobs[j].attempts + 1 > Policy[Target[j]].max_attempts
    BY DEF Terminalized, Exhausted
  <2> HIDE DEF B, Most
  <2> QED BY <1>4, <2>1
<1>6. \A j \in D : delivered[j] < Most[j]
  <2> TAKE j \in D
  <2>1. ~(jobs[j].attempts + 1 > Policy[Target[j]].max_attempts)
    BY DEF Deliverable, Exhausted
  <2> HIDE DEF D, Most
  <2> QED BY <1>4, <2>1
<1> HIDE DEF B, D
<1>7. Status' = [j \in JobIds |-> IF j \in B THEN "dead" ELSE Status[j]]
  BY <1>1, <1>3 DEF Status
<1> QED BY <1>1, <1>3, <1>5, <1>6, <1>7 DEF Contract!Deliver, B, D

\* A committed outcome is an Acknowledge of the contract.
LEMMA OutcomeRefines ==
  ASSUME IInv, IInv', DispatchedInv, NEW w \in Workers, NEW now \in Instants,
         CommitOutcome(w, now)
  PROVE  /\ worker[w].job \in JobIds /\ Range(worker[w].pubs) \subseteq JobIds
         /\ Contract!Acknowledge(worker[w].job, Range(worker[w].pubs),
                                 IF worker[w].writes THEN 1 ELSE 0)
<1> DEFINE s == worker[w]
           j == s.job
           P == Range(s.pubs)
<1>1. s \in WorkerState /\ applied \in [JobIds -> Nat]
  BY DEF IInv, TypeOK
<1>2. /\ s.pc = "returned" /\ OwnsJob(j, s.owner)
      /\ published' = published \cup P /\ acked' = acked \cup {j} /\ buried' = buried
      /\ delivered' = delivered
      /\ applied' = [applied EXCEPT ![j] = IF s.writes THEN @ + 1 ELSE @]
  BY DEF CommitOutcome, CommitPlan, CommitAccepted
<1>3. j \in published /\ j \in JobIds /\ delivered[j] > 0
  BY <1>2 DEF IInv, OwnerInv, TypeOK, DispatchedInv
<1>4. P \subseteq JobIds /\ P \cap published = {}
  BY <1>1, SeqRange DEF WorkerState, IInv, StagedInv
<1>5. Status[j] = "queued" /\ j \notin buried /\ j \notin acked
  BY <1>2, <1>3, StatusFacts DEF OwnsJob, IInv, LifeInv, Conservation
<1>6. \A k \in P : Status[k] = "unpublished" /\ k \notin acked /\ k \notin buried
  BY <1>4, StatusFacts DEF IInv, LifeInv, Conservation
<1> HIDE DEF P, s
<1>7. Status' = [k \in JobIds |-> IF k = j THEN "acked" ELSE IF k \in P THEN "queued" ELSE Status[k]]
  BY <1>2, <1>3, <1>4, <1>5, <1>6 DEF Status
<1>8. applied' = [applied EXCEPT ![j] = @ + (IF s.writes THEN 1 ELSE 0)]
  <2>1. s.writes \in BOOLEAN
    BY <1>1 DEF WorkerState
  <2>2. CASE s.writes = TRUE
    BY <1>2, <2>2
  <2>3. CASE s.writes = FALSE
    <3>1. applied' = [applied EXCEPT ![j] = @]
      BY <1>2, <2>3
    <3>2. applied[j] + 0 = applied[j]
      BY <1>1, <1>3
    <3> QED BY <3>1, <3>2, <2>3
  <2> QED BY <2>1, <2>2, <2>3
<1> QED BY <1>2, <1>3, <1>4, <1>5, <1>6, <1>7, <1>8 DEF Contract!Acknowledge, s, P

\* A failed delivery buries a spent job or is invisible.
LEMMA FailRefines ==
  ASSUME IInv, IInv', NEW w \in Workers, NEW now \in Instants, FailDelivery(w, now)
  PROVE  \/ UNCHANGED Contract!vars
         \/ worker[w].job \in JobIds /\ Contract!Deliver({worker[w].job}, {})
<1> DEFINE j == worker[w].job
           o == worker[w].owner
<1>1. /\ j \in JobIds
      /\ published' = published /\ acked' = acked /\ applied' = applied /\ delivered' = delivered
      /\ delivered \in [JobIds -> Nat]
  BY DEF FailDelivery, IInv, OwnerInv, TypeOK
<1>2. CASE OwnsJob(j, o) /\ jobs'[j] = NoJob
  <2>1. buried' = buried \cup {j} /\ jobs[j] # NoJob
    BY <1>2 DEF FailDelivery, OwnsJob
  <2>2. Status[j] = "queued" /\ j \notin acked
    BY <1>1, <2>1, StatusFacts DEF IInv, LifeInv, Conservation
  <2>3. delivered[j] = Policy[Target[j]].max_attempts
    BY <1>1, <2>1 DEF IInv, LifeInv, AttemptBudget
  <2> HIDE DEF j
  <2>4. Status' = [k \in JobIds |-> IF k \in {j} THEN "dead" ELSE Status[k]]
    BY <1>1, <2>1, <2>2 DEF Status
  <2>5. delivered' = [k \in JobIds |-> IF k \in {} THEN delivered[k] + 1 ELSE delivered[k]]
    BY <1>1
  <2>6. Contract!Deliver({j}, {})
    BY <1>1, <2>2, <2>3, <2>4, <2>5 DEF Contract!Deliver
  <2> QED BY <1>1, <2>6 DEF j
<1>3. CASE ~(OwnsJob(j, o) /\ jobs'[j] = NoJob)
  <2>1. buried' = buried
    BY <1>3 DEF FailDelivery
  <2> QED BY <1>1, <2>1 DEF Contract!vars, Status
<1> QED BY <1>2, <1>3

\* Every step of the hosts is a step of the contract or invisible to it.
LEMMA StepRefines ==
  ASSUME IInv, IInv', TablesSound, DispatchedInv, [Next]_vars
  PROVE  [Contract!Next]_(Contract!vars)
<1>1. ASSUME acked' = acked, buried' = buried, published' = published,
             delivered' = delivered, applied' = applied
      PROVE  UNCHANGED Contract!vars
  BY <1>1 DEF Contract!vars, Status
<1>2. CASE UNCHANGED vars
  BY <1>1, <1>2 DEF vars, history
<1>3. CASE Invocation
  <2>1. PICK now \in Instants, writes \in BOOLEAN, pubs \in {<< >>} \cup {<<j>> : j \in JobIds} :
           InvocationCommit(pubs, writes, now)
    BY <1>3 DEF Invocation
  <2>2. pubs \in Seq(JobIds)
    BY ShortSeqs
  <2>3. Contract!Publish(Range(pubs)) /\ Range(pubs) \in SUBSET JobIds
    BY <2>1, <2>2, PublishRefines, SeqRange
  <2> QED BY <2>3 DEF Contract!Next
<1>4. ASSUME NEW w \in Workers, NEW q \in Queues, NEW now \in Instants, Reserve(w, q, now)
      PROVE  Contract!Next
  <2>1. Contract!Deliver(Terminalized(q, now), Deliverable(q, now))
    BY <1>4, ReserveRefines
  <2>2. Terminalized(q, now) \in SUBSET JobIds
    BY QueueSubsets
  <2>3. Deliverable(q, now) \in {{}} \cup {{j} : j \in JobIds}
    BY DeliverableSingle DEF IInv, TablesSound
  <2> QED BY <2>1, <2>2, <2>3 DEF Contract!Next
<1>5. ASSUME NEW w \in Workers, NEW now \in Instants, CommitOutcome(w, now)
      PROVE  Contract!Next
  <2> DEFINE n == IF worker[w].writes THEN 1 ELSE 0
  <2>1. /\ worker[w].job \in JobIds /\ Range(worker[w].pubs) \in SUBSET JobIds
        /\ Contract!Acknowledge(worker[w].job, Range(worker[w].pubs), n)
    BY <1>5, OutcomeRefines
  <2>2. n \in {0, 1}
    OBVIOUS
  <2> HIDE DEF n
  <2> QED BY <2>1, <2>2 DEF Contract!Next
<1>6. ASSUME NEW w \in Workers, NEW now \in Instants, FailDelivery(w, now)
      PROVE  [Contract!Next]_(Contract!vars)
  <2>1. CASE UNCHANGED Contract!vars
    BY <2>1
  <2>2. CASE worker[w].job \in JobIds /\ Contract!Deliver({worker[w].job}, {})
    <3>1. {worker[w].job} \in SUBSET JobIds
      BY <2>2
    <3> QED BY <2>2, <3>1 DEF Contract!Next
  <2> QED BY <1>6, <2>1, <2>2, FailRefines
<1>7. ASSUME NEW w \in Workers,
             \/ \E now \in Instants : StartGuest(w, now)
             \/ StageWrite(w)
             \/ \E j \in JobIds : StagePublish(w, j)
             \/ GuestOk(w) \/ GuestFailed(w) \/ CommitRejected(w) \/ Crash(w)
      PROVE  UNCHANGED Contract!vars
  BY <1>1, <1>7 DEF StartGuest, StageWrite, StagePublish, GuestOk, GuestFailed, CommitRejected,
     Crash, history
<1> QED BY <1>2, <1>3, <1>4, <1>5, <1>6, <1>7 DEF Next, Dispatch

\* The initial tables are the contract's initial state.
LEMMA InitRefines == Init => Contract!Init /\ DispatchedInv
  BY DEF Init, Contract!Init, Status, DispatchedInv, Idle

\* For every set of jobs, queues and workers and every policy, the dispatching
\* hosts implement the contract: a published job is handed out at most its budget
\* of times and ends acknowledged once, with that delivery's writes, or dead.
THEOREM RefinesContract == Spec => ImplementsContract
<1>1. IInv /\ IInv' /\ TablesSound /\ DispatchedInv /\ [Next]_vars
         => DispatchedInv' /\ [Contract!Next]_(Contract!vars)
  BY StepDispatched, StepRefines
<1> QED BY <1>1, InitRefines, Invariance, TablesStaySound, PTL
        DEF Spec, ImplementsContract, Contract!Spec
=============================================================================
