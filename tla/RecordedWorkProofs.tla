------------------------- MODULE RecordedWorkProofs -------------------------
(***************************************************************************)
(* Proofs about RecordedWork, for any number of workers, keys and digests  *)
(* and any timing with Lease >= Deadline + Busy.  The heart is LeaseInv:   *)
(* a worker that is still running holds a lease with at least as much time *)
(* left as its own deadline, so that no decision can find it expired.      *)
(***************************************************************************)
EXTENDS RecordedWork, Arithmetic, TLAPS

\* What the phase of a worker says of its fields.
Sound(x) ==
    /\ x.pc # "idle" => x.key \in Keys /\ x.digest \in Digests /\ x.owner \in Owners
    /\ x.pc \in {"committing", "completing"} => x.result \in Results
    /\ x.pc = "deciding" => x.age <= Busy

\* Row r is the lease of worker state x and outlasts its deadline.
Held(r, x) ==
    /\ r # Absent /\ r.status = "leased" /\ r.owner = x.owner
    /\ r.left >= Deadline - x.age

InTime(x) == x.pc = "executing" /\ x.age < Deadline

PhaseInv == \A w \in Workers : Sound(worker[w])

\* A completion is only reached through its effect.
EffectInv ==
    \A w \in Workers : worker[w].pc = "completing" =>
        <<worker[w].key, worker[w].digest, worker[w].result>> \in effects

\* A completed row records an effect.
RowInv ==
    \A k \in Keys : rows[k] # Absent /\ rows[k].status = "done" =>
        rows[k].result \in Results /\ <<k, rows[k].digest, rows[k].result>> \in effects

DistinctInv ==
    \A v, w \in Workers :
        v # w /\ worker[v].pc # "idle" /\ worker[w].pc # "idle" => worker[v].owner # worker[w].owner

LeaseInv == \A w \in Workers : InTime(worker[w]) => Held(rows[worker[w].key], worker[w])

IInv ==
    /\ TypeOK /\ PhaseInv /\ EffectInv /\ RowInv /\ DistinctInv /\ LeaseInv
    /\ AnswersEffective

\* The initial state satisfies the inductive invariant.
LEMMA InitInv == Init => IInv
<1> SUFFICES ASSUME Init PROVE IInv
  OBVIOUS
<1>1. Idle \in WorkerState
  BY DEF Idle, WorkerState, Phases
<1>2. TypeOK
  BY <1>1 DEF Init, TypeOK
<1>3. \A w \in Workers : worker[w].pc = "idle"
  BY DEF Init, Idle
<1>4. PhaseInv /\ EffectInv /\ DistinctInv /\ LeaseInv
  BY <1>3 DEF PhaseInv, Sound, EffectInv, DistinctInv, LeaseInv, InTime
<1>5. RowInv /\ AnswersEffective
  BY DEF Init, RowInv, AnswersEffective
<1> QED
  BY <1>2, <1>4, <1>5 DEF IInv

\* A step of one worker: what must hold of its new state and of the table.
LEMMA OneWorker ==
    ASSUME IInv, NEW w \in Workers, NEW x \in WorkerState,
           worker' = [worker EXCEPT ![w] = x], load' = load,
           rows' \in [Keys -> Row \cup {Absent}], older' \subseteq Keys \X Keys,
           effects \subseteq effects', effects' \subseteq Keys \X Digests \X Results,
           answers' \subseteq effects', Sound(x),
           x.pc = "completing" => <<x.key, x.digest, x.result>> \in effects',
           \A k \in Keys : rows'[k] # Absent /\ rows'[k].status = "done" =>
               rows'[k].result \in Results /\ <<k, rows'[k].digest, rows'[k].result>> \in effects',
           \A v \in Workers \ {w} :
               x.pc # "idle" /\ worker[v].pc # "idle" => worker[v].owner # x.owner,
           \A v \in Workers \ {w} :
               InTime(worker[v]) => rows'[worker[v].key] = rows[worker[v].key],
           InTime(x) => Held(rows'[x.key], x)
    PROVE  IInv'
<1>1. /\ worker'[w] = x
      /\ \A v \in Workers \ {w} : worker'[v] = worker[v]
      /\ worker' \in [Workers -> WorkerState]
  BY DEF IInv, TypeOK
<1>2. TypeOK' /\ AnswersEffective'
  BY <1>1 DEF IInv, TypeOK, AnswersEffective
<1>3. PhaseInv'
  BY <1>1 DEF IInv, PhaseInv
<1>4. EffectInv'
  BY <1>1 DEF IInv, EffectInv
<1>5. RowInv'
  BY DEF RowInv
<1>6. DistinctInv'
  <2> SUFFICES ASSUME NEW u \in Workers, NEW v \in Workers, u # v,
                      worker'[u].pc # "idle", worker'[v].pc # "idle"
               PROVE  worker'[u].owner # worker'[v].owner
    BY DEF DistinctInv
  <2>1. CASE u = w
    BY <2>1, <1>1
  <2>2. CASE v = w
    BY <2>2, <1>1
  <2>3. CASE u # w /\ v # w
    BY <2>3, <1>1 DEF IInv, DistinctInv
  <2> QED
    BY <2>1, <2>2, <2>3
<1>7. LeaseInv'
  <2> SUFFICES ASSUME NEW v \in Workers, InTime(worker'[v])
               PROVE  Held(rows'[worker'[v].key], worker'[v])
    BY DEF LeaseInv
  <2>1. CASE v = w
    BY <2>1, <1>1
  <2>2. CASE v # w
    BY <2>2, <1>1 DEF IInv, LeaseInv
  <2> QED
    BY <2>1, <2>2
<1> QED
  BY <1>2, <1>3, <1>4, <1>5, <1>6, <1>7 DEF IInv

\* A step of one worker that leaves the table and the history alone.
LEMMA LocalStep ==
    ASSUME IInv, NEW w \in Workers, NEW x \in WorkerState,
           worker' = [worker EXCEPT ![w] = x],
           UNCHANGED <<load, rows, older, effects, answers>>, Sound(x),
           x.pc # "completing", ~InTime(x),
           \A v \in Workers \ {w} :
               x.pc # "idle" /\ worker[v].pc # "idle" => worker[v].owner # x.owner
    PROVE  IInv'
<1>1. /\ rows' \in [Keys -> Row \cup {Absent}] /\ older' \subseteq Keys \X Keys
      /\ effects \subseteq effects' /\ effects' \subseteq Keys \X Digests \X Results
      /\ answers' \subseteq effects'
  BY DEF IInv, TypeOK, AnswersEffective
<1>2. \A k \in Keys : rows'[k] # Absent /\ rows'[k].status = "done" =>
         rows'[k].result \in Results /\ <<k, rows'[k].digest, rows'[k].result>> \in effects'
  BY DEF IInv, RowInv
<1> QED
  BY <1>1, <1>2, OneWorker

\* A decision's cleanup spares the leases of running workers.
LEMMA CleanedRows ==
    ASSUME IInv, NEW age \in Nat
    PROVE  /\ Cleaned(age) \in [Keys -> Row \cup {Absent}]
           /\ \A k \in Keys : Cleaned(age)[k] \in {Absent, rows[k]}
           /\ \A v \in Workers : InTime(worker[v]) =>
                 Cleaned(age)[worker[v].key] = rows[worker[v].key]
<1>1. /\ Cleaned(age) \in [Keys -> Row \cup {Absent}]
      /\ \A k \in Keys : Cleaned(age)[k] \in {Absent, rows[k]}
  BY DEF Cleaned, IInv, TypeOK
<1>2. ASSUME NEW v \in Workers, InTime(worker[v])
      PROVE  Cleaned(age)[worker[v].key] = rows[worker[v].key]
  <2> DEFINE k == worker[v].key
             r == rows[k]
  <2>1. k \in Keys
    BY <1>2 DEF IInv, PhaseInv, Sound, InTime
  <2>2. Held(r, worker[v])
    BY <1>2 DEF IInv, LeaseInv
  <2>3. r \in Row
    BY <2>1, <2>2 DEF IInv, TypeOK, Held
  <2>4. r.left \in Int
    BY <2>3 DEF Row
  <2>5. worker[v].age \in Nat /\ worker[v].age < Deadline /\ Deadline \in Nat
    BY <1>2, RetentionAssumption DEF IInv, TypeOK, WorkerState, InTime
  <2>6. r.left >= Deadline - worker[v].age
    BY <2>2 DEF Held
  <2>7. r.left + age > 0
    <3> HIDE DEF r
    <3> QED
      BY <2>4, <2>5, <2>6
  <2>8. ~Expired(k, age)
    BY <2>4, <2>7 DEF Expired
  <2> QED
    BY <2>1, <2>8 DEF Cleaned
<1> QED
  BY <1>1, <1>2

\* A statement that finds its row by owner spares the leases of the others.
LEMMA OwnRowOnly ==
    ASSUME IInv, NEW w \in Workers, NEW v \in Workers \ {w}, OwnsRow(w), InTime(worker[v]),
           worker[w].pc # "idle"
    PROVE  worker[v].key # worker[w].key
<1>1. Held(rows[worker[v].key], worker[v])
  BY DEF IInv, LeaseInv
<1>2. worker[v].owner # worker[w].owner
  BY DEF IInv, DistinctInv, InTime
<1> QED
  BY <1>1, <1>2 DEF Held, OwnsRow

\* What an abort leaves.
LEMMA AbortedRows ==
    ASSUME IInv, NEW w \in Workers, worker[w].pc # "idle"
    PROVE  /\ Aborted(w) \in [Keys -> Row \cup {Absent}]
           /\ \A k \in Keys : Aborted(w)[k] \in {Absent, rows[k]}
           /\ \A v \in Workers \ {w} : InTime(worker[v]) =>
                 Aborted(w)[worker[v].key] = rows[worker[v].key]
<1>1. worker[w].key \in Keys /\ rows \in [Keys -> Row \cup {Absent}]
  BY DEF IInv, PhaseInv, Sound, TypeOK
<1>2. CASE ~OwnsRow(w)
  BY <1>1, <1>2 DEF Aborted
<1>3. CASE OwnsRow(w)
  <2>1. Aborted(w) = [rows EXCEPT ![worker[w].key] = Absent]
    BY <1>3 DEF Aborted
  <2>2. \A v \in Workers \ {w} : InTime(worker[v]) => worker[v].key # worker[w].key
    BY <1>3, OwnRowOnly
  <2>3. \A v \in Workers : InTime(worker[v]) => worker[v].key \in Keys
    BY DEF IInv, PhaseInv, Sound, InTime
  <2> QED
    BY <1>1, <2>1, <2>2, <2>3
<1> QED
  BY <1>2, <1>3

\* Making room only removes rows that are completed.
LEMMA EnforcedRows ==
    ASSUME NEW table \in [Keys -> Row \cup {Absent}], NEW order
    PROVE  /\ EnforceTableLimits(table, order) \in [Keys -> Row \cup {Absent}]
           /\ \A k \in Keys : EnforceTableLimits(table, order)[k] \in {Absent, table[k]}
           /\ \A k \in Keys \ Done(table) : EnforceTableLimits(table, order)[k] = table[k]
BY DEF EnforceTableLimits

\* The order of use stays a relation on the keys.
LEMMA UsedNowTyped ==
    ASSUME older \subseteq Keys \X Keys, NEW k \in Keys
    PROVE  Used(k) \subseteq Keys \X Keys
BY DEF Used, UsedNow, Among

\* Facts about a worker at work.
LEMMA AtWork ==
    ASSUME IInv, NEW w \in Workers
    PROVE  /\ worker[w] \in WorkerState /\ worker[w].age \in Nat
           /\ worker[w].pc # "idle" =>
                worker[w].key \in Keys /\ worker[w].digest \in Digests /\ worker[w].owner \in Owners
           /\ Idle \in WorkerState /\ Sound(Idle) /\ ~InTime(Idle) /\ Idle.pc = "idle"
<1>1. worker[w] \in WorkerState
  BY DEF IInv, TypeOK
<1>2. worker[w].age \in Nat
  BY <1>1 DEF WorkerState
<1>3. Sound(worker[w])
  BY DEF IInv, PhaseInv
<1>4. Idle \in WorkerState /\ Sound(Idle) /\ ~InTime(Idle) /\ Idle.pc = "idle"
  BY DEF Idle, WorkerState, Phases, Sound, InTime
<1> QED
  BY <1>1, <1>2, <1>3, <1>4 DEF Sound

\* A step that ends a worker's part and removes rows at most.
LEMMA EndStep ==
    ASSUME IInv, NEW w \in Workers, worker' = [worker EXCEPT ![w] = Idle], load' = load,
           rows' \in [Keys -> Row \cup {Absent}],
           \A k \in Keys : rows'[k] \in {Absent, rows[k]},
           \A v \in Workers \ {w} :
               InTime(worker[v]) => rows'[worker[v].key] = rows[worker[v].key],
           older' \subseteq Keys \X Keys, effects' = effects, answers' \subseteq effects
    PROVE  IInv'
<1>1. \A k \in Keys : rows'[k] # Absent /\ rows'[k].status = "done" =>
         rows'[k].result \in Results /\ <<k, rows'[k].digest, rows'[k].result>> \in effects'
  BY DEF IInv, RowInv
<1>2. effects \subseteq effects' /\ effects' \subseteq Keys \X Digests \X Results /\ answers' \subseteq effects'
  BY DEF IInv, TypeOK
<1>3. /\ Idle \in WorkerState /\ Sound(Idle)
      /\ Idle.pc = "completing" => <<Idle.key, Idle.digest, Idle.result>> \in effects'
      /\ \A v \in Workers \ {w} :
           Idle.pc # "idle" /\ worker[v].pc # "idle" => worker[v].owner # Idle.owner
      /\ InTime(Idle) => Held(rows'[Idle.key], Idle)
  BY AtWork
<1> QED
  BY <1>1, <1>2, <1>3, OneWorker

\* A request comes in.
LEMMA ArriveInv ==
    ASSUME IInv, NEW w \in Workers, NEW k \in Keys, NEW d \in Digests, NEW o \in Owners,
           Arrive(w, k, d, o)
    PROVE  IInv'
<1> DEFINE x == [pc |-> "deciding", key |-> k, digest |-> d, owner |-> o, age |-> 0, result |-> None]
<1>1. worker' = [worker EXCEPT ![w] = x]
  BY DEF Arrive
<1>2. x \in WorkerState
  BY DEF WorkerState, Phases
<1>3. x.pc = "deciding" /\ x.owner = o /\ Sound(x) /\ ~InTime(x)
  BY RetentionAssumption DEF Sound, InTime
<1>4. \A v \in Workers : worker[v].owner # o
  BY DEF Arrive, InUse
<1>5. UNCHANGED <<load, rows, older, effects, answers>>
  BY DEF Arrive
<1> HIDE DEF x
<1> QED
  BY <1>1, <1>2, <1>3, <1>4, <1>5, LocalStep

\* The decisions that do not start any work.
LEMMA RefuseInv ==
    ASSUME IInv, NEW w \in Workers, Conflict(w) \/ Replay(w) \/ InProgress(w)
    PROVE  IInv'
<1>1. worker[w].age \in Nat /\ worker[w].key \in Keys /\ worker[w].digest \in Digests
  BY AtWork DEF Conflict, Replay, InProgress
<1>2. /\ rows' = Cleaned(worker[w].age) /\ effects' = effects /\ load' = load
      /\ worker' = [worker EXCEPT ![w] = Idle]
  BY DEF Conflict, Replay, InProgress
<1>3. older' \subseteq Keys \X Keys
  <2>1. older \subseteq Keys \X Keys
    BY DEF IInv, TypeOK
  <2>2. older' = older \/ older' = Used(worker[w].key)
    BY DEF Conflict, Replay, InProgress
  <2> QED
    BY <1>1, <2>1, <2>2, UsedNowTyped
<1>4. answers' \subseteq effects
  <2>1. CASE Replay(w)
    <3> DEFINE k == worker[w].key
    <3>1. Found(w) # Absent /\ Found(w).digest = worker[w].digest /\ Found(w).status = "done"
      BY <2>1 DEF Replay, Replayable
    <3>2. Found(w) = rows[k]
      BY <1>1, <3>1, CleanedRows DEF Found
    <3>3. <<k, worker[w].digest, Found(w).result>> \in effects
      BY <1>1, <3>1, <3>2 DEF IInv, RowInv
    <3> QED
      BY <2>1, <3>3 DEF Replay, Answer, IInv, AnswersEffective
  <2>2. CASE Conflict(w) \/ InProgress(w)
    BY <2>2 DEF Conflict, InProgress, IInv, AnswersEffective
  <2> QED
    BY <2>1, <2>2
<1>5. /\ rows' \in [Keys -> Row \cup {Absent}]
      /\ \A k \in Keys : rows'[k] \in {Absent, rows[k]}
      /\ \A v \in Workers \ {w} :
           InTime(worker[v]) => rows'[worker[v].key] = rows[worker[v].key]
  BY <1>1, <1>2, CleanedRows
<1> QED
  BY <1>2, <1>3, <1>4, <1>5, EndStep

\* A worker that enters phase p.
Entered(y, p) == [y EXCEPT !.pc = p, !.age = 0]

\* What entering a phase changes and what it keeps.
LEMMA Moved ==
    ASSUME NEW y \in WorkerState, NEW p \in Phases
    PROVE  LET x == Entered(y, p)
           IN  /\ x \in WorkerState /\ x.pc = p /\ x.age = 0 /\ x.key = y.key
               /\ x.digest = y.digest /\ x.owner = y.owner /\ x.result = y.result
<1> DEFINE q == [y EXCEPT !.pc = p]
<1>1. /\ q \in WorkerState /\ q.pc = p /\ q.key = y.key
      /\ q.digest = y.digest /\ q.owner = y.owner /\ q.result = y.result
  BY DEF WorkerState
<1>2. Entered(y, p) = [q EXCEPT !.age = 0]
  BY DEF Entered
<1> HIDE DEF q
<1> QED
  BY <1>1, <1>2 DEF WorkerState

\* A decision that leases the key.
LEMMA ExecuteInv ==
    ASSUME IInv, NEW w \in Workers, Execute(w)
    PROVE  IInv'
<1> DEFINE y == worker[w]
           k == y.key
           C == Cleaned(y.age)
           x == Entered(y, "executing")
           r == LeasedRow(w)
<1>1. /\ y \in WorkerState /\ y.age \in Nat /\ k \in Keys /\ y.digest \in Digests
      /\ y.owner \in Owners /\ y.pc = "deciding"
  BY AtWork DEF Execute
<1>2. y.age <= Busy
  BY <1>1 DEF IInv, PhaseInv, Sound
<1>3. r \in Row /\ r.status = "leased" /\ r.owner = y.owner /\ r.left = Lease - y.age
  BY <1>1, RetentionAssumption DEF LeasedRow, Row
<1>4. /\ x \in WorkerState /\ x.pc = "executing" /\ x.key = k /\ x.owner = y.owner
      /\ x.age = 0 /\ x.digest = y.digest
  <2>1. "executing" \in Phases
    BY DEF Phases
  <2> HIDE DEF y
  <2> QED
    BY <1>1, <2>1, Moved
<1>5. worker' = [worker EXCEPT ![w] = x]
  BY DEF Execute, Entered
<1>6. Sound(x)
  BY <1>1, <1>4 DEF Sound
<1>7. /\ C \in [Keys -> Row \cup {Absent}] /\ C[k] = Absent
      /\ \A j \in Keys : C[j] \in {Absent, rows[j]}
      /\ \A v \in Workers : InTime(worker[v]) => C[worker[v].key] = rows[worker[v].key]
  <2>1. C[k] = Absent
    BY DEF Execute, Found
  <2> QED
    BY <1>1, <2>1, CleanedRows
<1>8. rows' = [C EXCEPT ![k] = r]
  BY DEF Execute
<1>9. r # Absent
  BY <1>3, AbsentIsNoRow
<1>10. Held(r, x)
  <2>1. r.left >= Deadline - x.age
    <3> HIDE DEF r, x
    <3> QED
      BY <1>1, <1>2, <1>3, <1>4, RetentionAssumption
  <2> QED
    BY <2>1, <1>3, <1>4, <1>9 DEF Held
<1>11. \A v \in Workers : InTime(worker[v]) => worker[v].key \in Keys /\ worker[v].key # k
  <2> SUFFICES ASSUME NEW v \in Workers, InTime(worker[v])
               PROVE  worker[v].key \in Keys /\ worker[v].key # k
    OBVIOUS
  <2>1. Held(rows[worker[v].key], worker[v]) /\ worker[v].key \in Keys
    BY DEF IInv, LeaseInv, PhaseInv, Sound, InTime
  <2>2. C[worker[v].key] # Absent
    BY <2>1, <1>7 DEF Held
  <2> QED
    BY <2>1, <2>2, <1>7
<1>12. older' \subseteq Keys \X Keys
  BY <1>1, UsedNowTyped DEF Execute, IInv, TypeOK
<1>13. /\ effects \subseteq effects' /\ effects' \subseteq Keys \X Digests \X Results
       /\ answers' \subseteq effects' /\ effects' = effects /\ load' = load
  BY DEF Execute, IInv, TypeOK, AnswersEffective
<1>14. \A v \in Workers \ {w} :
         x.pc # "idle" /\ worker[v].pc # "idle" => worker[v].owner # x.owner
  BY <1>1, <1>4 DEF IInv, DistinctInv
<1> HIDE DEF x, r, C
<1>15. /\ rows' \in [Keys -> Row \cup {Absent}] /\ rows'[k] = r
       /\ \A j \in Keys \ {k} : rows'[j] = C[j]
  BY <1>1, <1>3, <1>7, <1>8
<1>16. \A j \in Keys : rows'[j] # Absent /\ rows'[j].status = "done" =>
         rows'[j].result \in Results /\ <<j, rows'[j].digest, rows'[j].result>> \in effects'
  <2> SUFFICES ASSUME NEW j \in Keys, rows'[j] # Absent, rows'[j].status = "done"
               PROVE  rows'[j].result \in Results /\ <<j, rows'[j].digest, rows'[j].result>> \in effects'
    OBVIOUS
  <2>1. j # k
    BY <1>3, <1>15
  <2>2. rows'[j] = rows[j]
    BY <2>1, <1>7, <1>15
  <2> QED
    BY <2>2, <1>13 DEF IInv, RowInv
<1>17. \A v \in Workers \ {w} : InTime(worker[v]) => rows'[worker[v].key] = rows[worker[v].key]
  BY <1>7, <1>11, <1>15
<1>18. InTime(x) => Held(rows'[x.key], x)
  BY <1>4, <1>10, <1>15
<1>19. x.pc = "completing" => <<x.key, x.digest, x.result>> \in effects'
  BY <1>4
<1>20. x \in WorkerState
  BY <1>4
<1> QED
  BY <1>20, <1>5, <1>6, <1>12, <1>13, <1>14, <1>15, <1>16, <1>17, <1>18, <1>19, OneWorker

\* A worker whose guest returned, or that fails.
LEMMA MoveInv ==
    ASSUME IInv, NEW w \in Workers, (\E v \in Results : Returns(w, v)) \/ Fail(w)
    PROVE  IInv'
<1> DEFINE y == worker[w]
<1>1. /\ y \in WorkerState /\ y.key \in Keys /\ y.digest \in Digests /\ y.owner \in Owners
      /\ y.pc # "idle"
  BY AtWork DEF Returns, Fail
<1>2. \A v \in Workers \ {w} : worker[v].pc # "idle" => worker[v].owner # y.owner
  BY <1>1 DEF IInv, DistinctInv
<1>3. UNCHANGED <<load, rows, older, effects, answers>>
  BY DEF Returns, Fail
<1>4. CASE Fail(w)
  <2> DEFINE x == Entered(y, "aborting")
  <2>1. worker' = [worker EXCEPT ![w] = x]
    BY <1>4 DEF Fail, Entered
  <2>2. "aborting" \in Phases
    BY DEF Phases
  <2> HIDE DEF y
  <2>3. x \in WorkerState /\ x.pc = "aborting" /\ x.key = y.key /\ x.digest = y.digest /\ x.owner = y.owner
    BY <1>1, <2>2, Moved
  <2> HIDE DEF x
  <2>4. Sound(x) /\ ~InTime(x) /\ x.pc # "completing"
    BY <1>1, <2>3 DEF Sound, InTime
  <2>5. \A v \in Workers \ {w} :
          x.pc # "idle" /\ worker[v].pc # "idle" => worker[v].owner # x.owner
    BY <1>2, <2>3
  <2>6. x \in WorkerState
    BY <2>3
  <2> QED
    BY <2>1, <2>4, <2>5, <2>6, <1>3, LocalStep
<1>5. ASSUME NEW u \in Results, Returns(w, u) PROVE IInv'
  <2> DEFINE q == Entered(y, "committing")
             x == [q EXCEPT !.result = u]
  <2>1. worker' = [worker EXCEPT ![w] = x]
    BY <1>5 DEF Returns, Entered
  <2>2. "committing" \in Phases
    BY DEF Phases
  <2> HIDE DEF y
  <2>3. /\ q \in WorkerState /\ q.pc = "committing" /\ q.key = y.key /\ q.digest = y.digest
        /\ q.owner = y.owner
    BY <1>1, <2>2, Moved
  <2> HIDE DEF q
  <2>4. /\ x \in WorkerState /\ x.pc = "committing" /\ x.key = y.key /\ x.digest = y.digest
        /\ x.owner = y.owner /\ x.result = u
    BY <2>3 DEF WorkerState
  <2> HIDE DEF x
  <2>5. Sound(x) /\ ~InTime(x) /\ x.pc # "completing"
    BY <1>1, <2>4 DEF Sound, InTime
  <2>6. \A v \in Workers \ {w} :
          x.pc # "idle" /\ worker[v].pc # "idle" => worker[v].owner # x.owner
    BY <1>2, <2>4
  <2>7. x \in WorkerState
    BY <2>4
  <2> QED
    BY <2>1, <2>5, <2>6, <2>7, <1>3, LocalStep
<1> QED
  BY <1>4, <1>5

\* The effect takes place.
LEMMA EffectStep ==
    ASSUME IInv, NEW w \in Workers, Effect(w)
    PROVE  IInv'
<1> DEFINE y == worker[w]
           x == Entered(y, "completing")
<1>1. /\ y \in WorkerState /\ y.key \in Keys /\ y.digest \in Digests /\ y.owner \in Owners
      /\ y.pc = "committing"
  BY AtWork DEF Effect
<1>2. y.result \in Results
  BY <1>1 DEF IInv, PhaseInv, Sound
<1>3. \A v \in Workers \ {w} : worker[v].pc # "idle" => worker[v].owner # y.owner
  BY <1>1 DEF IInv, DistinctInv
<1>4. effects' = effects \cup {<<y.key, y.digest, y.result>>}
  BY DEF Effect
<1>5. /\ load' = load /\ rows' = rows /\ older' = older /\ answers' = answers
      /\ worker' = [worker EXCEPT ![w] = x]
  BY DEF Effect, Entered
<1>6. "completing" \in Phases
  BY DEF Phases
<1> HIDE DEF y
<1>7. /\ x \in WorkerState /\ x.pc = "completing" /\ x.key = y.key /\ x.digest = y.digest
      /\ x.owner = y.owner /\ x.result = y.result
  BY <1>1, <1>6, Moved
<1> HIDE DEF x
<1>8. /\ effects \subseteq effects' /\ effects' \subseteq Keys \X Digests \X Results
      /\ answers' \subseteq effects'
  <2>1. effects \subseteq Keys \X Digests \X Results /\ answers \subseteq effects
    BY DEF IInv, TypeOK, AnswersEffective
  <2> QED
    BY <2>1, <1>1, <1>2, <1>4, <1>5
<1>9. Sound(x) /\ ~InTime(x) /\ <<x.key, x.digest, x.result>> \in effects'
  BY <1>1, <1>2, <1>4, <1>7 DEF Sound, InTime
<1>10. \A k \in Keys : rows'[k] # Absent /\ rows'[k].status = "done" =>
         rows'[k].result \in Results /\ <<k, rows'[k].digest, rows'[k].result>> \in effects'
  BY <1>5, <1>8 DEF IInv, RowInv
<1>11. rows' \in [Keys -> Row \cup {Absent}] /\ older' \subseteq Keys \X Keys
  BY <1>5 DEF IInv, TypeOK
<1>12. \A v \in Workers \ {w} :
         x.pc # "idle" /\ worker[v].pc # "idle" => worker[v].owner # x.owner
  BY <1>3, <1>7
<1>13. \A v \in Workers \ {w} : InTime(worker[v]) => rows'[worker[v].key] = rows[worker[v].key]
  BY <1>5
<1>14. load' = load /\ worker' = [worker EXCEPT ![w] = x] /\ x \in WorkerState
  BY <1>5, <1>7
<1> QED
  BY <1>14, <1>8, <1>9, <1>10, <1>11, <1>12, <1>13, OneWorker

\* An abort, a crash, and a response that is answered without being recorded.
LEMMA StopInv ==
    ASSUME IInv, NEW w \in Workers, CompleteOversized(w) \/ Abort(w) \/ Crash(w)
    PROVE  IInv'
<1>1. worker[w].pc # "idle"
  BY DEF CompleteOversized, Abort, Crash
<1>2. /\ worker' = [worker EXCEPT ![w] = Idle] /\ effects' = effects /\ older' = older
      /\ load' = load
  BY DEF CompleteOversized, Abort, Crash
<1>3. /\ rows' \in [Keys -> Row \cup {Absent}]
      /\ \A k \in Keys : rows'[k] \in {Absent, rows[k]}
      /\ \A v \in Workers \ {w} :
           InTime(worker[v]) => rows'[worker[v].key] = rows[worker[v].key]
  <2>1. CASE rows' = rows
    BY <2>1 DEF IInv, TypeOK
  <2>2. CASE rows' = Aborted(w)
    BY <2>2, <1>1, AbortedRows
  <2> QED
    BY <2>1, <2>2 DEF CompleteOversized, Abort, Crash
<1>4. answers' \subseteq effects
  <2>1. CASE CompleteOversized(w)
    BY <2>1 DEF CompleteOversized, Answer, IInv, EffectInv, AnswersEffective
  <2>2. CASE Abort(w) \/ Crash(w)
    BY <2>2 DEF Abort, Crash, IInv, AnswersEffective
  <2> QED
    BY <2>1, <2>2
<1>5. older' \subseteq Keys \X Keys
  BY <1>2 DEF IInv, TypeOK
<1> QED
  BY <1>2, <1>3, <1>4, <1>5, EndStep

\* A completion records the result and makes room for it.
LEMMA CompleteInv ==
    ASSUME IInv, NEW w \in Workers, Complete(w)
    PROVE  IInv'
<1> DEFINE y == worker[w]
           k == y.key
           r == DoneRow(w)
           table == [rows EXCEPT ![k] = r]
           order == Used(k)
           E == EnforceTableLimits(table, order)
<1>1. /\ y \in WorkerState /\ y.age \in Nat /\ k \in Keys /\ y.digest \in Digests
      /\ y.pc = "completing"
  BY AtWork DEF Complete
<1>2. y.result \in Results /\ <<k, y.digest, y.result>> \in effects
  BY <1>1 DEF IInv, PhaseInv, Sound, EffectInv
<1>3. r \in Row /\ r.digest = y.digest /\ r.result = y.result
  BY <1>1, <1>2, RetentionAssumption DEF DoneRow, Row
<1>4. rows \in [Keys -> Row \cup {Absent}] /\ older \subseteq Keys \X Keys
  BY DEF IInv, TypeOK
<1>5. /\ load' = load /\ rows' = E /\ effects' = effects /\ older' = order
      /\ worker' = [worker EXCEPT ![w] = Idle]
  BY DEF Complete
<1>6. older' \subseteq Keys \X Keys
  BY <1>1, <1>4, <1>5, UsedNowTyped
<1>7. answers' \subseteq effects'
  BY <1>2, <1>5 DEF Complete, Answer, IInv, AnswersEffective
<1>8. \A v \in Workers \ {w} : InTime(worker[v]) =>
         /\ worker[v].key \in Keys \ {k}
         /\ rows[worker[v].key] # Absent /\ rows[worker[v].key].status = "leased"
  <2> SUFFICES ASSUME NEW v \in Workers \ {w}, InTime(worker[v])
               PROVE  /\ worker[v].key \in Keys \ {k}
                      /\ rows[worker[v].key] # Absent /\ rows[worker[v].key].status = "leased"
    OBVIOUS
  <2>1. OwnsRow(w)
    BY DEF Complete
  <2>2. worker[v].key # k
    BY <1>1, <2>1, OwnRowOnly
  <2>3. worker[v].key \in Keys
    BY DEF IInv, PhaseInv, Sound, InTime
  <2>4. Held(rows[worker[v].key], worker[v])
    BY DEF IInv, LeaseInv
  <2> QED
    BY <2>2, <2>3, <2>4 DEF Held
<1> HIDE DEF r, order
<1>9. /\ table \in [Keys -> Row \cup {Absent}] /\ table[k] = r
      /\ \A j \in Keys \ {k} : table[j] = rows[j]
  BY <1>1, <1>3, <1>4
<1> HIDE DEF table
<1>10. /\ E \in [Keys -> Row \cup {Absent}]
       /\ \A j \in Keys : E[j] \in {Absent, table[j]}
       /\ \A j \in Keys \ Done(table) : E[j] = table[j]
  BY <1>9, EnforcedRows
<1>11. \A v \in Workers \ {w} : InTime(worker[v]) => rows'[worker[v].key] = rows[worker[v].key]
  <2> SUFFICES ASSUME NEW v \in Workers \ {w}, InTime(worker[v])
               PROVE  rows'[worker[v].key] = rows[worker[v].key]
    OBVIOUS
  <2> DEFINE j == worker[v].key
  <2>1. j \in Keys \ {k} /\ rows[j].status = "leased"
    BY <1>8
  <2>2. table[j] = rows[j]
    BY <2>1, <1>9
  <2>3. j \notin Done(table)
    BY <2>1, <2>2 DEF Done
  <2> QED
    BY <2>1, <2>2, <2>3, <1>5, <1>10
<1>12. \A j \in Keys : rows'[j] # Absent /\ rows'[j].status = "done" =>
         rows'[j].result \in Results /\ <<j, rows'[j].digest, rows'[j].result>> \in effects'
  <2> SUFFICES ASSUME NEW j \in Keys, rows'[j] # Absent, rows'[j].status = "done"
               PROVE  rows'[j].result \in Results /\ <<j, rows'[j].digest, rows'[j].result>> \in effects'
    OBVIOUS
  <2>1. rows'[j] = table[j]
    BY <1>5, <1>10
  <2>2. CASE j = k
    BY <2>1, <2>2, <1>2, <1>3, <1>5, <1>9
  <2>3. CASE j # k
    BY <2>1, <2>3, <1>5, <1>9 DEF IInv, RowInv
  <2> QED
    BY <2>2, <2>3
<1>13. effects \subseteq effects' /\ effects' \subseteq Keys \X Digests \X Results
  BY <1>5 DEF IInv, TypeOK
<1>14. /\ Idle \in WorkerState /\ Sound(Idle)
       /\ Idle.pc = "completing" => <<Idle.key, Idle.digest, Idle.result>> \in effects'
       /\ \A v \in Workers \ {w} :
            Idle.pc # "idle" /\ worker[v].pc # "idle" => worker[v].owner # Idle.owner
       /\ InTime(Idle) => Held(rows'[Idle.key], Idle)
  BY AtWork
<1>15. /\ load' = load /\ rows' \in [Keys -> Row \cup {Absent}]
       /\ worker' = [worker EXCEPT ![w] = Idle]
  BY <1>5, <1>10
<1> QED
  BY <1>6, <1>7, <1>11, <1>12, <1>13, <1>14, <1>15, OneWorker

\* Time passes.
LEMMA TickInv ==
    ASSUME IInv, Tick
    PROVE  IInv'
<1> DEFINE Aged(x) == [x EXCEPT !.age = @ + 1]
           Spent(r) == [r EXCEPT !.left = @ - 1]
<1>1. \A x \in WorkerState :
        /\ Aged(x) \in WorkerState /\ Aged(x).age = x.age + 1 /\ Aged(x).pc = x.pc
        /\ Aged(x).key = x.key /\ Aged(x).digest = x.digest /\ Aged(x).owner = x.owner
        /\ Aged(x).result = x.result
  BY DEF WorkerState
<1>2. \A r \in Row :
        /\ Spent(r) \in Row /\ Spent(r).left = r.left - 1 /\ Spent(r).status = r.status
        /\ Spent(r).digest = r.digest /\ Spent(r).owner = r.owner /\ Spent(r).result = r.result
  BY DEF Row
<1>3. \A w \in Workers :
        worker'[w] = IF worker[w].pc = "idle" THEN worker[w] ELSE Aged(worker[w])
  BY DEF Tick
<1>4. \A k \in Keys :
        rows'[k] = IF rows[k] = Absent \/ rows[k].left <= -Busy THEN rows[k] ELSE Spent(rows[k])
  BY DEF Tick
<1> HIDE DEF Aged, Spent
<1>5. \A w \in Workers : worker[w] \in WorkerState /\ worker[w].age \in Nat
  BY AtWork
<1>6. \A k \in Keys : rows[k] # Absent => rows[k] \in Row /\ rows[k].left \in Int
  BY DEF IInv, TypeOK, Row
<1>7. \A w \in Workers :
        /\ worker'[w] \in WorkerState /\ worker'[w].pc = worker[w].pc
        /\ worker'[w].key = worker[w].key /\ worker'[w].digest = worker[w].digest
        /\ worker'[w].owner = worker[w].owner /\ worker'[w].result = worker[w].result
        /\ worker[w].pc # "idle" => worker'[w].age = worker[w].age + 1
  BY <1>1, <1>3, <1>5
<1>8. \A k \in Keys :
        /\ rows'[k] \in Row \cup {Absent}
        /\ rows'[k] # Absent <=> rows[k] # Absent
        /\ rows[k] # Absent =>
             /\ rows'[k].status = rows[k].status /\ rows'[k].digest = rows[k].digest
             /\ rows'[k].owner = rows[k].owner /\ rows'[k].result = rows[k].result
             /\ rows'[k].left >= rows[k].left - 1
  <2> SUFFICES ASSUME NEW k \in Keys
               PROVE  /\ rows'[k] \in Row \cup {Absent}
                      /\ rows'[k] # Absent <=> rows[k] # Absent
                      /\ rows[k] # Absent =>
                           /\ rows'[k].status = rows[k].status /\ rows'[k].digest = rows[k].digest
                           /\ rows'[k].owner = rows[k].owner /\ rows'[k].result = rows[k].result
                           /\ rows'[k].left >= rows[k].left - 1
    OBVIOUS
  <2>1. CASE rows'[k] = rows[k]
    BY <2>1, <1>6
  <2>2. CASE rows[k] # Absent /\ rows'[k] = Spent(rows[k])
    <3>1. Spent(rows[k]) # Absent
      BY <2>2, <1>2, <1>6, AbsentIsNoRow
    <3>2. rows[k].left - 1 >= rows[k].left - 1
      BY <2>2, <1>6
    <3> QED
      BY <2>2, <1>2, <1>6, <3>1, <3>2
  <2> QED
    BY <2>1, <2>2, <1>4
<1>9. UNCHANGED <<load, older, effects, answers>>
  BY DEF Tick
<1>10. TypeOK'
  <2>1. worker' \in [Workers -> WorkerState]
    BY <1>7 DEF Tick
  <2>2. rows' \in [Keys -> Row \cup {Absent}]
    BY <1>8 DEF Tick
  <2> QED
    BY <2>1, <2>2, <1>9 DEF IInv, TypeOK
<1>11. PhaseInv'
  <2> SUFFICES ASSUME NEW w \in Workers PROVE Sound(worker'[w])
    BY DEF PhaseInv
  <2>1. Sound(worker[w])
    BY DEF IInv, PhaseInv
  <2>2. worker[w].pc = "deciding" => worker'[w].age <= Busy
    <3> SUFFICES ASSUME worker[w].pc = "deciding" PROVE worker'[w].age <= Busy
      OBVIOUS
    <3>1. worker[w].age < Busy
      BY DEF Tick, Patience
    <3> QED
      BY <3>1, <1>5, <1>7, RetentionAssumption
  <2> QED
    BY <2>1, <2>2, <1>7 DEF Sound
<1>12. EffectInv'
  BY <1>7, <1>9 DEF IInv, EffectInv
<1>13. RowInv'
  BY <1>8, <1>9 DEF IInv, RowInv
<1>14. DistinctInv'
  BY <1>7 DEF IInv, DistinctInv
<1>15. LeaseInv'
  <2> SUFFICES ASSUME NEW w \in Workers, InTime(worker'[w])
               PROVE  Held(rows'[worker'[w].key], worker'[w])
    BY DEF LeaseInv
  <2> DEFINE k == worker[w].key
             a == worker[w].age
             b == worker'[w].age
             l == rows[k].left
             m == rows'[k].left
  <2>1. worker[w].pc = "executing" /\ b = a + 1 /\ b < Deadline /\ a \in Nat
    BY <1>5, <1>7 DEF InTime
  <2>2. InTime(worker[w])
    BY <2>1, RetentionAssumption DEF InTime
  <2>3. k \in Keys
    BY <2>1 DEF IInv, PhaseInv, Sound
  <2>4. Held(rows[k], worker[w])
    BY <2>2 DEF IInv, LeaseInv
  <2>5. l >= Deadline - a /\ rows[k] # Absent
    BY <2>4 DEF Held
  <2>6. m >= l - 1 /\ l \in Int /\ m \in Int
    <3>1. rows'[k] \in Row
      BY <2>3, <2>5, <1>8
    <3>2. m \in Int
      BY <3>1 DEF Row
    <3> QED
      BY <2>3, <2>5, <1>6, <1>8, <3>2
  <2>7. m >= Deadline - b
    <3> HIDE DEF a, b, l, m
    <3> QED
      BY <2>1, <2>5, <2>6, RetentionAssumption
  <2> QED
    BY <2>3, <2>4, <2>5, <2>7, <1>7, <1>8 DEF Held
<1>16. AnswersEffective'
  BY <1>9 DEF IInv, AnswersEffective
<1> QED
  BY <1>10, <1>11, <1>12, <1>13, <1>14, <1>15, <1>16 DEF IInv

\* Every step keeps the inductive invariant.
LEMMA StepInv == IInv /\ [Next]_vars => IInv'
<1> SUFFICES ASSUME IInv, [Next]_vars PROVE IInv'
  OBVIOUS
<1>1. CASE Tick
  BY <1>1, TickInv
<1>2. ASSUME NEW w \in Workers, Request(w) PROVE IInv'
  BY <1>2, ArriveInv DEF Request
<1>3. ASSUME NEW w \in Workers, Work(w) PROVE IInv'
  <2>1. CASE Decide(w)
    BY <2>1, RefuseInv, ExecuteInv DEF Decide
  <2>2. CASE (\E v \in Results : Returns(w, v)) \/ Fail(w)
    BY <2>2, MoveInv
  <2>3. CASE Effect(w)
    BY <2>3, EffectStep
  <2>4. CASE Complete(w)
    BY <2>4, CompleteInv
  <2>5. CASE CompleteOversized(w) \/ Abort(w) \/ Crash(w)
    BY <2>5, StopInv
  <2> QED
    BY <1>3, <2>1, <2>2, <2>3, <2>4, <2>5 DEF Work
<1>4. CASE UNCHANGED vars
  BY <1>4 DEF vars, IInv, TypeOK, PhaseInv, EffectInv, RowInv, DistinctInv, LeaseInv,
              AnswersEffective
<1> QED
  BY <1>1, <1>2, <1>3, <1>4 DEF Next

\* The inductive invariant holds in every reachable state of the tables and
\* their workers.
THEOREM Invariance == Spec => []IInv
<1>1. Init => IInv
  BY InitInv
<1>2. IInv /\ [Next]_vars => IInv'
  BY StepInv
<1> QED
  BY <1>1, <1>2, PTL DEF Spec

\* Every variable keeps its type.
THEOREM RecordsTypeCorrect == Spec => []TypeOK
<1>1. IInv => TypeOK
  BY DEF IInv
<1> QED
  BY <1>1, Invariance, PTL

\* Every answer, first hand or replayed, belongs to an effect for the same key
\* and digest, however leases lapse and workers die.
THEOREM AnswersAreEffective == Spec => []AnswersEffective
<1>1. IInv => AnswersEffective
  BY DEF IInv
<1> QED
  BY <1>1, Invariance, PTL

\* For every lease that covers the deadline and one lock wait, no key is worked
\* on twice at the same time (validate_lease).
THEOREM WorkIsExclusive == Spec => []WorkExclusive
<1>1. IInv => WorkExclusive
  <2> SUFFICES ASSUME IInv, NEW v \in Workers, NEW w \in Workers, Running(v), Running(w), v # w,
                      worker[v].key = worker[w].key
               PROVE  FALSE
    BY DEF WorkExclusive
  <2>1. InTime(worker[v]) /\ InTime(worker[w])
    BY DEF Running, InTime
  <2>2. rows[worker[v].key].owner = worker[v].owner /\ rows[worker[w].key].owner = worker[w].owner
    BY <2>1 DEF IInv, LeaseInv, Held
  <2>3. worker[v].owner # worker[w].owner
    BY <2>1 DEF IInv, DistinctInv, InTime
  <2> QED
    BY <2>2, <2>3
<1> QED
  BY <1>1, Invariance, PTL

-----------------------------------------------------------------------------
(* Retention                                                               *)

\* The order of last use is a strict order: last_used is one number per row.
OrderInv ==
    /\ \A a \in Keys : <<a, a>> \notin older
    /\ \A a, b, c \in Keys : <<a, b>> \in older /\ <<b, c>> \in older => <<a, c>> \in older

\* What using a key makes of the order.
LEMMA UsedNowFacts ==
  ASSUME NEW k \in Keys, NEW a \in Keys, NEW b \in Keys
  PROVE  <<a, b>> \in Used(k) <=> \/ <<a, b>> \in older /\ a # k /\ b # k
                                  \/ a # k /\ b = k
<1>1. <<a, b>> \in (Keys \ {k}) \X {k} <=> a # k /\ b = k
  OBVIOUS
<1>2. <<a, b>> \in Among(older, Keys \ {k}) <=> <<a, b>> \in older /\ a # k /\ b # k
  BY DEF Among
<1> QED BY <1>1, <1>2 DEF Used, UsedNow

\* Using a key keeps the order strict.
LEMMA UsedNowOrder ==
  ASSUME OrderInv, NEW k \in Keys, older' = Used(k)
  PROVE  OrderInv'
<1>1. \A a \in Keys : <<a, a>> \notin older'
  BY UsedNowFacts DEF OrderInv
<1>2. ASSUME NEW a \in Keys, NEW b \in Keys, NEW c \in Keys,
             <<a, b>> \in older', <<b, c>> \in older'
      PROVE  <<a, c>> \in older'
  BY <1>2, UsedNowFacts DEF OrderInv
<1> QED BY <1>1, <1>2 DEF OrderInv

\* Every step keeps the order strict.
LEMMA StepOrder == IInv /\ OrderInv /\ [Next]_vars => OrderInv'
<1> SUFFICES ASSUME IInv, OrderInv, [Next]_vars PROVE OrderInv'
  OBVIOUS
<1>1. CASE older' = older
  BY <1>1 DEF OrderInv
<1>2. ASSUME NEW w \in Workers, Replay(w) \/ Execute(w) \/ Complete(w) PROVE OrderInv'
  <2>1. older' = Used(worker[w].key)
    BY <1>2 DEF Replay, Execute, Complete
  <2>2. worker[w].key \in Keys
    BY <1>2, AtWork DEF Replay, Execute, Complete
  <2> QED BY <2>1, <2>2, UsedNowOrder
<1>3. ASSUME NEW w \in Workers, Request(w) \/ Work(w) PROVE OrderInv'
  BY <1>1, <1>2, <1>3 DEF Request, Work, Arrive, Decide, Conflict, InProgress, Returns, Effect,
     CompleteOversized, Fail, Abort, Crash
<1> QED BY <1>1, <1>3 DEF Next, Tick, vars

\* Bytes of completed rows: a number, less for fewer rows, the same in a table
\* with the same results.
LEMMA BytesFacts ==
  ASSUME NEW table, NEW S \in SUBSET Keys, \A k \in S : table[k].result \in Results
  PROVE  /\ IsFiniteSet(S) /\ BytesOf(table, S) \in Nat /\ BytesOf(table, {}) = 0
         /\ \A T \in SUBSET S : BytesOf(table, T) <= BytesOf(table, S)
         /\ \A k \in S : BytesOf(table, {k}) = Size[table[k].result]
         /\ \A u : (\A k \in S : u[k].result = table[k].result) => BytesOf(u, S) = BytesOf(table, S)
<1> DEFINE f(u, T) == [k \in T |-> Size[u[k].result]]
<1>1. \A u, T : BytesOf(u, T) = SumOver(f(u, T), T)
  BY DEF BytesOf, SumOver
<1>2. IsFiniteSet(S) /\ \A T \in SUBSET S : IsFiniteSet(T)
  BY RetentionAssumption, FS_Subset
<1>3. \A k \in S : f(table, S)[k] \in Nat /\ f(table, S)[k] = Size[table[k].result]
  BY RetentionAssumption
<1>4. \A T \in SUBSET S : \A k \in T : f(table, T)[k] = f(table, S)[k]
  OBVIOUS
<1>5. ASSUME NEW u, \A k \in S : u[k].result = table[k].result
      PROVE  \A k \in S : f(u, S)[k] = f(table, S)[k]
  BY <1>5
<1> HIDE DEF f
<1>6. BytesOf(table, S) \in Nat
  BY <1>1, <1>2, <1>3, SumNat
<1>11. BytesOf(table, {}) = 0
  BY <1>1, SumEmpty
<1>7. ASSUME NEW T \in SUBSET S PROVE BytesOf(table, T) = SumOver(f(table, S), T)
  <2>1. SumOver(f(table, T), T) = SumOver(f(table, S), T)
    BY <1>2, <1>4, SumSame
  <2> QED BY <2>1, <1>1
<1>8. \A T \in SUBSET S : BytesOf(table, T) <= BytesOf(table, S)
  <2> TAKE T \in SUBSET S
  <2>1. SumOver(f(table, S), T) <= SumOver(f(table, S), S)
    BY <1>2, <1>3, SumMonotone
  <2> QED BY <2>1, <1>1, <1>7
<1>9. \A k \in S : BytesOf(table, {k}) = Size[table[k].result]
  <2> TAKE k \in S
  <2> DEFINE g == f(table, S)
  <2>1. IsFiniteSet({k}) /\ k \in {k} /\ {k} \ {k} = {} /\ {k} \in SUBSET S
    BY FS_Singleton
  <2>2. \A x \in {k} : g[x] \in Nat
    BY <1>3
  <2> HIDE DEF g
  <2>3. SumOver(g, {k}) = g[k] + SumOver(g, {k} \ {k})
    BY <2>1, <2>2, SumRemove
  <2>4. SumOver(g, {k} \ {k}) = 0
    BY <2>1, SumEmpty
  <2>5. SumOver(g, {k}) = g[k]
    BY <2>2, <2>3, <2>4
  <2> QED BY <2>1, <2>5, <1>3, <1>7 DEF g
<1>10. ASSUME NEW u, \A k \in S : u[k].result = table[k].result
       PROVE  BytesOf(u, S) = BytesOf(table, S)
  <2>1. \A k \in S : f(u, S)[k] = f(table, S)[k]
    BY <1>5, <1>10
  <2>2. SumOver(f(u, S), S) = SumOver(f(table, S), S)
    BY <1>2, <2>1, SumSame
  <2> QED BY <2>2, <1>1
<1> QED BY <1>2, <1>6, <1>8, <1>9, <1>10, <1>11

\* Fewer completed rows fit as well.
LEMMA FitsLess ==
  ASSUME NEW table, NEW S \in SUBSET Keys, \A k \in S : table[k].result \in Results,
         Fits(table, S), NEW T \in SUBSET S
  PROVE  Fits(table, T)
<1>1. IsFiniteSet(S) /\ BytesOf(table, S) \in Nat /\ BytesOf(table, T) <= BytesOf(table, S)
  BY BytesFacts
<1>2. T \in SUBSET Keys /\ \A k \in T : table[k].result \in Results
  OBVIOUS
<1>3. BytesOf(table, T) \in Nat /\ IsFiniteSet(T)
  BY <1>2, BytesFacts
<1>4. Cardinality(T) <= Cardinality(S) /\ Cardinality(S) \in Nat /\ Cardinality(T) \in Nat
  BY <1>1, <1>3, FS_Subset, FS_CardinalityType
<1> QED BY <1>1, <1>3, <1>4, RetentionAssumption DEF Fits

\* What is left after making room fits, because the least recently used row that
\* is left fits together with everything used after it.
LEMMA EnforcedFits ==
  ASSUME NEW table \in [Keys -> Row \cup {Absent}], NEW order,
         \A k \in Done(table) : table[k].result \in Results,
         \A a \in Keys : <<a, a>> \notin order,
         \A a, b, c \in Keys : <<a, b>> \in order /\ <<b, c>> \in order => <<a, c>> \in order
  PROVE  LET E == EnforceTableLimits(table, order) IN Fits(E, Done(E))
<1> DEFINE D == Done(table)
           Above(k) == {x \in D : <<x, k>> \notin order}
           Kept == {k \in D : Fits(table, Above(k))}
           E == EnforceTableLimits(table, order)
<1>1. D \in SUBSET Keys /\ Kept \in SUBSET D
  BY DEF Done
<1>2. E = [k \in Keys |-> IF k \in D \ Kept THEN Absent ELSE table[k]]
  BY DEF EnforceTableLimits
<1>3. Done(E) = Kept
  <2>1. \A k \in Keys : k \in Done(E) <=> E[k] # Absent /\ E[k].status = "done"
    BY DEF Done
  <2>2. \A k \in Keys : k \in D <=> table[k] # Absent /\ table[k].status = "done"
    BY DEF Done
  <2>3. Done(E) \subseteq Keys
    BY DEF Done
  <2> HIDE DEF Kept, D, E
  <2>4. \A k \in Keys : k \in Done(E) <=> k \in Kept
    BY <1>1, <1>2, <2>1, <2>2
  <2> QED BY <1>1, <2>3, <2>4
<1>4. \A k \in Kept : E[k].result = table[k].result /\ table[k].result \in Results
  BY <1>1, <1>2
<1>5. Fits(table, Kept)
  <2>1. IsFiniteSet(Kept)
    BY <1>1, RetentionAssumption, FS_Subset
  <2>2. CASE Kept = {}
    <3>1. Cardinality(Kept) = 0
      BY <2>2, FS_EmptySet
    <3>2. BytesOf(table, Kept) = 0
      <4> HIDE DEF Kept
      <4>1. Kept \in SUBSET Keys /\ \A k \in Kept : table[k].result \in Results
        BY <2>2
      <4> QED BY <2>2, <4>1, BytesFacts
    <3> HIDE DEF Kept
    <3> QED BY <3>1, <3>2, RetentionAssumption DEF Fits
  <2>3. CASE Kept # {}
    <3>1. \E x \in Kept : \A y \in Kept : <<y, x>> \notin order
      <4>1. \A x \in Kept : <<x, x>> \notin order
        BY <1>1
      <4>2. \A x, y, z \in Kept : <<x, y>> \in order /\ <<y, z>> \in order => <<x, z>> \in order
        BY <1>1
      <4> HIDE DEF Kept
      <4> QED BY <2>1, <2>3, <4>1, <4>2, LeastOf
    <3>2. PICK x \in Kept : \A y \in Kept : <<y, x>> \notin order
      BY <3>1
    <3>3. Fits(table, Above(x)) /\ Kept \in SUBSET Above(x) /\ Above(x) \in SUBSET Keys
      BY <1>1, <3>2
    <3>4. \A k \in Above(x) : table[k].result \in Results
      OBVIOUS
    <3> HIDE DEF Above, Kept
    <3> QED BY <3>3, <3>4, FitsLess
  <2> QED BY <2>2, <2>3
<1>6. BytesOf(E, Kept) = BytesOf(table, Kept)
  <2> HIDE DEF Kept, E
  <2>1. Kept \in SUBSET Keys
    BY <1>1
  <2> QED BY <1>4, <2>1, BytesFacts
<1>7. Fits(E, Kept)
  BY <1>5, <1>6 DEF Fits
<1> QED BY <1>3, <1>7

\* Making room for the result of w keeps that result.
LEMMA EnforcedKeeps ==
  ASSUME NEW table \in [Keys -> Row \cup {Absent}], NEW k \in Done(table),
         table[k].result \in Results, Size[table[k].result] <= MaxBytes
  PROVE  EnforceTableLimits(table, Used(k))[k] = table[k]
<1> DEFINE D == Done(table)
           A == {x \in D : <<x, k>> \notin Used(k)}
<1>1. D \subseteq Keys /\ k \in Keys
  BY DEF Done
<1>2. \A x \in D : <<x, k>> \in Used(k) <=> x # k
  BY <1>1, UsedNowFacts
<1>3. A = {k}
  BY <1>2
<1>4. Cardinality({k}) = 1
  BY FS_Singleton
<1>5. BytesOf(table, {k}) = Size[table[k].result]
  <2>1. {k} \in SUBSET Keys /\ (\A x \in {k} : table[x].result \in Results) /\ k \in {k}
    BY <1>1
  <2> QED BY <2>1, BytesFacts
<1>6. Fits(table, A)
  <2> HIDE DEF A
  <2>1. Cardinality(A) = 1 /\ BytesOf(table, A) <= MaxBytes
    BY <1>3, <1>4, <1>5
  <2> QED BY <2>1, RetentionAssumption DEF Fits
<1> QED BY <1>1, <1>6 DEF EnforceTableLimits

\* A completion records its answer within the policy.
LEMMA CompleteRecords ==
  ASSUME IInv, OrderInv, NEW w \in Workers, Complete(w)
  PROVE  LET k == worker[w].key
         IN  /\ rows'[k] # Absent /\ rows'[k].status = "done"
             /\ rows'[k].result = worker[w].result
             /\ Fits(rows', Done(rows'))
<1> DEFINE y == worker[w]
           k == y.key
           r == DoneRow(w)
           table == [rows EXCEPT ![k] = r]
           order == Used(k)
           E == EnforceTableLimits(table, order)
<1>1. /\ y \in WorkerState /\ y.age \in Nat /\ k \in Keys /\ y.digest \in Digests
      /\ y.pc = "completing"
  BY AtWork DEF Complete
<1>2. y.result \in Results
  BY <1>1 DEF IInv, PhaseInv, Sound
<1>3. r \in Row /\ r.status = "done" /\ r.result = y.result
  BY <1>1, <1>2, RetentionAssumption DEF DoneRow, Row
<1>4. rows \in [Keys -> Row \cup {Absent}]
  BY DEF IInv, TypeOK
<1>5. rows' = E /\ Size[y.result] <= MaxBytes
  BY DEF Complete
<1> HIDE DEF r, y
<1>6. /\ table \in [Keys -> Row \cup {Absent}] /\ table[k] = r
      /\ \A j \in Keys \ {k} : table[j] = rows[j]
  BY <1>1, <1>3, <1>4
<1> HIDE DEF table
<1>7. k \in Done(table) /\ r # Absent
  BY <1>1, <1>3, <1>6, AbsentIsNoRow DEF Done
<1>8. E[k] = r
  BY <1>2, <1>3, <1>5, <1>6, <1>7, EnforcedKeeps
<1>9. \A j \in Done(table) : table[j].result \in Results
  <2> TAKE j \in Done(table)
  <2>1. j \in Keys /\ table[j] # Absent /\ table[j].status = "done"
    BY DEF Done
  <2>2. CASE j = k
    BY <2>2, <1>2, <1>3, <1>6
  <2>3. CASE j # k
    BY <2>1, <2>3, <1>6 DEF IInv, RowInv
  <2> QED BY <2>2, <2>3
<1>10. /\ \A a \in Keys : <<a, a>> \notin order
       /\ \A a, b, c \in Keys : <<a, b>> \in order /\ <<b, c>> \in order => <<a, c>> \in order
  <2>1. \A a, b \in Keys : <<a, b>> \in order <=> \/ <<a, b>> \in older /\ a # k /\ b # k
                                                  \/ a # k /\ b = k
    BY <1>1, UsedNowFacts
  <2> HIDE DEF order
  <2> QED BY <2>1 DEF OrderInv
<1> HIDE DEF order
<1>11. Fits(E, Done(E))
  BY <1>6, <1>9, <1>10, EnforcedFits
<1> HIDE DEF E
<1>12. Fits(rows', Done(rows'))
  BY <1>5, <1>11
<1> QED BY <1>3, <1>5, <1>7, <1>8, <1>12 DEF y

\* For every retention policy and every number of keys: a successful answer that
\* the policy can retain is in the table after the step that gives it, and the
\* completed rows are then within the entries and the bytes of the policy
\* (complete_idempotency, complete_replay, enforce_table_limits).
THEOREM AnswersAreRecorded == Spec => AnswerIsRecorded
<1> DEFINE Recorded(w) ==
             LET k == worker[w].key
             IN  (answers' # answers /\ worker[w].pc = "completing" /\ worker'[w].pc = "idle"
                    /\ Size[worker[w].result] <= MaxBytes)
                 => /\ rows'[k] # Absent /\ rows'[k].status = "done"
                    /\ rows'[k].result = worker[w].result
                    /\ Fits(rows', Done(rows'))
<1>1. ASSUME IInv, OrderInv, [Next]_vars, NEW w \in Workers PROVE Recorded(w)
  <2> SUFFICES ASSUME answers' # answers, worker[w].pc = "completing", worker'[w].pc = "idle",
                      Size[worker[w].result] <= MaxBytes
               PROVE  Complete(w)
    BY <1>1, CompleteRecords
  <2>1. worker \in [Workers -> WorkerState]
    BY <1>1 DEF IInv, TypeOK
  <2>2. PICK v \in Workers : Replay(v) \/ Complete(v) \/ CompleteOversized(v)
    BY <1>1 DEF Next, Tick, vars, Request, Work, Arrive, Decide, Conflict, InProgress, Execute,
       Returns, Effect, Fail, Abort, Crash
  <2>3. worker' = [worker EXCEPT ![v] = Idle]
    BY <2>2 DEF Replay, Complete, CompleteOversized
  <2>4. v = w
    BY <2>1, <2>3
  <2>5. Size[worker[w].result] \in Nat
    <3>1. worker[w].result \in Results
      BY <1>1 DEF IInv, PhaseInv, Sound
    <3> QED BY <3>1, RetentionAssumption
  <2>6. ~Replay(v) /\ ~CompleteOversized(v)
    BY <2>4, <2>5, RetentionAssumption DEF Replay, CompleteOversized
  <2> QED BY <2>2, <2>4, <2>6
<1>2. IInv /\ OrderInv /\ [Next]_vars => [\A w \in Workers : Recorded(w)]_vars
  BY <1>1
<1>3. Init => OrderInv
  BY DEF Init, OrderInv
<1> QED BY <1>2, <1>3, StepOrder, Invariance, PTL DEF Spec, AnswerIsRecorded
=============================================================================
