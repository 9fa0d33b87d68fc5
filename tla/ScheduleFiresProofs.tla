------------------------ MODULE ScheduleFiresProofs ------------------------
(***************************************************************************)
(* Proofs about ScheduleFires, for every set of policies, every instant    *)
(* range and any number of hosts.  The heart is FireInv: whatever was ever *)
(* materialized lies at or below the cursor, and a tick only materializes  *)
(* what lies above it, so a row that retention forgot cannot come back.    *)
(***************************************************************************)
EXTENDS ScheduleFires, TLAPS

-----------------------------------------------------------------------------
(* Arithmetic                                                              *)

\* Division by a positive number brackets its dividend.
LEMMA Division ==
  ASSUME NEW a \in Nat, NEW b \in Nat \ {0}
  PROVE  a \div b \in Nat /\ (a \div b) * b <= a /\ a < (a \div b) * b + b
<1>1. a \div b \in Nat
  OBVIOUS
<1>2. (a \div b) * b <= a
  OBVIOUS
<1>3. a < (a \div b) * b + b
  OBVIOUS
<1> QED BY <1>1, <1>2, <1>3

\* A multiple divides into its factor.
LEMMA Multiples ==
  ASSUME NEW b \in Nat \ {0}
  PROVE  /\ \A i \in Nat : (i * b) % b = 0
         /\ \A a \in Nat : a % b = 0 => a = (a \div b) * b
<1>1. ASSUME NEW i \in Nat PROVE (i * b) % b = 0
  OBVIOUS
<1>2. ASSUME NEW a \in Nat, a % b = 0 PROVE a = (a \div b) * b
  BY <1>2
<1> QED BY <1>1, <1>2

\* Multiples of a positive number are ordered as their factors are.
LEMMA TimesOrder ==
  ASSUME NEW b \in Nat \ {0}, NEW i \in Int, NEW j \in Int
  PROVE  /\ i * b \in Int /\ (i + 1) * b = i * b + b
         /\ i <= j => i * b <= j * b
         /\ i < j => i * b + b <= j * b
<1>1. i * b \in Int /\ (i + 1) * b = i * b + b
  OBVIOUS
<1>2. ASSUME i <= j PROVE i * b <= j * b
  BY <1>2
<1>3. ASSUME i < j PROVE i * b + b <= j * b
  BY <1>3
<1> QED BY <1>1, <1>2, <1>3

\* The multiple after a truncated quotient lies above the dividend, also when
\* the dividend is negative and the quotient was truncated upward.
LEMMA TruncAfter ==
  ASSUME NEW a \in Int, NEW b \in Nat \ {0}
  PROVE  /\ TruncDiv(a, b) \in Int /\ TruncDiv(a, b) * b + b > a
         /\ a >= 0 => TruncDiv(a, b) * b <= a
<1>1. CASE a >= 0
  <2>1. a \in Nat /\ TruncDiv(a, b) = a \div b
    BY <1>1 DEF TruncDiv
  <2> QED BY <2>1, Division
<1>2. CASE a < 0
  <2> DEFINE c == -a
             q == c \div b
  <2>1. c \in Nat /\ TruncDiv(a, b) = -q
    BY <1>2 DEF TruncDiv
  <2>2. q \in Nat /\ q * b <= c
    BY <2>1, Division
  <2>3. (-q) * b = -(q * b)
    BY <2>2
  <2> DEFINE m == q * b
  <2>4. m \in Int
    BY <2>2
  <2> HIDE DEF m, q
  <2>5. -m + b > a
    BY <1>2, <2>2, <2>4 DEF m
  <2> QED BY <1>2, <2>1, <2>2, <2>3, <2>5 DEF m
<1> QED BY <1>1, <1>2

\* A backoff is a number and at most the policy's largest.
LEMMA BackoffBounded ==
  ASSUME NEW p, p.backoff \in Nat, p.max_backoff \in Nat, NEW a \in Nat
  PROVE  BackoffFor(p, a) \in Nat /\ BackoffFor(p, a) <= p.max_backoff
<1> DEFINE e == IF a = 0 THEN 0 ELSE IF a - 1 > 16 THEN 16 ELSE a - 1
           delay == p.backoff * Pow2[e + 1]
<1>1. e \in 0 .. 16
  OBVIOUS
<1>2. \A n \in 0 .. 16 : Pow2[n + 1] \in Nat
  BY SMT DEF Pow2
<1>3. Pow2[e + 1] \in Nat
  BY <1>1, <1>2
<1>4. \A x, y \in Nat : x * y \in Nat
  OBVIOUS
<1>5. delay \in Nat
  BY <1>3, <1>4, Zenon
<1>6. BackoffFor(p, a) = IF delay < p.max_backoff THEN delay ELSE p.max_backoff
  BY DEF BackoffFor
<1> HIDE DEF delay
<1> QED BY <1>5, <1>6

-----------------------------------------------------------------------------
(* Occurrences                                                             *)

\* The fields of the running policy.
LEMMA PolicyFacts ==
  ASSUME TypeOK
  PROVE  /\ policy.interval \in Nat \ {0} /\ policy.start \in Nat
         /\ policy.max_catch_up \in Nat \ {0} /\ policy.max_attempts \in Nat \ {0}
         /\ policy.lease \in Nat /\ policy.backoff \in Nat /\ policy.max_backoff \in Nat
         /\ policy.retention \in Nat /\ policy.max_retained_fires \in Nat
  BY ScheduleAssumption DEF TypeOK, SchedulePolicy

\* Instants are numbers.
LEMMA InstantFacts == \A d : d \in Instants <=> d \in Int /\ 0 <= d /\ d <= MaxInstant
  BY ScheduleAssumption DEF Instants

\* Occurrences are ordered as their indexes are, one interval apart at least.
LEMMA OccurrenceOrder ==
  ASSUME TypeOK, NEW i \in Int, NEW j \in Int
  PROVE  /\ OccurrenceInstant(i) \in Int
         /\ OccurrenceInstant(i + 1) = OccurrenceInstant(i) + policy.interval
         /\ i <= j => OccurrenceInstant(i) <= OccurrenceInstant(j)
         /\ i < j => OccurrenceInstant(i) < OccurrenceInstant(j)
<1> DEFINE b == policy.interval
           x == i * b
           y == j * b
<1>1. b \in Nat \ {0} /\ policy.start \in Nat
  BY PolicyFacts
<1> HIDE DEF b
<1>2. /\ x \in Int /\ y \in Int /\ (i + 1) * b = x + b
      /\ i <= j => x <= y
      /\ i < j => x + b <= y
  BY <1>1, TimesOrder
<1>3. /\ OccurrenceInstant(i) = policy.start + x /\ OccurrenceInstant(j) = policy.start + y
  BY DEF OccurrenceInstant, b
<1>4. OccurrenceInstant(i + 1) = policy.start + (x + b)
  BY <1>2 DEF OccurrenceInstant, b
<1>5. /\ x \in Int /\ y \in Int
      /\ i <= j => x <= y
      /\ i < j => x + b <= y
  BY <1>2
<1> HIDE DEF x, y
<1>6. /\ policy.start + x \in Int
      /\ policy.start + (x + b) = (policy.start + x) + b
      /\ i <= j => policy.start + x <= policy.start + y
      /\ i < j => policy.start + x < policy.start + y
  BY <1>1, <1>5
<1> QED BY <1>3, <1>4, <1>6 DEF b

\* The current occurrence is the last one at or before now.
LEMMA CurrentFacts ==
  ASSUME TypeOK, NEW now \in Instants, now >= policy.start
  PROVE  /\ CurrentIndex(now) \in Nat
         /\ OccurrenceInstant(CurrentIndex(now)) >= policy.start
         /\ OccurrenceInstant(CurrentIndex(now)) <= now
         /\ now < OccurrenceInstant(CurrentIndex(now)) + policy.interval
<1> DEFINE b == policy.interval
           a == now - policy.start
           q == a \div b
           x == q * b
<1>1. b \in Nat \ {0} /\ policy.start \in Nat /\ now \in Nat
  BY PolicyFacts, InstantFacts
<1>2. a \in Nat
  BY <1>1
<1> HIDE DEF a, b
<1>3. q \in Nat /\ x <= a /\ a < x + b
  BY <1>1, <1>2, Division
<1>4. x \in Nat
  BY <1>1, <1>3
<1>5. CurrentIndex(now) = q /\ OccurrenceInstant(CurrentIndex(now)) = policy.start + x
  BY DEF CurrentIndex, OccurrenceInstant, a, b
<1> HIDE DEF x, q
<1> QED BY <1>1, <1>2, <1>3, <1>4, <1>5 DEF a, b

\* The first occurrence considered lies above the cursor; from a cursor at or
\* after the start it is the very next one.
LEMMA FirstFacts ==
  ASSUME TypeOK, NEW now \in Instants, cursor # NoCursor
  PROVE  /\ FirstIndex(now) \in Int /\ OccurrenceInstant(FirstIndex(now)) > cursor
         /\ cursor >= policy.start =>
              OccurrenceInstant(FirstIndex(now)) <= cursor + policy.interval
<1> DEFINE b == policy.interval
           a == cursor - policy.start
           q == TruncDiv(a, b)
           x == q * b
<1>1. b \in Nat \ {0} /\ policy.start \in Nat /\ cursor \in Nat
  BY PolicyFacts, InstantFacts DEF TypeOK
<1>2. a \in Int
  BY <1>1
<1>3. cursor >= policy.start => a >= 0
  BY <1>1
<1> HIDE DEF a, b
<1>4. q \in Int /\ x + b > a /\ (a >= 0 => x <= a)
  BY <1>1, <1>2, TruncAfter
<1>5. x \in Int /\ (q + 1) * b = x + b
  BY <1>1, <1>4, TimesOrder
<1>6. FirstIndex(now) = q + 1
  BY DEF FirstIndex, a, b
<1>7. OccurrenceInstant(FirstIndex(now)) = policy.start + (x + b)
  BY <1>5, <1>6 DEF OccurrenceInstant, b
<1> HIDE DEF x, q
<1>8. FirstIndex(now) \in Int
  BY <1>4, <1>6
<1>9. policy.start + (x + b) > cursor
  BY <1>1, <1>4, <1>5 DEF a
<1>10. cursor >= policy.start => policy.start + (x + b) <= cursor + b
  BY <1>1, <1>3, <1>4, <1>5 DEF a
<1> QED BY <1>7, <1>8, <1>9, <1>10 DEF b

\* The indexes a tick works with.
LEMMA DueIndexes ==
  ASSUME TypeOK, NEW now \in Instants, ~NothingDue(now)
  PROVE  /\ now >= policy.start
         /\ FirstIndex(now) \in Int /\ CatchUpFrom(now) \in Int /\ CurrentIndex(now) \in Int
         /\ FirstIndex(now) <= CatchUpFrom(now) /\ CatchUpFrom(now) <= CurrentIndex(now)
         /\ cursor = NoCursor => CatchUpFrom(now) = CurrentIndex(now)
<1>1. policy.start \in Nat /\ policy.max_catch_up \in Nat \ {0} /\ now \in Nat
  BY PolicyFacts, InstantFacts
<1>2. now >= policy.start /\ ~(FirstIndex(now) > CurrentIndex(now))
  BY <1>1 DEF NothingDue
<1>3. CurrentIndex(now) \in Nat
  BY <1>2, CurrentFacts
<1>4. FirstIndex(now) \in Int
  <2>1. CASE cursor = NoCursor
    BY <2>1, <1>3 DEF FirstIndex
  <2>2. CASE cursor # NoCursor
    BY <2>2, FirstFacts
  <2> QED BY <2>1, <2>2
<1>5. CatchUpFrom(now) = IF CurrentIndex(now) - policy.max_catch_up + 1 > FirstIndex(now)
                         THEN CurrentIndex(now) - policy.max_catch_up + 1 ELSE FirstIndex(now)
  BY DEF CatchUpFrom
<1>6. cursor = NoCursor => FirstIndex(now) = CurrentIndex(now)
  BY DEF FirstIndex
<1> QED BY <1>1, <1>2, <1>3, <1>4, <1>5, <1>6

\* What a tick materializes lies above the cursor, and the cursor moves up to
\* the last of it.
LEMMA DueFacts ==
  ASSUME TypeOK, NEW now \in Instants
  PROVE  /\ \A d \in DueNow(now) :
              /\ d \in Instants /\ d <= OccurrenceInstant(CurrentIndex(now)) /\ ~NothingDue(now)
              /\ cursor # NoCursor => d > cursor
         /\ ~NothingDue(now) =>
              /\ OccurrenceInstant(CurrentIndex(now)) \in Instants
              /\ cursor # NoCursor => OccurrenceInstant(CurrentIndex(now)) > cursor
<1> DEFINE c == CurrentIndex(now)
<1>1. CASE NothingDue(now)
  BY <1>1 DEF DueNow
<1>2. CASE ~NothingDue(now)
  <2>1. /\ now >= policy.start /\ FirstIndex(now) \in Int /\ CatchUpFrom(now) \in Int /\ c \in Int
        /\ FirstIndex(now) <= CatchUpFrom(now) /\ CatchUpFrom(now) <= c
        /\ cursor = NoCursor => CatchUpFrom(now) = c
    BY <1>2, DueIndexes
  <2>2. OccurrenceInstant(c) >= policy.start /\ OccurrenceInstant(c) <= now
    BY <2>1, CurrentFacts
  <2>3. OccurrenceInstant(c) \in Int
    BY <2>1, OccurrenceOrder
  <2>4. now \in Nat /\ now <= MaxInstant /\ MaxInstant \in Nat /\ policy.start \in Nat
    BY InstantFacts, PolicyFacts, ScheduleAssumption
  <2>5. OccurrenceInstant(c) \in Instants
    BY <2>2, <2>3, <2>4, InstantFacts
  <2>6. cursor # NoCursor => cursor \in Nat /\ OccurrenceInstant(FirstIndex(now)) > cursor
    BY FirstFacts, InstantFacts DEF TypeOK
  <2>7. ASSUME NEW i \in CatchUpFrom(now) .. c
        PROVE  /\ OccurrenceInstant(i) \in Instants /\ OccurrenceInstant(i) <= OccurrenceInstant(c)
               /\ cursor # NoCursor => OccurrenceInstant(i) > cursor
    <3>1. i \in Int /\ i <= c /\ FirstIndex(now) <= i
      BY <2>1
    <3>2. OccurrenceInstant(i) \in Int /\ OccurrenceInstant(i) <= OccurrenceInstant(c)
      BY <2>1, <3>1, OccurrenceOrder
    <3>3. /\ OccurrenceInstant(FirstIndex(now)) \in Int
          /\ OccurrenceInstant(FirstIndex(now)) <= OccurrenceInstant(i)
      BY <2>1, <3>1, OccurrenceOrder
    <3>4. CASE cursor = NoCursor
      <4>1. i = c
        BY <2>1, <3>1, <3>4
      <4> QED BY <4>1, <2>5, <3>2, <3>4
    <3>5. CASE cursor # NoCursor
      <4>1. OccurrenceInstant(i) > cursor /\ cursor \in Nat
        BY <2>6, <3>2, <3>3, <3>5
      <4> QED BY <4>1, <2>2, <2>3, <2>4, <3>2, InstantFacts
    <3> QED BY <3>4, <3>5
  <2>8. DueNow(now) = {OccurrenceInstant(i) : i \in CatchUpFrom(now) .. c}
    BY <1>2 DEF DueNow
  <2>9. cursor # NoCursor => OccurrenceInstant(c) > cursor
    <3>1. c \in CatchUpFrom(now) .. c
      BY <2>1
    <3> QED BY <3>1, <2>7
  <2> QED BY <1>2, <2>5, <2>7, <2>8, <2>9
<1> QED BY <1>1, <1>2

-----------------------------------------------------------------------------
(* The inductive invariant                                                 *)

\* What the tables and the history say of one due instant.
FireSound(d) ==
    /\ created[d] = 0 => fires[d] = NoFire /\ delivered[d] = 0 /\ committed[d] = 0
    /\ created[d] > 0 => cursor # NoCursor /\ d <= cursor
    /\ created[d] <= 1
    /\ committed[d] <= 1
    /\ committed[d] = 1 /\ fires[d] # NoFire => fires[d].status = "done"
    /\ fires[d] # NoFire => fires[d].attempts = delivered[d]
    /\ \E p \in Policies : delivered[d] <= p.max_attempts

FireInv == \A d \in Instants : FireSound(d)

IInv == TypeOK /\ FireInv

\* A step that leaves the table, the counters and the cursor alone.
LEMMA QuietStep ==
  ASSUME IInv, UNCHANGED <<tableVars, history>>, policy' \in Policies,
         worker' \in [Workers -> WorkerState], lastOwner' \in Nat
  PROVE  IInv'
<1>1. TypeOK'
  BY DEF IInv, TypeOK, tableVars, history
<1>2. FireInv'
  BY DEF IInv, FireInv, FireSound, tableVars, history
<1> QED BY <1>1, <1>2 DEF IInv

\* The idle record is a worker's.
LEMMA IdleType == Idle \in WorkerState
  BY ScheduleAssumption DEF Idle, WorkerState, Instants

\* Retention only takes fires away.
LEMMA CleanupKeeps ==
  ASSUME TypeOK, NEW now
  PROVE  LET kept == CleanupScheduleFires(fires, now)
         IN  /\ kept \in [Instants -> FireRow \cup {NoFire}]
             /\ \A d \in Instants : kept[d] \in {NoFire, fires[d]}
<1> DEFINE aged == [d \in Instants |->
                      IF d \in Terminal(fires) /\ fires[d].updated_at + policy.retention <= now
                      THEN NoFire ELSE fires[d]]
           kept == CleanupScheduleFires(fires, now)
<1>1. /\ aged \in [Instants -> FireRow \cup {NoFire}]
      /\ \A d \in Instants : aged[d] \in {NoFire, fires[d]}
  BY DEF TypeOK
<1>2. kept = [d \in Instants |->
           IF /\ d \in Terminal(aged)
              /\ Cardinality({e \in Terminal(aged) : e > d}) >= policy.max_retained_fires
           THEN NoFire ELSE aged[d]]
  BY DEF CleanupScheduleFires
<1> HIDE DEF aged
<1>3. kept \in [Instants -> FireRow \cup {NoFire}]
  BY <1>1, <1>2
<1>4. \A d \in Instants : kept[d] \in {NoFire, aged[d]}
  BY <1>2
<1> HIDE DEF kept
<1>5. \A d \in Instants : kept[d] \in {NoFire, fires[d]}
  BY <1>1, <1>4
<1> QED BY <1>3, <1>5 DEF kept

\* A tick materializes every instant above the cursor once.
LEMMA TickInv ==
  ASSUME IInv, NEW w \in Workers, NEW now \in Instants, NEW at \in Instants, Tick(w, now, at)
  PROVE  IInv'
<1> DEFINE kept == CleanupScheduleFires(fires, now)
           inserted == {d \in DueNow(now) : kept[d] = NoFire}
<1>1. TypeOK
  BY DEF IInv
<1>2. /\ fires' = [d \in Instants |-> IF d \in inserted THEN NewFire(d, now) ELSE kept[d]]
      /\ cursor' = IF NothingDue(now) THEN cursor ELSE OccurrenceInstant(CurrentIndex(now))
      /\ created' = [d \in Instants |-> IF d \in inserted THEN created[d] + 1 ELSE created[d]]
      /\ policy' = policy /\ lastOwner' = lastOwner
      /\ delivered' = delivered /\ committed' = committed /\ accounted' \in BOOLEAN
  BY DEF Tick, MaterializeSchedule
<1>3. /\ kept \in [Instants -> FireRow \cup {NoFire}]
      /\ \A d \in Instants : kept[d] \in {NoFire, fires[d]}
  BY <1>1, CleanupKeeps
<1>4. \A d \in inserted : /\ d \in Instants /\ d <= OccurrenceInstant(CurrentIndex(now))
                          /\ ~NothingDue(now) /\ (cursor # NoCursor => d > cursor)
  BY <1>1, DueFacts
<1>5. ~NothingDue(now) => /\ OccurrenceInstant(CurrentIndex(now)) \in Instants
                          /\ cursor # NoCursor => OccurrenceInstant(CurrentIndex(now)) > cursor
  BY <1>1, DueFacts
<1>6. \A d \in Instants : NewFire(d, now) \in FireRow /\ NewFire(d, now).attempts = 0
  BY ScheduleAssumption DEF NewFire, FireRow, Statuses, Instants
<1>7. worker' \in [Workers -> WorkerState]
  <2>1. [Idle EXCEPT !.pc = "ticked", !.clock = at] \in WorkerState
    BY IdleType DEF WorkerState
  <2> QED BY <1>1, <2>1 DEF Tick, TypeOK
<1>8. \A d \in Instants : created[d] \in Nat /\ delivered[d] \in Nat /\ committed[d] \in Nat
  BY <1>1 DEF TypeOK
<1>9. cursor' \in Instants \cup {NoCursor} /\ (cursor # NoCursor => cursor' # NoCursor /\ cursor' >= cursor)
  <2>1. cursor \in Instants \cup {NoCursor} /\ NoCursor \notin Instants
    BY <1>1, ScheduleAssumption DEF TypeOK, Instants
  <2> QED BY <2>1, <1>2, <1>5, InstantFacts
<1> HIDE DEF inserted, kept
<1>10. TypeOK'
  <2>1. fires' \in [Instants -> FireRow \cup {NoFire}]
    BY <1>2, <1>3, <1>6
  <2>2. created' \in [Instants -> Nat]
    BY <1>2, <1>8
  <2> QED BY <1>1, <1>2, <1>7, <1>9, <2>1, <2>2 DEF TypeOK
<1>11. FireInv'
  <2> SUFFICES ASSUME NEW d \in Instants PROVE FireSound(d)'
    BY DEF FireInv
  <2>1. FireSound(d)
    BY DEF IInv, FireInv
  <2>2. CASE d \in inserted
    <3>1. created[d] = 0
      <4>1. created[d] > 0 => d <= cursor /\ d > cursor /\ cursor \in Int /\ d \in Int
        BY <2>1, <2>2, <1>1, <1>4, InstantFacts DEF FireSound, TypeOK
      <4> QED BY <4>1, <1>8
    <3>2. delivered[d] = 0 /\ committed[d] = 0
      BY <2>1, <3>1 DEF FireSound
    <3>3. created'[d] = 1 /\ fires'[d] = NewFire(d, now) /\ fires'[d].attempts = 0
      BY <2>2, <3>1, <1>2, <1>6
    <3>4. cursor' # NoCursor /\ d <= cursor'
      <4>1. cursor' = OccurrenceInstant(CurrentIndex(now)) /\ cursor' \in Instants
        BY <2>2, <1>2, <1>4, <1>5
      <4>2. NoCursor \notin Instants
        BY ScheduleAssumption DEF Instants
      <4> QED BY <4>1, <4>2, <2>2, <1>4
    <3>5. \E p \in Policies : delivered'[d] <= p.max_attempts
      BY <2>1, <1>2 DEF FireSound
    <3> QED BY <3>2, <3>3, <3>4, <3>5, <1>2 DEF FireSound
  <2>3. CASE d \notin inserted
    <3>1. /\ created'[d] = created[d] /\ fires'[d] \in {NoFire, fires[d]}
          /\ delivered'[d] = delivered[d] /\ committed'[d] = committed[d]
      BY <2>3, <1>2, <1>3
    <3>2. created[d] > 0 => cursor' # NoCursor /\ d <= cursor'
      <4> SUFFICES ASSUME created[d] > 0 PROVE cursor' # NoCursor /\ d <= cursor'
        OBVIOUS
      <4>1. cursor # NoCursor /\ d <= cursor
        BY <2>1 DEF FireSound
      <4>2. cursor \in Int /\ cursor' \in Int /\ d \in Int /\ cursor' >= cursor /\ cursor' # NoCursor
        BY <4>1, <1>1, <1>9, InstantFacts DEF TypeOK
      <4> QED BY <4>1, <4>2
    <3> QED BY <2>1, <3>1, <3>2 DEF FireSound
  <2> QED BY <2>2, <2>3
<1> QED BY <1>10, <1>11 DEF IInv

\* What a reservation makes of the rows it meets.
LEMMA ReservedRows ==
  ASSUME TypeOK, NEW now \in Instants, NEW d \in Instants, NEW owner \in Owners,
         fires[d] # NoFire, fires[d].status = "pending", Preflight(now)
  PROVE  /\ DeadFire(d, now) \in FireRow /\ DeadFire(d, now).attempts = fires[d].attempts
         /\ LeasedFire(d, owner, now) \in FireRow
         /\ LeasedFire(d, owner, now).attempts = fires[d].attempts + 1
         /\ fires[d].attempts \in Nat
<1>1. fires[d] \in FireRow
  BY DEF TypeOK
<1>2. 0 \in Instants /\ now + policy.lease \in Instants
  BY PolicyFacts, InstantFacts, ScheduleAssumption DEF Preflight
<1>3. fires[d].attempts \in Nat /\ fires[d].attempts + 1 \in Nat
  BY <1>1 DEF FireRow
<1>4. DeadFire(d, now) \in FireRow /\ DeadFire(d, now).attempts = fires[d].attempts
  BY <1>1, <1>2 DEF DeadFire, FireRow, Statuses
<1> DEFINE a == fires[d].attempts + 1
           u == now + policy.lease
<1>5. LeasedFire(d, owner, now) = [fires[d] EXCEPT !.attempts = a, !.owner = owner,
                                                   !.lease_until = u, !.updated_at = now]
  BY DEF LeasedFire
<1> HIDE DEF a, u
<1>6. a \in Nat /\ u \in Instants
  BY <1>2, <1>3 DEF a, u
<1>7. LeasedFire(d, owner, now) \in FireRow /\ LeasedFire(d, owner, now).attempts = a
  BY <1>1, <1>5, <1>6 DEF FireRow
<1> QED BY <1>3, <1>4, <1>7 DEF a

\* A reservation hands out within the budget of the running policy.
LEMMA ReserveInv ==
  ASSUME IInv, NEW w \in Workers, Reserve(w)
  PROVE  IInv'
<1> DEFINE now == worker[w].clock
           o == lastOwner + 1
           D == Deliverable(now)
           T == Terminalized(now)
<1>1. TypeOK /\ worker[w] \in WorkerState /\ now \in Instants /\ o \in Owners /\ lastOwner \in Nat
  BY DEF IInv, TypeOK, WorkerState, Owners
<1>2. /\ fires' = [d \in Instants |-> IF d \in T THEN DeadFire(d, now)
                                      ELSE IF d \in D THEN LeasedFire(d, o, now) ELSE fires[d]]
      /\ cursor' = cursor /\ policy' = policy /\ created' = created /\ committed' = committed
      /\ accounted' = accounted /\ Preflight(now)
      /\ delivered' = [d \in Instants |-> IF d \in D THEN delivered[d] + 1 ELSE delivered[d]]
      /\ lastOwner' = IF D = {} THEN lastOwner ELSE lastOwner + 1
  BY DEF Reserve, ReserveScheduleFire
<1>3. \A d \in T \cup D : /\ d \in Instants /\ fires[d] # NoFire /\ fires[d].status = "pending"
                          /\ d \in T <=> Exhausted(d)
                          /\ d \in D <=> ~Exhausted(d)
  BY DEF Terminalized, Deliverable, Scanned, Eligible
<1>4. \A d \in T \cup D :
         /\ DeadFire(d, now) \in FireRow /\ DeadFire(d, now).attempts = fires[d].attempts
         /\ LeasedFire(d, o, now) \in FireRow
         /\ LeasedFire(d, o, now).attempts = fires[d].attempts + 1
         /\ fires[d].attempts \in Nat
  <2> TAKE d \in T \cup D
  <2>1. d \in Instants /\ fires[d] # NoFire /\ fires[d].status = "pending"
    BY <1>3
  <2> HIDE DEF now, o
  <2> QED BY <2>1, <1>1, <1>2, ReservedRows
<1>5. worker' \in [Workers -> WorkerState]
  <2>1. worker' = [worker EXCEPT ![w] =
               IF D = {} THEN Idle
               ELSE [pc |-> "running", due |-> CHOOSE d \in D : TRUE, owner |-> o, clock |-> now]]
    BY DEF Reserve
  <2>2. D # {} => (CHOOSE d \in D : TRUE) \in Instants
    BY <1>3
  <2> HIDE DEF D, now, o
  <2>3. D # {} => [pc |-> "running", due |-> CHOOSE d \in D : TRUE, owner |-> o, clock |-> now]
                     \in WorkerState
    BY <2>2, <1>1 DEF WorkerState
  <2> QED BY <2>1, <2>3, <1>1, IdleType DEF TypeOK
<1> HIDE DEF D, T, now, o
<1>6. fires' \in [Instants -> FireRow \cup {NoFire}]
  BY <1>1, <1>2, <1>4 DEF TypeOK
<1>7. TypeOK'
  <2>1. delivered' \in [Instants -> Nat] /\ lastOwner' \in Nat
    BY <1>1, <1>2 DEF TypeOK
  <2> QED BY <1>1, <1>2, <1>5, <1>6, <2>1 DEF TypeOK
<1>8. FireInv'
  <2> SUFFICES ASSUME NEW d \in Instants PROVE FireSound(d)'
    BY DEF FireInv
  <2>1. FireSound(d)
    BY DEF IInv, FireInv
  <2>2. CASE d \notin T \cup D
    <3>1. fires'[d] = fires[d] /\ delivered'[d] = delivered[d]
      BY <2>2, <1>2
    <3> QED BY <2>1, <3>1, <1>2 DEF FireSound
  <2>3. CASE d \in T \cup D
    <3>1. /\ fires[d] # NoFire /\ fires[d].status = "pending" /\ fires[d].attempts = delivered[d]
          /\ created[d] # 0 /\ committed[d] # 1
      BY <2>1, <2>3, <1>3 DEF FireSound
    <3>2. CASE d \in T
      <4>1. d \notin D
        BY <2>3, <3>2, <1>3
      <4>2. fires'[d].attempts = fires[d].attempts /\ delivered'[d] = delivered[d]
        BY <3>2, <4>1, <1>2, <1>4
      <4> QED BY <2>1, <3>1, <4>2, <1>2 DEF FireSound
    <3>3. CASE d \in D /\ d \notin T
      <4>1. /\ fires'[d].attempts = fires[d].attempts + 1 /\ delivered'[d] = delivered[d] + 1
            /\ fires[d].attempts \in Nat
        BY <3>3, <1>2, <1>4
      <4>2. ~(fires[d].attempts + 1 > policy.max_attempts)
        BY <3>3, <1>3 DEF Exhausted
      <4>3. policy.max_attempts \in Nat /\ policy \in Policies
        BY <1>1, PolicyFacts DEF TypeOK
      <4>4. delivered'[d] <= policy.max_attempts
        BY <3>1, <4>1, <4>2, <4>3
      <4>5. fires'[d].attempts = delivered'[d]
        BY <3>1, <4>1
      <4> QED BY <2>1, <3>1, <4>3, <4>4, <4>5, <1>2 DEF FireSound
    <3> QED BY <2>3, <3>2, <3>3
  <2> QED BY <2>2, <2>3
<1> QED BY <1>7, <1>8 DEF IInv

\* A committed outcome ends its fire.
LEMMA CommitInv ==
  ASSUME IInv, NEW w \in Workers, NEW now \in Instants, CommitOutcome(w, now)
  PROVE  IInv'
<1> DEFINE k == worker[w].due
           row == [fires[k] EXCEPT !.status = "done", !.owner = NoOwner, !.lease_until = 0,
                                   !.updated_at = now]
<1>1. TypeOK /\ worker[w] \in WorkerState /\ k \in Instants
  BY DEF IInv, TypeOK, WorkerState
<1>2. /\ fires[k] # NoFire /\ fires[k].status = "pending"
      /\ fires' = [fires EXCEPT ![k].status = "done", ![k].owner = NoOwner,
                                ![k].lease_until = 0, ![k].updated_at = now]
      /\ cursor' = cursor /\ policy' = policy /\ lastOwner' = lastOwner
      /\ worker' = [worker EXCEPT ![w] = Idle]
      /\ committed' = [committed EXCEPT ![k] = @ + 1]
      /\ created' = created /\ delivered' = delivered /\ accounted' = accounted
  BY DEF CommitOutcome, CompleteFire, OwnsFire
<1>3. fires[k] \in FireRow /\ 0 \in Instants
  BY <1>1, <1>2, InstantFacts, ScheduleAssumption DEF TypeOK
<1>4. row \in FireRow /\ row.status = "done" /\ row.attempts = fires[k].attempts
  BY <1>3 DEF FireRow, Statuses
<1>5. fires' = [fires EXCEPT ![k] = row]
  BY <1>1, <1>2, <1>3 DEF TypeOK, FireRow
<1> HIDE DEF row, k
<1>6. fires'[k] = row /\ \A d \in Instants : d # k => fires'[d] = fires[d]
  BY <1>1, <1>5 DEF TypeOK
<1>7. TypeOK'
  <2>1. fires' \in [Instants -> FireRow \cup {NoFire}]
    BY <1>1, <1>4, <1>5 DEF TypeOK
  <2>2. committed' \in [Instants -> Nat]
    <3>1. committed[k] + 1 \in Nat /\ committed \in [Instants -> Nat]
      BY <1>1 DEF TypeOK
    <3> QED BY <3>1, <1>2
  <2>3. worker' \in [Workers -> WorkerState]
    BY <1>1, <1>2, IdleType DEF TypeOK
  <2> QED BY <1>1, <1>2, <2>1, <2>2, <2>3 DEF TypeOK
<1>8. FireInv'
  <2> SUFFICES ASSUME NEW d \in Instants PROVE FireSound(d)'
    BY DEF FireInv
  <2>1. FireSound(d) /\ committed[d] \in Nat
    BY <1>1 DEF IInv, FireInv, TypeOK
  <2>2. CASE d # k
    <3>1. fires'[d] = fires[d] /\ committed'[d] = committed[d]
      BY <2>2, <1>1, <1>2, <1>6 DEF TypeOK
    <3> QED BY <2>1, <3>1, <1>2 DEF FireSound
  <2>3. CASE d = k
    <3>1. committed[d] = 0 /\ created[d] # 0
      BY <2>1, <2>3, <1>2 DEF FireSound
    <3>2. committed'[d] = 1
      BY <2>3, <3>1, <1>1, <1>2 DEF TypeOK
    <3> QED BY <2>1, <2>3, <3>1, <3>2, <1>2, <1>4, <1>6 DEF FireSound
  <2> QED BY <2>2, <2>3
<1> QED BY <1>7, <1>8 DEF IInv

\* A failed delivery makes its fire visible again later, or dead.
LEMMA FailInv ==
  ASSUME IInv, NEW w \in Workers, NEW now \in Instants, FailDelivery(w, now)
  PROVE  IInv'
<1> DEFINE k == worker[w].due
           o == worker[w].owner
           v == now + BackoffFor(policy, fires[k].attempts)
           row == [fires[k] EXCEPT !.visible_at = v, !.owner = NoOwner, !.lease_until = 0,
                                   !.updated_at = now]
<1>1. TypeOK /\ worker[w] \in WorkerState /\ k \in Instants
  BY DEF IInv, TypeOK, WorkerState
<1>2. /\ cursor' = cursor /\ policy' = policy /\ lastOwner' = lastOwner
      /\ worker' = [worker EXCEPT ![w] = Idle] /\ committed' = committed
      /\ created' = created /\ delivered' = delivered /\ accounted' = accounted
      /\ Preflight(now)
  BY DEF FailDelivery, FailScheduleFire, history
<1>3. worker' \in [Workers -> WorkerState]
  BY <1>1, <1>2, IdleType DEF TypeOK
<1>4. CASE ~OwnsFire(k, o)
  <2>1. fires' = fires
    BY <1>4 DEF FailDelivery, FailScheduleFire
  <2> QED BY <2>1, <1>1, <1>2, <1>3, QuietStep DEF TypeOK, tableVars, history
<1>5. CASE OwnsFire(k, o)
  <2>1. fires[k] # NoFire /\ fires[k].status = "pending" /\ fires[k] \in FireRow
    BY <1>1, <1>5 DEF OwnsFire, TypeOK
  <2>2. PICK r : /\ r \in FireRow /\ r.attempts = fires[k].attempts
                 /\ fires' = [fires EXCEPT ![k] = r]
    <3>1. CASE fires[k].attempts >= policy.max_attempts
      <4>1. fires' = [fires EXCEPT ![k] = DeadFire(k, now)]
        BY <3>1, <1>5 DEF FailDelivery, FailScheduleFire
      <4>2. DeadFire(k, now) \in FireRow /\ DeadFire(k, now).attempts = fires[k].attempts
        <5>1. 1 \in Owners
          BY DEF Owners
        <5> HIDE DEF k
        <5> QED BY <5>1, <2>1, <1>1, <1>2, ReservedRows
      <4> QED BY <4>1, <4>2
    <3>2. CASE ~(fires[k].attempts >= policy.max_attempts)
      <4>1. fires' = [fires EXCEPT ![k].visible_at = v, ![k].owner = NoOwner,
                                   ![k].lease_until = 0, ![k].updated_at = now]
        BY <3>2, <1>5 DEF FailDelivery, FailScheduleFire
      <4>2. fires[k].attempts \in Nat /\ policy.backoff \in Nat /\ policy.max_backoff \in Nat
        BY <2>1, <1>1, PolicyFacts DEF FireRow
      <4>3. /\ BackoffFor(policy, fires[k].attempts) \in Nat
            /\ BackoffFor(policy, fires[k].attempts) <= policy.max_backoff
        BY <4>2, BackoffBounded
      <4>4. v \in Instants /\ 0 \in Instants
        BY <4>2, <4>3, <1>2, InstantFacts, ScheduleAssumption DEF Preflight
      <4> HIDE DEF v
      <4>5. row \in FireRow /\ row.attempts = fires[k].attempts
        BY <2>1, <4>4 DEF FireRow
      <4>6. fires' = [fires EXCEPT ![k] = row]
        BY <4>1, <2>1, <1>1 DEF TypeOK, FireRow
      <4> QED BY <4>5, <4>6
    <3> QED BY <3>1, <3>2
  <2> HIDE DEF k
  <2>3. TypeOK'
    BY <2>2, <1>1, <1>2, <1>3 DEF TypeOK
  <2>4. FireInv'
    <3> SUFFICES ASSUME NEW d \in Instants PROVE FireSound(d)'
      BY DEF FireInv
    <3>1. FireSound(d)
      BY DEF IInv, FireInv
    <3>2. CASE d # k
      <4>1. fires'[d] = fires[d]
        BY <3>2, <2>2, <1>1 DEF TypeOK
      <4> QED BY <3>1, <4>1, <1>2 DEF FireSound
    <3>3. CASE d = k
      <4>1. fires'[d].attempts = fires[d].attempts
        BY <3>3, <2>2, <1>1 DEF TypeOK
      <4>2. committed[d] # 1 /\ created[d] # 0
        BY <3>1, <3>3, <2>1 DEF FireSound
      <4> QED BY <3>1, <3>3, <4>1, <4>2, <2>1, <1>2 DEF FireSound
    <3> QED BY <3>2, <3>3
  <2> QED BY <2>3, <2>4 DEF IInv
<1> QED BY <1>4, <1>5

\* Every step keeps the inductive invariant.
LEMMA StepInv == IInv /\ [Next]_vars => IInv'
<1> SUFFICES ASSUME IInv, [Next]_vars PROVE IInv'
  OBVIOUS
<1>1. TypeOK
  BY DEF IInv
<1>2. ASSUME NEW w \in Workers, Dispatch(w) PROVE IInv'
  <2>1. CASE \E now, at \in Instants : Tick(w, now, at)
    BY <2>1, TickInv
  <2>2. CASE Reserve(w)
    BY <2>2, ReserveInv
  <2>3. CASE \E now \in Instants : CommitOutcome(w, now)
    BY <2>3, CommitInv
  <2>4. CASE \E now \in Instants : FailDelivery(w, now)
    BY <2>4, FailInv
  <2>5. CASE (\E ok \in BOOLEAN : GuestReturns(w, ok)) \/ CommitRejected(w) \/ Crash(w)
    <3>1. UNCHANGED <<tableVars, history>> /\ policy' = policy /\ lastOwner' = lastOwner
      BY <2>5 DEF GuestReturns, CommitRejected, Crash
    <3>2. worker' \in [Workers -> WorkerState]
      <4>1. worker[w] \in WorkerState
        BY <1>1 DEF TypeOK
      <4>2. \A p \in {"returned", "failing"} : [worker[w] EXCEPT !.pc = p] \in WorkerState
        BY <4>1 DEF WorkerState
      <4>3. CASE Crash(w)
        BY <4>3, <1>1, IdleType DEF Crash, TypeOK
      <4>4. CASE CommitRejected(w)
        <5>1. worker' = [worker EXCEPT ![w] = [worker[w] EXCEPT !.pc = "failing"]]
          BY <4>4 DEF CommitRejected
        <5> QED BY <5>1, <4>2, <1>1 DEF TypeOK
      <4>5. CASE \E ok \in BOOLEAN : GuestReturns(w, ok)
        <5>1. \E p \in {"returned", "failing"} :
                worker' = [worker EXCEPT ![w] = [worker[w] EXCEPT !.pc = p]]
          BY <4>5 DEF GuestReturns
        <5> QED BY <5>1, <4>2, <1>1 DEF TypeOK
      <4> QED BY <2>5, <4>3, <4>4, <4>5
    <3> QED BY <3>1, <3>2, <1>1, QuietStep DEF TypeOK
  <2> QED BY <1>2, <2>1, <2>2, <2>3, <2>4, <2>5 DEF Dispatch
<1>3. ASSUME NEW p \in Policies, Reconfigure(p) PROVE IInv'
  BY <1>1, <1>3, QuietStep DEF Reconfigure, TypeOK
<1>4. CASE UNCHANGED vars
  BY <1>1, <1>4, QuietStep DEF vars, TypeOK
<1> QED BY <1>2, <1>3, <1>4 DEF Next

\* The initial state satisfies the inductive invariant.
LEMMA InitInv == Init => IInv
<1> SUFFICES ASSUME Init PROVE IInv
  OBVIOUS
<1>1. TypeOK
  BY IdleType DEF Init, TypeOK
<1>2. \E p \in Policies : 0 <= p.max_attempts
  BY ScheduleAssumption DEF SchedulePolicy
<1>3. FireInv
  BY <1>2 DEF Init, FireInv, FireSound
<1> QED BY <1>1, <1>3 DEF IInv

\* The inductive invariant holds in every reachable state of the schedule.
THEOREM Invariance == Spec => []IInv
  BY InitInv, StepInv, PTL DEF Spec

\* Every table, counter and local record keeps its type: every instant a tick,
\* a lease, a retry or a failure records is representable.
THEOREM ScheduleTypeCorrect == Spec => []TypeOK
<1>1. IInv => TypeOK
  BY DEF IInv
<1> QED BY <1>1, Invariance, PTL

\* A dispatch that lost its fire changes nothing when it ends.
LEMMA StaleOwnersFenced == Spec => StaleOwnerMutatesNothing
<1> DEFINE Fenced(w) ==
          /\ worker[w].pc \in {"returned", "failing"}
          /\ worker'[w].pc # worker[w].pc
          /\ ~(fires[worker[w].due] # NoFire /\ fires[worker[w].due].status = "pending"
               /\ fires[worker[w].due].owner = worker[w].owner)
          => UNCHANGED <<tableVars, committed>>
<1>1. ASSUME TypeOK, [Next]_vars, NEW w \in Workers PROVE Fenced(w)
  <2> SUFFICES ASSUME worker[w].pc \in {"returned", "failing"}, worker'[w].pc # worker[w].pc,
                      ~OwnsFire(worker[w].due, worker[w].owner)
               PROVE  UNCHANGED <<tableVars, committed>>
    BY DEF OwnsFire
  <2>1. worker \in [Workers -> WorkerState]
    BY <1>1 DEF TypeOK
  <2>2. PICK v \in Workers : Dispatch(v)
    BY <1>1 DEF Next, Reconfigure, vars
  <2>3. \A u \in Workers : u # v => worker'[u] = worker[u]
    BY <2>1, <2>2 DEF Dispatch, Tick, Reserve, GuestReturns, CommitOutcome, CommitRejected,
       FailDelivery, Crash
  <2>4. v = w
    BY <2>3
  <2>5. CommitRejected(w) \/ Crash(w) \/ \E now \in Instants : FailDelivery(w, now)
    BY <2>2, <2>4 DEF Dispatch, Tick, Reserve, GuestReturns, CommitOutcome, CompleteFire
  <2> QED BY <2>5 DEF CommitRejected, Crash, FailDelivery, FailScheduleFire, history, tableVars
<1>2. TypeOK /\ [Next]_vars => [\A w \in Workers : Fenced(w)]_vars
  BY <1>1
<1> QED BY <1>2, ScheduleTypeCorrect, PTL DEF Spec, StaleOwnerMutatesNothing

\* For every set of policies the host is ever started with, any clocks, any
\* restarts and any retention: an occurrence becomes a fire at most once, is
\* handed out within the budget of some policy, has at most one committed outcome
\* and obeys its current owner alone (materialize_schedule,
\* reserve_schedule_fire, commit_plan, fail_schedule_fire).
THEOREM OccurrencesHappenOnce == Spec => OccurrenceOnce
<1>1. IInv => MaterializedOnce /\ CommittedOnce /\ FireBudget
  BY DEF IInv, FireInv, FireSound, MaterializedOnce, CommittedOnce, FireBudget
<1> QED BY <1>1, Invariance, StaleOwnersFenced, PTL DEF OccurrenceOnce

-----------------------------------------------------------------------------
(* Accounting                                                              *)

\* The occurrences between the cursor and now are those of the indexes from the
\* first to the current one, when the cursor is not before the start.
LEMMA OccurrencesIndexed ==
  ASSUME TypeOK, NEW now \in Instants, cursor # NoCursor, cursor >= policy.start,
         now >= policy.start
  PROVE  Occurrences(now) = {OccurrenceInstant(i) : i \in FirstIndex(now) .. CurrentIndex(now)}
<1> DEFINE b == policy.interval
           t == policy.start
           f == FirstIndex(now)
           c == CurrentIndex(now)
           Due(d) == /\ cursor < d /\ d <= now /\ d >= t
                     /\ (d - t) % b = 0
<1>1. b \in Nat \ {0} /\ t \in Nat /\ cursor \in Nat /\ now \in Nat
  BY PolicyFacts, InstantFacts DEF TypeOK
<1>2. /\ f \in Int /\ OccurrenceInstant(f) > cursor /\ OccurrenceInstant(f) <= cursor + b
  BY FirstFacts
<1>3. /\ c \in Int /\ OccurrenceInstant(c) <= now /\ now < OccurrenceInstant(c) + b
  BY CurrentFacts
<1>4. Occurrences(now) = {d \in Instants : Due(d)}
  BY DEF Occurrences
<1>5. \A i, j \in Int : /\ OccurrenceInstant(i) \in Int
                        /\ OccurrenceInstant(i + 1) = OccurrenceInstant(i) + b
                        /\ i <= j => OccurrenceInstant(i) <= OccurrenceInstant(j)
                        /\ i < j => OccurrenceInstant(i) < OccurrenceInstant(j)
  BY OccurrenceOrder
<1>6. OccurrenceInstant(0) = t
  BY <1>1 DEF OccurrenceInstant
<1>7. ASSUME NEW d \in Instants, Due(d)
      PROVE  \E i \in f .. c : d = OccurrenceInstant(i)
  <2> DEFINE a == d - t
             i == a \div b
  <2>1. a \in Nat /\ d \in Int /\ a % b = 0
    BY <1>1, <1>7, InstantFacts
  <2>2. i \in Nat /\ a = i * b
    <3> HIDE DEF a, b
    <3> QED BY <1>1, <2>1, Division, Multiples
  <2>3. d = OccurrenceInstant(i)
    <3>1. d = t + a
      BY <1>1, <2>1
    <3>2. OccurrenceInstant(i) = t + i * b
      BY DEF OccurrenceInstant
    <3> QED BY <2>2, <3>1, <3>2
  <2> HIDE DEF i, a
  <2>4. f <= i
    <3> SUFFICES ASSUME i + 1 <= f PROVE FALSE
      BY <1>2, <2>2
    <3>1. OccurrenceInstant(i + 1) <= OccurrenceInstant(f) /\ OccurrenceInstant(i + 1) = d + b
      BY <1>2, <1>5, <2>2, <2>3
    <3>2. OccurrenceInstant(f) \in Int
      BY <1>2, <1>5
    <3> HIDE DEF b, t, f
    <3> QED BY <3>1, <3>2, <1>1, <1>2, <1>7, <2>1
  <2>5. i <= c
    <3> SUFFICES ASSUME c + 1 <= i PROVE FALSE
      BY <1>3, <2>2
    <3>1. OccurrenceInstant(c + 1) <= d /\ OccurrenceInstant(c + 1) = OccurrenceInstant(c) + b
      BY <1>3, <1>5, <2>2, <2>3
    <3>2. OccurrenceInstant(c) \in Int
      BY <1>3, <1>5
    <3> HIDE DEF b, t, c
    <3> QED BY <3>1, <3>2, <1>1, <1>3, <1>7, <2>1
  <2> QED BY <1>2, <1>3, <2>2, <2>3, <2>4, <2>5
<1>8. ASSUME NEW i \in f .. c
      PROVE  OccurrenceInstant(i) \in Instants /\ Due(OccurrenceInstant(i))
  <2> DEFINE d == OccurrenceInstant(i)
  <2>1. i \in Int /\ f <= i /\ i <= c
    BY <1>2, <1>3
  <2>2. /\ d \in Int /\ OccurrenceInstant(f) \in Int /\ OccurrenceInstant(c) \in Int
        /\ OccurrenceInstant(f) <= d /\ d <= OccurrenceInstant(c)
    BY <2>1, <1>2, <1>3, <1>5
  <2>3. d > cursor /\ d <= now /\ d >= t
    <3> HIDE DEF d, f, c, t
    <3>1. d > cursor /\ d <= now
      BY <2>2, <1>1, <1>2, <1>3
    <3> QED BY <3>1, <2>2, <1>1 DEF t
  <2>4. i \in Nat
    <3> SUFFICES ASSUME i < 0 PROVE FALSE
      BY <2>1
    <3>1. d < OccurrenceInstant(0)
      BY <2>1, <1>5
    <3> HIDE DEF d, t
    <3> QED BY <3>1, <2>2, <2>3, <1>1, <1>6
  <2>5. d - t = i * b
    <3>1. d = t + i * b
      BY DEF OccurrenceInstant
    <3>2. i * b \in Int
      BY <1>1, <2>1, TimesOrder
    <3> QED BY <3>1, <3>2, <1>1
  <2>6. (i * b) % b = 0
    <3> HIDE DEF b
    <3> QED BY <2>4, <1>1, Multiples
  <2>7. d \in Instants
    <3> HIDE DEF d
    <3>1. MaxInstant \in Nat /\ now <= MaxInstant
      BY ScheduleAssumption, InstantFacts
    <3> QED BY <3>1, <2>2, <2>3, <1>1, InstantFacts
  <2> QED BY <2>3, <2>5, <2>6, <2>7
<1> HIDE DEF Due, f, c
<1>9. {d \in Instants : Due(d)} = {OccurrenceInstant(i) : i \in f .. c}
  BY <1>7, <1>8
<1> QED BY <1>4, <1>9 DEF f, c

\* What a tick materializes and what it reports as skipped are the occurrences.
LEMMA DueOrSkipped ==
  ASSUME TypeOK, NEW now \in Instants, cursor # NoCursor, cursor >= policy.start
  PROVE  Occurrences(now) = DueNow(now) \cup SkippedNow(now)
<1>1. policy.start \in Nat /\ now \in Nat /\ cursor \in Nat
  BY PolicyFacts, InstantFacts DEF TypeOK
<1>2. CASE now < policy.start
  <2>1. DueNow(now) = {} /\ SkippedNow(now) = {}
    BY <1>2 DEF NothingDue, DueNow, SkippedNow
  <2>2. Occurrences(now) = {}
    BY <1>1, <1>2, InstantFacts DEF Occurrences
  <2> QED BY <2>1, <2>2
<1>3. CASE now >= policy.start
  <2>1. Occurrences(now) = {OccurrenceInstant(i) : i \in FirstIndex(now) .. CurrentIndex(now)}
    BY <1>3, OccurrencesIndexed
  <2>2. FirstIndex(now) \in Int /\ CurrentIndex(now) \in Int
    BY <1>3, FirstFacts, CurrentFacts
  <2>3. CASE NothingDue(now)
    <3>1. DueNow(now) = {} /\ SkippedNow(now) = {}
      BY <2>3 DEF DueNow, SkippedNow
    <3>2. FirstIndex(now) > CurrentIndex(now)
      BY <1>1, <1>3, <2>3 DEF NothingDue
    <3>3. FirstIndex(now) .. CurrentIndex(now) = {}
      BY <2>2, <3>2
    <3> QED BY <2>1, <3>1, <3>3
  <2>4. CASE ~NothingDue(now)
    <3> DEFINE k == CatchUpFrom(now)
    <3>1. k \in Int /\ FirstIndex(now) <= k /\ k <= CurrentIndex(now)
      BY <2>4, DueIndexes
    <3>2. /\ DueNow(now) = {OccurrenceInstant(i) : i \in k .. CurrentIndex(now)}
          /\ SkippedNow(now) = {OccurrenceInstant(i) : i \in FirstIndex(now) .. k - 1}
      BY <2>4 DEF DueNow, SkippedNow
    <3> HIDE DEF k
    <3>3. FirstIndex(now) .. CurrentIndex(now)
             = (k .. CurrentIndex(now)) \cup (FirstIndex(now) .. k - 1)
      BY <2>2, <3>1
    <3> QED BY <2>1, <3>2, <3>3
  <2> QED BY <2>3, <2>4
<1> QED BY <1>1, <1>2, <1>3

\* Every configuration the host is started with has the same start.
FixedStart == \A p, q \in Policies : p.start = q.start

\* The cursor is an occurrence, so it is not before the start.
AccountInv ==
    /\ accounted
    /\ cursor # NoCursor => cursor >= policy.start

\* A tick accounts for every occurrence it passes.
LEMMA TickAccounts ==
  ASSUME IInv, AccountInv, NEW w \in Workers, NEW now \in Instants, NEW at \in Instants,
         Tick(w, now, at)
  PROVE  AccountInv'
<1> DEFINE kept == CleanupScheduleFires(fires, now)
           inserted == {d \in DueNow(now) : kept[d] = NoFire}
<1>1. TypeOK
  BY DEF IInv
<1>2. /\ cursor' = IF NothingDue(now) THEN cursor ELSE OccurrenceInstant(CurrentIndex(now))
      /\ accounted' = (accounted /\ (cursor # NoCursor =>
                          Occurrences(now) = inserted \cup SkippedNow(now)))
      /\ policy' = policy
  BY DEF Tick, MaterializeSchedule
<1>3. cursor # NoCursor => inserted = DueNow(now)
  <2> SUFFICES ASSUME cursor # NoCursor, NEW d \in DueNow(now) PROVE kept[d] = NoFire
    OBVIOUS
  <2>1. d \in Instants /\ d > cursor
    BY <1>1, DueFacts
  <2>2. d \in Int /\ cursor \in Int /\ created[d] \in Nat
    BY <1>1, <2>1, InstantFacts DEF TypeOK
  <2>3. FireSound(d)
    BY <2>1 DEF IInv, FireInv
  <2>4. ~(created[d] > 0)
    BY <2>1, <2>2, <2>3 DEF FireSound
  <2>5. fires[d] = NoFire
    BY <2>2, <2>3, <2>4 DEF FireSound
  <2> QED BY <2>1, <2>5, <1>1, CleanupKeeps
<1>4. cursor # NoCursor => Occurrences(now) = DueNow(now) \cup SkippedNow(now)
  BY <1>1, DueOrSkipped DEF AccountInv
<1> HIDE DEF inserted
<1>5. accounted'
  BY <1>2, <1>3, <1>4 DEF AccountInv
<1>6. cursor' # NoCursor => cursor' >= policy'.start
  <2>1. CASE NothingDue(now)
    BY <2>1, <1>2 DEF AccountInv
  <2>2. CASE ~NothingDue(now)
    <3>1. now >= policy.start
      BY <2>2, <1>1, DueIndexes
    <3>2. OccurrenceInstant(CurrentIndex(now)) >= policy.start
      BY <3>1, <1>1, CurrentFacts
    <3> QED BY <2>2, <3>2, <1>2
  <2> QED BY <2>1, <2>2
<1> QED BY <1>5, <1>6 DEF AccountInv

\* For every set of policies that agree on the start, any intervals, catch-up
\* bounds, clocks and restarts: each occurrence a tick passes is materialized or
\* counted as skipped (materialize_schedule).  The hypothesis is needed: a start
\* moved past the cursor loses an occurrence.
THEOREM OccurrencesAccounted == FixedStart => (Spec => []EveryOccurrenceAccounted)
<1> SUFFICES ASSUME FixedStart PROVE Spec => []EveryOccurrenceAccounted
  OBVIOUS
<1>1. Init => AccountInv
  BY DEF Init, AccountInv
<1>2. IInv /\ AccountInv /\ [Next]_vars => AccountInv'
  <2> SUFFICES ASSUME IInv, AccountInv, [Next]_vars PROVE AccountInv'
    OBVIOUS
  <2>1. ASSUME NEW w \in Workers, NEW now \in Instants, NEW at \in Instants, Tick(w, now, at)
        PROVE  AccountInv'
    BY <2>1, TickAccounts
  <2>2. ASSUME NEW p \in Policies, Reconfigure(p) PROVE AccountInv'
    <3>1. policy'.start = policy.start
      BY <2>2 DEF Reconfigure, FixedStart, IInv, TypeOK
    <3> QED BY <2>2, <3>1 DEF Reconfigure, AccountInv, tableVars, history
  <2>3. ASSUME UNCHANGED <<cursor, accounted, policy>> PROVE AccountInv'
    BY <2>3 DEF AccountInv
  <2>4. ASSUME NEW w \in Workers, Dispatch(w) PROVE AccountInv'
    BY <2>1, <2>3, <2>4 DEF Dispatch, Reserve, ReserveScheduleFire, GuestReturns, CommitOutcome,
       CompleteFire, CommitRejected, FailDelivery, FailScheduleFire, Crash, tableVars, history
  <2> QED BY <2>2, <2>3, <2>4 DEF Next, vars, tableVars, history
<1>3. AccountInv => EveryOccurrenceAccounted
  BY DEF AccountInv, EveryOccurrenceAccounted
<1> QED BY <1>1, <1>2, <1>3, Invariance, PTL DEF Spec
=============================================================================
