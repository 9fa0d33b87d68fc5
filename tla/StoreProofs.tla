---------------------------- MODULE StoreProofs -----------------------------
(***************************************************************************)
(* Proofs about one durable store: the invocations over it, then the       *)
(* opening of its file.                                                    *)
(*                                                                         *)
(* InvocationStore, for any number of invocations, items and values.  What *)
(* makes the revision a faithful stand-in for the contents is GuardInv: an *)
(* active invocation whose revision is still the store's has the store's   *)
(* present contents as its base.                                           *)
(*                                                                         *)
(* StoreOpening, for any number of openers, budgets and files.  What was   *)
(* read before the lock may be old when it is used; OpenerSound says in    *)
(* which way only.                                                         *)
(***************************************************************************)
EXTENDS InvocationStore, StoreOpening, Arithmetic, TLAPS

\* A revision that was read is never ahead of the store, and as long as it is
\* the store's own nothing has changed since.
GuardInv ==
    \A i \in Invocations :
        inv[i].revision # Unknown =>
            /\ inv[i].revision <= revision
            /\ inv[i].revision = revision => base[i] = contents

\* Only an active invocation has read or staged anything.
ActiveInv ==
    \A i \in Invocations :
        inv[i].revision = Unknown => inv[i].staged = Nothing /\ seen[i] = Nothing

IInv == TypeOK /\ GuardInv /\ ActiveInv /\ SnapshotReads

\* What CommitAccepted says of the revision.
LEMMA AcceptedAtRevision ==
    ASSUME NEW s, CommitAccepted(s), AdvancesRevision(s)
    PROVE  s.revision = revision
BY DEF CommitAccepted

\* An outcome that stages nothing leaves the rows as they are.
LEMMA NothingApplied ==
    ASSUME TypeOK, NEW s, ~AdvancesRevision(s)
    PROVE  Applied(s) = contents
BY DEF Applied, AdvancesRevision, TypeOK

\* The initial state satisfies the inductive invariant.
LEMMA InitInv == Init => IInv
BY StoreAssumption DEF Init, IInv, TypeOK, GuardInv, ActiveInv, SnapshotReads, Fresh, Nothing,
                       InvocationState, Content

\* A step that touches the state of one invocation, and what must hold of it.
LEMMA UpdateInv ==
    ASSUME IInv, NEW i \in Invocations, NEW r \in InvocationState,
           inv' = [inv EXCEPT ![i] = r],
           contents' \in [Items -> Content], revision' \in Nat, revision <= revision',
           revision' = revision => contents' = contents,
           seen' \in [Invocations -> [Items -> Content \cup {Unknown}]],
           base' \in [Invocations -> [Items -> Content \cup {Unknown}]],
           \A k \in Invocations \ {i} : seen'[k] = seen[k] /\ base'[k] = base[k],
           r.revision # Unknown => /\ r.revision <= revision'
                                   /\ r.revision = revision' => base'[i] = contents',
           r.revision = Unknown => r.staged = Nothing /\ seen'[i] = Nothing,
           \A x \in Items : seen'[i][x] \in {Unknown, base'[i][x]}
    PROVE  IInv'
<1>1. TypeOK'
  BY DEF IInv, TypeOK
<1>2. /\ inv'[i] = r
      /\ \A k \in Invocations \ {i} : inv'[k] = inv[k]
  BY DEF IInv, TypeOK
<1>3. \A k \in Invocations : inv[k].revision \in Nat \cup {Unknown}
  BY DEF IInv, TypeOK, InvocationState
<1>4. revision \in Nat
  BY DEF IInv, TypeOK
<1>5. GuardInv'
  <2> SUFFICES ASSUME NEW k \in Invocations, inv'[k].revision # Unknown
               PROVE  /\ inv'[k].revision <= revision'
                      /\ inv'[k].revision = revision' => base'[k] = contents'
    BY DEF GuardInv
  <2>1. CASE k = i
    BY <2>1, <1>2
  <2>2. CASE k # i
    <3>1. inv'[k] = inv[k] /\ base'[k] = base[k]
      BY <2>2, <1>2
    <3>2. /\ inv[k].revision <= revision
          /\ inv[k].revision = revision => base[k] = contents
      BY <3>1 DEF IInv, GuardInv
    <3>3. inv[k].revision \in Nat
      BY <3>1, <1>3
    <3> QED
      BY <3>1, <3>2, <3>3, <1>4
  <2> QED
    BY <2>1, <2>2
<1>6. ActiveInv'
  BY <1>2 DEF IInv, ActiveInv
<1>7. SnapshotReads'
  BY <1>2 DEF IInv, SnapshotReads
<1> QED
  BY <1>1, <1>5, <1>6, <1>7 DEF IInv

\* The same when the step leaves the store and the history alone.
LEMMA LocalInv ==
    ASSUME IInv, NEW i \in Invocations, NEW r \in InvocationState,
           inv' = [inv EXCEPT ![i] = r], r.revision = inv[i].revision,
           r.revision = Unknown => r.staged = Nothing,
           contents' = contents, revision' = revision, seen' = seen, base' = base
    PROVE  IInv'
<1>1. /\ contents' \in [Items -> Content] /\ revision' \in Nat
      /\ seen' \in [Invocations -> [Items -> Content \cup {Unknown}]]
      /\ base' \in [Invocations -> [Items -> Content \cup {Unknown}]]
  BY DEF IInv, TypeOK
<1>2. revision <= revision'
  BY <1>1
<1>3. r.revision # Unknown => /\ r.revision <= revision'
                              /\ r.revision = revision' => base'[i] = contents'
  BY DEF IInv, GuardInv
<1>4. r.revision = Unknown => r.staged = Nothing /\ seen'[i] = Nothing
  BY DEF IInv, ActiveInv
<1>5. \A x \in Items : seen'[i][x] \in {Unknown, base'[i][x]}
  BY DEF IInv, SnapshotReads
<1> QED
  BY <1>1, <1>2, <1>3, <1>4, <1>5, UpdateInv

\* Every step keeps the inductive invariant.
LEMMA StepInv == IInv /\ [Next]_vars => IInv'
<1> SUFFICES ASSUME IInv, [Next]_vars PROVE IInv'
  OBVIOUS
<1>t. /\ contents \in [Items -> Content] /\ revision \in Nat
      /\ inv \in [Invocations -> InvocationState]
      /\ seen \in [Invocations -> [Items -> Content \cup {Unknown}]]
      /\ base \in [Invocations -> [Items -> Content \cup {Unknown}]]
  BY DEF IInv, TypeOK
<1>g. ASSUME NEW k \in Invocations
      PROVE  /\ inv[k] \in InvocationState
             /\ inv[k].revision # Unknown => /\ inv[k].revision <= revision
                                             /\ inv[k].revision = revision => base[k] = contents
             /\ inv[k].revision = Unknown => inv[k].staged = Nothing /\ seen[k] = Nothing
             /\ \A x \in Items : seen[k][x] \in {Unknown, base[k][x]}
  BY <1>t DEF IInv, GuardInv, ActiveInv, SnapshotReads
<1>1. ASSUME NEW i \in Invocations, Activate(i) PROVE IInv'
  <2> DEFINE r == [inv[i] EXCEPT !.revision = revision]
  <2>1. r \in InvocationState /\ r.revision = revision
    BY <1>g, <1>t DEF InvocationState
  <2>2. inv' = [inv EXCEPT ![i] = r]
    BY <1>1 DEF Activate
  <2> HIDE DEF r
  <2>3. seen[i] = Nothing
    BY <1>1, <1>g DEF Activate
  <2>4. contents \in [Items -> Content \cup {Unknown}]
    BY <1>t
  <2>5. /\ contents' = contents /\ revision' = revision /\ seen' = seen
        /\ base' = [base EXCEPT ![i] = contents]
    BY <1>1 DEF Activate
  <2>6. \A x \in Items : seen[i][x] = Unknown
    BY <2>3 DEF Nothing
  <2>7. revision # Unknown
    BY <1>t, StoreAssumption
  <2>8. /\ contents' \in [Items -> Content] /\ revision' \in Nat /\ revision <= revision'
        /\ seen' \in [Invocations -> [Items -> Content \cup {Unknown}]]
        /\ base' \in [Invocations -> [Items -> Content \cup {Unknown}]]
        /\ \A k \in Invocations \ {i} : seen'[k] = seen[k] /\ base'[k] = base[k]
    BY <2>4, <2>5, <1>t
  <2>9. /\ r.revision <= revision' /\ base'[i] = contents'
        /\ r.revision # Unknown
        /\ \A x \in Items : seen'[i][x] \in {Unknown, base'[i][x]}
    BY <2>1, <2>5, <2>6, <2>7, <1>t
  <2> QED
    BY <2>1, <2>2, <2>5, <2>8, <2>9, UpdateInv
<1>2. ASSUME NEW i \in Invocations, NEW x \in Items, Read(i, x) PROVE IInv'
  <2> DEFINE r == [inv[i] EXCEPT !.operations = @ + 1]
  <2>1. r \in InvocationState /\ r.revision = inv[i].revision /\ r.staged = inv[i].staged
    BY <1>g DEF InvocationState
  <2>2. inv' = [inv EXCEPT ![i] = r]
    BY <1>2 DEF Read
  <2> HIDE DEF r
  <2>3. contents' = contents /\ revision' = revision /\ base' = base
    BY <1>2 DEF Read
  <2>4. inv[i].revision # Unknown
    BY <1>2 DEF Read, MayOperate
  <2>5. CASE seen' = seen
    BY <2>1, <2>2, <2>3, <2>4, <2>5, LocalInv
  <2>6. CASE seen' = [seen EXCEPT ![i][x] = contents[x]] /\ revision = inv[i].revision
    <3>1. contents[x] = base[i][x]
      BY <2>6, <2>4, <1>g
    <3>2. seen' \in [Invocations -> [Items -> Content \cup {Unknown}]]
      BY <2>6, <1>t
    <3>3. \A y \in Items : seen'[i][y] \in {Unknown, base'[i][y]}
      BY <2>6, <3>1, <1>t, <1>g, <2>3
    <3>4. \A k \in Invocations \ {i} : seen'[k] = seen[k]
      BY <2>6, <1>t
    <3>5. contents' \in [Items -> Content] /\ revision' \in Nat /\ revision <= revision'
      BY <2>3, <1>t
    <3>6. /\ r.revision <= revision' /\ base'[i] = contents'
          /\ r.revision # Unknown
      BY <2>1, <2>3, <2>4, <2>6, <1>g
    <3>7. /\ base' \in [Invocations -> [Items -> Content \cup {Unknown}]]
          /\ \A k \in Invocations \ {i} : base'[k] = base[k]
      BY <2>3, <1>t
    <3> QED
      BY <2>1, <2>2, <2>3, <3>2, <3>3, <3>4, <3>5, <3>6, <3>7, UpdateInv
  <2> QED
    BY <1>2, <2>5, <2>6 DEF Read, Snapshot
<1>3. ASSUME NEW i \in Invocations, NEW x \in Items, NEW v \in Content, Stage(i, x, v)
      PROVE  IInv'
  <2> DEFINE staged == [inv[i].staged EXCEPT ![x] = v]
             r == [inv[i] EXCEPT !.staged = staged, !.operations = @ + 1]
  <2>0. inv[i].staged \in [Items -> Content \cup {Unknown}]
    BY <1>g DEF InvocationState
  <2>1. staged \in [Items -> Content \cup {Unknown}]
    BY <2>0
  <2>2. r \in InvocationState /\ r.revision = inv[i].revision
    <3>1. inv[i] \in InvocationState
      BY <1>g
    <3> DEFINE q == [inv[i] EXCEPT !.staged = staged]
    <3> HIDE DEF staged
    <3>2. q \in InvocationState /\ q.revision = inv[i].revision
      BY <3>1, <2>1 DEF InvocationState
    <3>3. inv[i].operations + 1 \in Nat
      BY <3>1 DEF InvocationState
    <3> HIDE DEF q
    <3>4. [q EXCEPT !.operations = inv[i].operations + 1] \in InvocationState
      BY <3>2, <3>3 DEF InvocationState
    <3>5. [q EXCEPT !.operations = inv[i].operations + 1].revision = q.revision
      BY <3>2 DEF InvocationState
    <3> QED
      BY <3>2, <3>4, <3>5 DEF q
  <2>3. inv' = [inv EXCEPT ![i] = r]
    BY <1>3 DEF Stage
  <2> HIDE DEF r
  <2>4. contents' = contents /\ revision' = revision /\ base' = base /\ seen' = seen
    BY <1>3 DEF Stage, history
  <2>5. inv[i].revision # Unknown
    BY <1>3 DEF Stage, MayOperate
  <2> QED
    BY <2>2, <2>3, <2>4, <2>5, LocalInv
<1>4. ASSUME NEW i \in Invocations, Publish(i) PROVE IInv'
  <2> DEFINE r == [inv[i] EXCEPT !.operations = @ + 1]
  <2>1. r \in InvocationState /\ r.revision = inv[i].revision /\ r.staged = inv[i].staged
    BY <1>g DEF InvocationState
  <2>2. inv' = [inv EXCEPT ![i] = r]
    BY <1>4 DEF Publish
  <2> HIDE DEF r
  <2>3. contents' = contents /\ revision' = revision /\ base' = base /\ seen' = seen
    BY <1>4 DEF Publish, history
  <2> QED
    BY <2>1, <2>2, <2>3, <1>g, LocalInv
<1>5. ASSUME NEW i \in Invocations, GuestReturns(i) PROVE IInv'
  <2> DEFINE r == [inv[i] EXCEPT !.pc = "returned"]
  <2>1. r \in InvocationState /\ r.revision = inv[i].revision /\ r.staged = inv[i].staged
    BY <1>g DEF InvocationState
  <2>2. inv' = [inv EXCEPT ![i] = r]
    BY <1>5 DEF GuestReturns
  <2> HIDE DEF r
  <2>3. contents' = contents /\ revision' = revision /\ base' = base /\ seen' = seen
    BY <1>5 DEF GuestReturns, history
  <2> QED
    BY <2>1, <2>2, <2>3, <1>g, LocalInv
<1>e. ASSUME NEW i \in Invocations, Ended(i), contents' \in [Items -> Content],
             revision' \in Nat, revision <= revision', revision' = revision => contents' = contents
      PROVE  IInv'
  <2>1. Fresh \in InvocationState /\ Fresh.revision = Unknown /\ Fresh.staged = Nothing
    BY DEF Fresh, Nothing, InvocationState
  <2>2. inv' = [inv EXCEPT ![i] = Fresh]
    BY <1>e DEF Ended
  <2>3. Nothing \in [Items -> Content \cup {Unknown}] /\ \A x \in Items : Nothing[x] = Unknown
    BY DEF Nothing
  <2>4. /\ seen' \in [Invocations -> [Items -> Content \cup {Unknown}]]
        /\ base' \in [Invocations -> [Items -> Content \cup {Unknown}]]
        /\ \A k \in Invocations \ {i} : seen'[k] = seen[k] /\ base'[k] = base[k]
        /\ seen'[i] = Nothing
    BY <1>e, <1>t, <2>3 DEF Ended
  <2>5. \A x \in Items : seen'[i][x] \in {Unknown, base'[i][x]}
    BY <2>3, <2>4
  <2> QED
    BY <1>e, <2>1, <2>2, <2>4, <2>5, UpdateInv
<1>6. ASSUME NEW i \in Invocations, Commit(i) PROVE IInv'
  <2>1. Ended(i)
    BY <1>6 DEF Commit
  <2>2. inv[i].staged \in [Items -> Content \cup {Unknown}]
    BY <1>g DEF InvocationState
  <2>3. contents' \in [Items -> Content]
    BY <1>6, <1>t, <2>2 DEF Commit, Applied
  <2>4. CASE AdvancesRevision(inv[i])
    BY <1>6, <1>t, <1>e, <2>1, <2>3, <2>4 DEF Commit
  <2>5. CASE ~AdvancesRevision(inv[i])
    BY <1>6, <1>t, <1>e, <2>1, <2>3, <2>5, NothingApplied DEF Commit, IInv
  <2> QED
    BY <2>4, <2>5
<1>7. ASSUME NEW i \in Invocations, CommitRejected(i) \/ Abandon(i) PROVE IInv'
  BY <1>7, <1>t, <1>e DEF CommitRejected, Abandon
<1>8. CASE UNCHANGED vars
  BY <1>8 DEF vars, IInv, TypeOK, GuardInv, ActiveInv, SnapshotReads
<1> QED
  BY <1>1, <1>2, <1>3, <1>4, <1>5, <1>6, <1>7, <1>8 DEF Next, Invocation

\* The inductive invariant holds in every reachable state.
THEOREM Invariance == Spec => []IInv
BY InitInv, StepInv, PTL DEF Spec

\* Every variable keeps its type.
THEOREM StoreTypeCorrect == Spec => []TypeOK
BY Invariance, PTL DEF IInv

\* Whatever commits in between, an invocation reads one state of the store
\* (get_at_revision, checkpoint_at_revision, object_at_revision).
THEOREM ReadsOneSnapshot == Spec => []SnapshotReads
BY Invariance, PTL DEF IInv

\* Rows change only together with the revision (commit_plan).
THEOREM ChangesAdvanceRevision == Spec => RevisionCoversChange
<1>1. IInv /\ [Next]_vars => [contents' # contents => revision' = revision + 1]_vars
  <2> SUFFICES ASSUME IInv, Next, contents' # contents PROVE revision' = revision + 1
    BY DEF vars
  <2>1. PICK i \in Invocations : Commit(i)
    BY DEF Next, Invocation, Activate, Read, Stage, Publish, GuestReturns, CommitRejected,
           Abandon, history
  <2> QED
    BY <2>1, NothingApplied DEF Commit, IInv
<1> QED
  BY <1>1, Invariance, PTL DEF Spec, RevisionCoversChange

\* Every step that changes a row is the whole outcome of one invocation, on the
\* contents that invocation saw: the store implements SerialStore (commit_plan,
\* commit_outcome).
THEOREM StoreIsSerial == Spec => ImplementsSerialStore
<1>1. Init => Serial!Init
  BY DEF Init, Serial!Init
<1>2. IInv /\ [Next]_vars => [\E c \in Invocations : Serial!Transact(c)]_contents
  <2> SUFFICES ASSUME IInv, Next, contents' # contents
               PROVE  \E c \in Invocations : Serial!Transact(c)
    BY DEF vars
  <2>1. PICK i \in Invocations : Commit(i)
    BY DEF Next, Invocation, Activate, Read, Stage, Publish, GuestReturns, CommitRejected,
           Abandon, history
  <2>2. AdvancesRevision(inv[i])
    BY <2>1, NothingApplied DEF Commit, IInv
  <2>3. inv[i].revision = revision
    BY <2>1, <2>2, AcceptedAtRevision DEF Commit
  <2>4. revision \in Nat
    BY DEF IInv, TypeOK
  <2>5. \A x \in Items : seen[i][x] \in {Unknown, contents[x]}
    BY <2>3, <2>4, StoreAssumption DEF IInv, GuardInv, SnapshotReads
  <2>6. inv'[i] = Fresh
    BY <2>1 DEF Commit, Ended, IInv, TypeOK
  <2>7. Serial!Transact(i)
    <3>1. inv[i].pc = "returned" /\ inv'[i].pc # "returned"
      BY <2>1, <2>6 DEF Commit, Fresh
    <3>2. contents' = [x \in Items |-> IF inv[i].staged[x] = Unknown THEN contents[x]
                                       ELSE inv[i].staged[x]]
      BY <2>1 DEF Commit, Applied
    <3> QED
      BY <3>1, <3>2, <2>5 DEF Serial!Transact
  <2> QED
    BY <2>7
<1> QED
  BY <1>1, <1>2, Invariance, PTL DEF Spec, ImplementsSerialStore, Serial!Spec

-----------------------------------------------------------------------------
(* The bucket                                                              *)

\* Bytes of stored objects: a number, less for fewer of them, the same in a
\* bucket with the same values, and additive.
LEMMA BucketFacts ==
  ASSUME NEW rows, NEW S \in SUBSET Objects, \A x \in S : rows[x] \in Values
  PROVE  /\ IsFiniteSet(S) /\ BucketBytes(rows, S) \in Nat /\ BucketBytes(rows, {}) = 0
         /\ \A T \in SUBSET S : BucketBytes(rows, T) <= BucketBytes(rows, S)
         /\ \A k \in S : BucketBytes(rows, S) = Size[rows[k]] + BucketBytes(rows, S \ {k})
         /\ \A u : (\A x \in S : u[x] = rows[x]) => BucketBytes(u, S) = BucketBytes(rows, S)
<1> DEFINE f(u, T) == [x \in T |-> Size[u[x]]]
           g == f(rows, S)
<1>1. \A u, T : BucketBytes(u, T) = SumOver(f(u, T), T)
  BY DEF BucketBytes, SumOver
<1>2. IsFiniteSet(S) /\ \A T \in SUBSET S : IsFiniteSet(T)
  BY StoreAssumption, FS_Subset
<1>3. \A x \in S : g[x] \in Nat /\ g[x] = Size[rows[x]]
  BY StoreAssumption
<1>4. \A T \in SUBSET S : \A x \in T : f(rows, T)[x] = g[x]
  OBVIOUS
<1>5. ASSUME NEW u, \A x \in S : u[x] = rows[x]
      PROVE  \A x \in S : f(u, S)[x] = g[x]
  BY <1>5
<1> HIDE DEF f, g
<1>6. \A T \in SUBSET S : BucketBytes(rows, T) = SumOver(g, T)
  <2> TAKE T \in SUBSET S
  <2>1. SumOver(f(rows, T), T) = SumOver(g, T)
    BY <1>2, <1>4, SumSame
  <2> QED BY <2>1, <1>1
<1>7. BucketBytes(rows, S) \in Nat /\ BucketBytes(rows, {}) = 0
  BY <1>2, <1>3, <1>6, SumNat, SumEmpty
<1>8. \A T \in SUBSET S : BucketBytes(rows, T) <= BucketBytes(rows, S)
  BY <1>2, <1>3, <1>6, SumMonotone
<1>9. \A k \in S : BucketBytes(rows, S) = Size[rows[k]] + BucketBytes(rows, S \ {k})
  BY <1>2, <1>3, <1>6, SumRemove
<1>10. ASSUME NEW u, \A x \in S : u[x] = rows[x]
       PROVE  BucketBytes(u, S) = BucketBytes(rows, S)
  <2>1. \A x \in S : f(u, S)[x] = g[x]
    BY <1>5, <1>10
  <2>2. SumOver(f(u, S), S) = SumOver(g, S)
    BY <1>2, <2>1, SumSame
  <2> QED BY <2>2, <1>1, <1>6
<1> QED BY <1>2, <1>7, <1>8, <1>9, <1>10

\* A set of objects that is not empty has a largest key.
LEMMA LargestObject ==
  ASSUME NEW S \in SUBSET Objects, S # {}
  PROVE  \E m \in S : \A x \in S : x <= m
<1> DEFINE f == [x \in S |-> 0 - x]
<1>1. IsFiniteSet(S) /\ S \subseteq Nat
  BY StoreAssumption, FS_Subset
<1>2. \A x \in S : f[x] \in Int
  BY <1>1
<1>3. \E m \in S : \A x \in S : f[m] <= f[x]
  <2> HIDE DEF f
  <2> QED BY <1>1, <1>2, LeastNumber
<1> QED BY <1>1, <1>3

\* The bucket an outcome leaves, seen from the last mutation whose checks bound
\* it: for the count the last put of a new key, for the bytes the last put.
LEMMA CommitBounded ==
  ASSUME TypeOK, BucketBounded, NEW i \in Invocations, CommitAccepted(inv[i]),
         contents' = Applied(inv[i])
  PROVE  BucketBounded'
<1> DEFINE s == inv[i]
           after == Applied(s)
           B == Stored(contents)
           A == Stored(after)
           Puts == {k \in Objects : s.staged[k] \in Values}
           New == {k \in Puts : contents[k] = Absent}
<1>1. /\ s \in InvocationState /\ s.staged \in [Items -> Content \cup {Unknown}]
      /\ contents \in [Items -> Content] /\ Objects \subseteq Items
  BY DEF TypeOK, InvocationState, Items
<1>2. Objects \subseteq Nat /\ IsFiniteSet(Objects)
  BY StoreAssumption
<1>3. \A x \in Objects :
        /\ after[x] = IF s.staged[x] = Unknown THEN contents[x] ELSE s.staged[x]
        /\ contents[x] \in Values \cup {Absent}
        /\ s.staged[x] \in Values \cup {Absent, Unknown}
        /\ x \in A <=> after[x] # Absent
        /\ x \in B <=> contents[x] # Absent
  BY <1>1 DEF Applied, Stored, Content
<1>4. Absent \notin Values /\ Unknown \notin Values /\ Unknown # Absent
  BY StoreAssumption DEF Content
<1>5. A \in SUBSET Objects /\ B \in SUBSET Objects /\ Puts \in SUBSET Objects /\ New \in SUBSET Puts
  BY DEF Stored
<1>6. \A k \in Puts : ObjectPutAccepted(s, k)
  BY DEF CommitAccepted
<1>7. Cardinality(B) <= MaxObjects /\ BucketBytes(contents, B) <= MaxBucketBytes
  BY DEF BucketBounded
<1>8. /\ \A x \in A : after[x] \in Values
      /\ \A x \in B : contents[x] \in Values
  BY <1>3, <1>4, <1>5
<1>9. /\ IsFiniteSet(A) /\ IsFiniteSet(B) /\ Cardinality(A) \in Nat /\ Cardinality(B) \in Nat
  BY <1>2, <1>5, FS_Subset, FS_CardinalityType
<1>10. \A k \in Objects : LET R == RowsBefore(s, k) IN
         /\ \A x \in Objects : R[x] = IF x < k /\ s.staged[x] # Unknown THEN s.staged[x]
                                      ELSE contents[x]
         /\ Stored(R) \in SUBSET Objects
         /\ \A x \in Objects : x \in Stored(R) <=> R[x] # Absent
         /\ \A x \in Stored(R) : R[x] \in Values
  <2> TAKE k \in Objects
  <2> DEFINE R == RowsBefore(s, k)
  <2>1. \A x \in Objects : R[x] = IF x < k /\ s.staged[x] # Unknown THEN s.staged[x]
                                  ELSE contents[x]
    BY DEF RowsBefore
  <2> HIDE DEF R
  <2>2. Stored(R) \in SUBSET Objects /\ \A x \in Objects : x \in Stored(R) <=> R[x] # Absent
    BY DEF Stored
  <2>3. \A x \in Stored(R) : R[x] \in Values
    BY <2>1, <2>2, <1>3
  <2> QED BY <2>1, <2>2, <2>3 DEF R
<1> HIDE DEF after, A, B, s
<1>11. Cardinality(A) <= MaxObjects
  <2>1. CASE New = {}
    <3>1. A \subseteq B
      BY <2>1, <1>3, <1>4, <1>5
    <3>2. Cardinality(A) <= Cardinality(B)
      BY <3>1, <1>9, FS_Subset
    <3> QED BY <3>2, <1>7, <1>9, StoreAssumption
  <2>2. CASE New # {}
    <3>1. PICK m \in New : \A x \in New : x <= m
      BY <2>2, <1>5, LargestObject
    <3> DEFINE R == RowsBefore(s, m)
               O == Stored(R) \ {m}
    <3>2. m \in Objects /\ m \in Puts /\ contents[m] = Absent
      BY <1>5
    <3>3. Cardinality(O) < MaxObjects
      BY <3>2, <1>6 DEF ObjectPutAccepted
    <3>4. /\ \A x \in Objects : R[x] = IF x < m /\ s.staged[x] # Unknown THEN s.staged[x]
                                       ELSE contents[x]
          /\ Stored(R) \in SUBSET Objects
          /\ \A x \in Objects : x \in Stored(R) <=> R[x] # Absent
      BY <3>2, <1>10
    <3> HIDE DEF R
    <3>5. A \subseteq O \cup {m}
      <4> SUFFICES ASSUME NEW x \in A, x # m PROVE R[x] # Absent
        BY <3>4, <1>5
      <4>1. x \in Objects /\ x \in Nat /\ m \in Nat
        BY <1>2, <1>5, <3>2
      <4>2. CASE x < m
        BY <4>1, <4>2, <3>4, <1>3
      <4>3. CASE x > m
        <5>1. x \notin New
          BY <4>1, <4>3, <3>1
        <5>2. R[x] = contents[x]
          BY <4>1, <4>3, <3>4
        <5>3. s.staged[x] \in Values => contents[x] # Absent
          BY <4>1, <5>1
        <5> QED BY <4>1, <5>2, <5>3, <1>3, <1>4
      <4> QED BY <4>1, <4>2, <4>3
    <3>6. O \in SUBSET Objects /\ m \notin O
      BY <3>4
    <3> HIDE DEF O
    <3>7. IsFiniteSet(O) /\ Cardinality(O) \in Nat
      BY <3>6, <1>2, FS_Subset, FS_CardinalityType
    <3>8. Cardinality(O \cup {m}) = Cardinality(O) + 1 /\ IsFiniteSet(O \cup {m})
      BY <3>6, <3>7, FS_AddElement
    <3>9. Cardinality(A) <= Cardinality(O \cup {m})
      BY <3>5, <3>8, FS_Subset
    <3> QED BY <3>3, <3>7, <3>8, <3>9, <1>9, StoreAssumption
  <2> QED BY <2>1, <2>2
<1>12. BucketBytes(after, A) <= MaxBucketBytes
  <2>0. BucketBytes(after, A) \in Nat /\ BucketBytes(contents, B) \in Nat
    BY <1>5, <1>8, BucketFacts
  <2>1. CASE Puts = {}
    <3>1. \A x \in A : x \in B /\ after[x] = contents[x]
      BY <2>1, <1>3, <1>4, <1>5
    <3>2. A \in SUBSET B
      BY <3>1
    <3>3. BucketBytes(contents, A) <= BucketBytes(contents, B)
      BY <3>2, <1>5, <1>8, BucketFacts
    <3>4. BucketBytes(contents, A) = BucketBytes(after, A)
      BY <3>1, <1>5, <1>8, BucketFacts
    <3> QED BY <2>0, <3>3, <3>4, <1>7, StoreAssumption
  <2>2. CASE Puts # {}
    <3>1. PICK m \in Puts : \A x \in Puts : x <= m
      BY <2>2, <1>5, LargestObject
    <3> DEFINE R == RowsBefore(s, m)
               O == Stored(R) \ {m}
               C == A \ {m}
    <3>2. m \in Objects /\ s.staged[m] \in Values
      BY <1>5
    <3>3. BucketBytes(R, O) + Size[s.staged[m]] <= MaxBucketBytes
      BY <1>6 DEF ObjectPutAccepted
    <3>4. /\ \A x \in Objects : R[x] = IF x < m /\ s.staged[x] # Unknown THEN s.staged[x]
                                       ELSE contents[x]
          /\ Stored(R) \in SUBSET Objects
          /\ \A x \in Objects : x \in Stored(R) <=> R[x] # Absent
          /\ \A x \in Stored(R) : R[x] \in Values
      BY <3>2, <1>10
    <3> HIDE DEF R
    <3>5. \A x \in C : x \in O /\ R[x] = after[x]
      <4> SUFFICES ASSUME NEW x \in A, x # m PROVE R[x] = after[x] /\ R[x] # Absent
        BY <3>4, <1>5
      <4>1. x \in Objects /\ x \in Nat /\ m \in Nat
        BY <1>2, <1>5, <3>2
      <4>2. CASE x < m
        BY <4>1, <4>2, <3>4, <1>3
      <4>3. CASE x > m
        <5>1. x \notin Puts
          BY <4>1, <4>3, <3>1
        <5>2. R[x] = contents[x]
          BY <4>1, <4>3, <3>4
        <5>3. s.staged[x] \notin Values
          BY <4>1, <5>1
        <5> QED BY <4>1, <5>2, <5>3, <1>3, <1>4
      <4> QED BY <4>1, <4>2, <4>3
    <3>6. O \in SUBSET Objects /\ (\A x \in O : R[x] \in Values) /\ C \in SUBSET O
      BY <3>4, <3>5
    <3>7. m \in A /\ after[m] = s.staged[m]
      BY <3>2, <1>3, <1>4
    <3>8. BucketBytes(after, A) = Size[after[m]] + BucketBytes(after, C)
      BY <3>7, <1>5, <1>8, BucketFacts
    <3> HIDE DEF O
    <3>9. BucketBytes(R, C) <= BucketBytes(R, O) /\ BucketBytes(R, O) \in Nat
      BY <3>6, BucketFacts
    <3>10. C \in SUBSET Objects /\ \A x \in C : after[x] \in Values
      BY <1>5, <1>8
    <3> HIDE DEF C
    <3>11. BucketBytes(R, C) = BucketBytes(after, C) /\ BucketBytes(after, C) \in Nat
      BY <3>5, <3>10, BucketFacts
    <3>12. Size[s.staged[m]] \in Nat
      BY <3>2, StoreAssumption
    <3> QED BY <3>3, <3>7, <3>8, <3>9, <3>11, <3>12, StoreAssumption
  <2> QED BY <2>1, <2>2
<1>13. contents' = after
  BY DEF after, s
<1> QED BY <1>11, <1>12, <1>13 DEF BucketBounded, A

\* For every bucket policy, every set of objects and every outcome: the bucket
\* never retains more objects or bytes than its policy allows, although the
\* bounds are only looked at put by put, in key order (apply_mutation).
THEOREM BucketStaysBounded == Spec => []BucketBounded
<1>1. Init => BucketBounded
  <2> SUFFICES ASSUME Init PROVE BucketBounded
    OBVIOUS
  <2>1. \A x \in Objects : contents[x] = Absent
    BY DEF Init, Items
  <2>2. Stored(contents) = {}
    BY <2>1 DEF Stored
  <2>3. {} \in SUBSET Objects /\ \A x \in {} : contents[x] \in Values
    OBVIOUS
  <2>4. BucketBytes(contents, {}) = 0
    BY <2>3, BucketFacts
  <2>5. Cardinality({}) = 0
    BY FS_EmptySet
  <2> QED BY <2>2, <2>4, <2>5, StoreAssumption DEF BucketBounded
<1>2. TypeOK /\ BucketBounded /\ [Next]_vars => BucketBounded'
  <2> SUFFICES ASSUME TypeOK, BucketBounded, [Next]_vars PROVE BucketBounded'
    OBVIOUS
  <2>1. CASE contents' = contents
    BY <2>1 DEF BucketBounded
  <2>2. ASSUME NEW i \in Invocations, Commit(i) PROVE BucketBounded'
    BY <2>2, CommitBounded DEF Commit
  <2> QED BY <2>1, <2>2 DEF Next, Invocation, Activate, Read, Stage, Publish, GuestReturns,
            CommitRejected, Abandon, vars, history
<1> QED BY <1>1, <1>2, StoreTypeCorrect, PTL DEF Spec
-----------------------------------------------------------------------------
(* Opening the store                                                       *)

\* What holds of an opener p in state s while the file is f.  Past the check the
\* file is intact and the ceiling is the budget, or no smaller than the file has
\* grown since; what was read before the lock can only have moved forward; the
\* copy of a transaction is a step ahead of the file, which stands still.
OpenerSound(p, s, f) ==
    /\ s.phase \in (Running \ {"check"}) \cup {"open"} =>
          /\ f.intact
          /\ s.ceiling >= Budget[p]
          /\ s.ceiling > Budget[p] => f.pages >= s.ceiling
    /\ s.phase = "lock" /\ Sound(f) =>
          \/ s.seen = 0 /\ (Empty(f) \/ SchemaTwo(f))
          \/ s.seen = 1 /\ (SchemaOne(f) \/ SchemaTwo(f))
    /\ s.phase \in InTransaction =>
          /\ IF s.seen = 0 THEN Empty(f) ELSE SchemaOne(f)
          /\ s.work.intact /\ s.work.rows = f.rows /\ s.work.wal = f.wal
          /\ s.work.pages >= f.pages
          /\ s.work.pages > f.pages => s.work.pages <= Budget[p]
    /\ s.phase = "define" => s.work = f
    /\ s.phase \in {"stamp", "commit"} => ValidSchema(s.work) /\ s.work.revision >= f.revision
    /\ s.phase = "commit" => s.work.app = APPLICATION_ID /\ s.work.version = 2
    /\ s.phase = "validate" => f.app = APPLICATION_ID /\ f.version = 2
    /\ s.phase \in {"persist", "verify", "open"} => SchemaTwo(f)
    /\ s.phase = "open" => s.ceiling = Budget[p]
    /\ s.phase = "Rejected" => ~Sound(f)

\* At most one opener holds the write lock.
LockExclusive ==
    \A p, q \in Openers : op[p].phase \in InTransaction /\ op[q].phase \in InTransaction => p = q

OpeningInv ==
    /\ OpeningTypeOK
    /\ LockExclusive
    /\ \A p \in Openers : OpenerSound(p, op[p], file)

\* How the file may change.
Forward(f, g) ==
    /\ Sound(f) /\ Sound(g)
    /\ f.version <= g.version /\ f.revision <= g.revision /\ f.rows \subseteq g.rows
    /\ f.pages <= g.pages
    /\ Empty(f) => Empty(g) \/ SchemaTwo(g)
    /\ SchemaOne(f) => SchemaOne(g) \/ SchemaTwo(g)
    /\ SchemaTwo(f) => SchemaTwo(g)

\* A file is a record; with tables, any.
LEMMA FileIsRecord ==
    /\ \A f \in File : f \in FileFields
    /\ \A f \in FileFields : f.objects # {} => f \in File
BY DEF File, FileFields

\* An opener at rest.
LEMMA RestSound ==
    ASSUME NEW kind \in Refusals \cup {"closed", "check"}, NEW p, NEW f,
           kind = "Rejected" => ~Sound(f)
    PROVE  AtRest(kind) \in Opener /\ OpenerSound(p, AtRest(kind), f)
           /\ AtRest(kind).phase \notin InTransaction
<1>1. NoFile \in File
  BY DEF NoFile, File, FileFields, SchemaObjects
<1>2. kind \in Phases /\ kind \notin InTransaction \cup {"open"}
      /\ (kind \in Running => kind = "check")
  BY DEF Phases, Running, Refusals, InTransaction
<1>3. AtRest(kind) \in Opener /\ AtRest(kind).phase = kind
  BY <1>1, <1>2 DEF AtRest, Opener
<1> QED BY <1>2, <1>3 DEF OpenerSound, Running, Refusals, InTransaction

\* A step of p that leaves the file alone.
LEMMA LocalOpening ==
    ASSUME OpeningInv, NEW p \in Openers, NEW s \in Opener,
           op' = [op EXCEPT ![p] = s], file' = file,
           OpenerSound(p, s, file),
           s.phase \in InTransaction => op[p].phase \in InTransaction \/ ~LockedOut(p)
    PROVE  OpeningInv'
<1>1. op' \in [Openers -> Opener] /\ op'[p] = s /\ \A q \in Openers \ {p} : op'[q] = op[q]
  BY DEF OpeningInv, OpeningTypeOK, Opener
<1>2. OpeningTypeOK'
  BY <1>1 DEF OpeningInv, OpeningTypeOK, Opener
<1>3. LockExclusive'
  BY <1>1 DEF OpeningInv, LockExclusive, LockedOut
<1>4. ASSUME NEW q \in Openers PROVE OpenerSound(q, op[q], file)'
  <2>1. OpenerSound(q, op'[q], file)
    BY <1>1 DEF OpeningInv
  <2> QED BY <2>1 DEF OpenerSound, Sound, Empty, SchemaOne, SchemaTwo, ValidSchema, ValidSchemaOne
<1> QED BY <1>2, <1>3, <1>4 DEF OpeningInv

\* The file moves forward while nobody but p holds the lock.
LEMMA OthersFollow ==
    ASSUME NEW q, NEW s, NEW f \in File, NEW g \in File, Forward(f, g),
           s.ceiling \in Nat, Budget[q] \in Nat, s.phase \notin InTransaction, OpenerSound(q, s, f)
    PROVE  OpenerSound(q, s, g)
<1>1. f.pages \in Nat /\ g.pages \in Nat /\ f.version \in Int /\ g.version \in Int
  BY DEF File, FileFields
<1>2. f.intact /\ g.intact /\ Sound(f) /\ Sound(g)
  BY DEF Forward, Sound
<1>3. s.phase = "validate" => SchemaTwo(f)
  BY <1>2, OpeningAssumption DEF OpenerSound, Sound, Empty, SchemaOne, SchemaTwo
<1>4. s.phase = "validate" => g.app = APPLICATION_ID /\ g.version = 2
  BY <1>3 DEF Forward, SchemaTwo
<1>5. s.phase \notin {"define", "stamp", "commit"}
  BY DEF InTransaction
<1>6. s.phase = "lock" =>
          \/ s.seen = 0 /\ (Empty(g) \/ SchemaTwo(g))
          \/ s.seen = 1 /\ (SchemaOne(g) \/ SchemaTwo(g))
  BY <1>2 DEF OpenerSound, Forward
<1>7. s.phase \in (Running \ {"check"}) \cup {"open"} =>
          s.ceiling >= Budget[q] /\ (s.ceiling > Budget[q] => g.pages >= s.ceiling)
  BY <1>1 DEF OpenerSound, Forward
<1>8. s.phase # "Rejected"
  BY <1>2 DEF OpenerSound
<1>9. /\ s.phase \in {"persist", "verify", "open"} => SchemaTwo(g)
      /\ s.phase = "open" => s.ceiling = Budget[q]
  BY DEF OpenerSound, Forward
<1> QED BY <1>2, <1>4, <1>5, <1>6, <1>7, <1>8, <1>9 DEF OpenerSound, InTransaction

\* A step of p that changes the file: nobody else holds the lock.
LEMMA FileStep ==
    ASSUME OpeningInv, NEW p \in Openers, NEW s \in Opener,
           op' = [op EXCEPT ![p] = s], file' \in File, Forward(file, file'),
           ~LockedOut(p), OpenerSound(p, s, file'), s.phase \notin InTransaction
    PROVE  OpeningInv'
<1>1. op' \in [Openers -> Opener] /\ op'[p] = s /\ \A q \in Openers \ {p} : op'[q] = op[q]
  BY DEF OpeningInv, OpeningTypeOK, Opener
<1>2. OpeningTypeOK'
  BY <1>1 DEF OpeningInv, OpeningTypeOK, Opener
<1>3. LockExclusive'
  BY <1>1 DEF OpeningInv, LockExclusive
<1>4. ASSUME NEW q \in Openers PROVE OpenerSound(q, op[q], file)'
  <2>1. OpenerSound(q, op'[q], file')
    <3>1. CASE q = p
      BY <1>1, <3>1
    <3>2. CASE q # p
      <4>1. OpenerSound(q, op[q], file) /\ file \in File /\ op[q].ceiling \in Nat
        BY DEF OpeningInv, OpeningTypeOK, Opener
      <4>2. op[q].phase \notin InTransaction
        BY <3>2 DEF LockedOut
      <4>3. Budget[q] \in Nat
        BY OpeningAssumption
      <4> QED BY <1>1, <3>2, <4>1, <4>2, <4>3, OthersFollow
    <3> QED BY <3>1, <3>2
  <2> QED BY <2>1 DEF OpenerSound, Sound, Empty, SchemaOne, SchemaTwo, ValidSchema, ValidSchemaOne
<1> QED BY <1>2, <1>3, <1>4 DEF OpeningInv

\* The types of an opener and of the file.
LEMMA OpenerTypes ==
    ASSUME OpeningInv, NEW p \in Openers
    PROVE  /\ op \in [Openers -> Opener]
           /\ op[p] \in Opener /\ op[p] = [phase |-> op[p].phase, attempt |-> op[p].attempt,
                seen |-> op[p].seen, ceiling |-> op[p].ceiling, work |-> op[p].work]
           /\ op[p].phase \in Phases /\ op[p].attempt \in Nat /\ op[p].seen \in Int
           /\ op[p].ceiling \in Nat /\ op[p].work \in File
           /\ file \in File /\ Budget[p] \in Nat
           /\ OpenerSound(p, op[p], file)
BY OpeningAssumption DEF OpeningInv, OpeningTypeOK, Opener

\* Past the check the file is intact, and the ceiling is the budget or no more
\* than the size of the file.
LEMMA PastCheck ==
    ASSUME OpeningInv, NEW p \in Openers, op[p].phase \in (Running \ {"check"}) \cup {"open"}
    PROVE  /\ file.intact
           /\ op[p].ceiling >= Budget[p]
           /\ op[p].ceiling > Budget[p] => file.pages >= op[p].ceiling
BY DEF OpeningInv, OpenerSound

\* Where an opener goes with its locals.
LEMMA ToFields ==
    ASSUME NEW phase \in Phases, NEW s \in Opener
    PROVE  /\ phase \in Refusals => To(phase, s) = AtRest(phase)
           /\ phase \notin Refusals =>
                 /\ To(phase, s) \in Opener
                 /\ To(phase, s).phase = phase /\ To(phase, s).attempt = s.attempt
                 /\ To(phase, s).seen = s.seen /\ To(phase, s).ceiling = s.ceiling
                 /\ To(phase, s).work = s.work
BY DEF To, Opener

\* Ending in a refusal, or in a new start, keeps the invariant.
LEMMA Rests ==
    ASSUME OpeningInv, NEW p \in Openers, NEW kind \in Refusals \cup {"closed", "check"},
           Becomes(p, AtRest(kind)), file' = file,
           kind = "Rejected" => ~Sound(file)
    PROVE  OpeningInv'
<1>1. /\ AtRest(kind) \in Opener /\ OpenerSound(p, AtRest(kind), file)
      /\ AtRest(kind).phase \notin InTransaction
  BY RestSound
<1> QED BY <1>1, LocalOpening DEF Becomes

\* Going on outside a transaction keeps the invariant if what it says holds.
LEMMA GoesOn ==
    ASSUME OpeningInv, NEW p \in Openers, NEW phase \in Phases \ Refusals, NEW s \in Opener,
           Becomes(p, To(phase, s)), file' = file,
           OpenerSound(p, To(phase, s), file),
           phase \in InTransaction => op[p].phase \in InTransaction \/ ~LockedOut(p)
    PROVE  OpeningInv'
<1>1. To(phase, s) \in Opener /\ To(phase, s).phase = phase
  BY ToFields
<1> QED BY <1>1, LocalOpening DEF Becomes

\* The initial state satisfies the inductive invariant.
LEMMA OpeningStarts == OpeningInit => OpeningInv
<1> SUFFICES ASSUME OpeningInit PROVE OpeningInv
  OBVIOUS
<1>1. file \in File
  BY OpeningAssumption DEF OpeningInit
<1>2. AtRest("closed") \in Opener /\ AtRest("closed").phase \notin InTransaction
      /\ \A p \in Openers : OpenerSound(p, AtRest("closed"), file)
  BY RestSound
<1>3. op \in [Openers -> Opener] /\ \A p \in Openers : op[p] = AtRest("closed")
  BY <1>2 DEF OpeningInit
<1>4. LockExclusive
  BY <1>2, <1>3 DEF LockExclusive
<1> QED BY <1>1, <1>2, <1>3, <1>4 DEF OpeningInv, OpeningTypeOK, Opener

\* Starting, failing and dying.
LEMMA StartStep ==
    ASSUME OpeningInv, NEW p \in Openers, Start(p) \/ Fails(p) \/ Exits(p)
    PROVE  OpeningInv'
<1>1. CASE Start(p)
  BY <1>1, Rests DEF Start, Refusals
<1>2. CASE Fails(p)
  BY <1>2, Rests DEF Fails, Refusals
<1>3. CASE Exits(p)
  BY <1>3, Rests DEF Exits
<1> QED BY <1>1, <1>2, <1>3

\* Waiting in vain.
LEMMA BusyStep ==
    ASSUME OpeningInv, NEW p \in Openers, Busy(p)
    PROVE  OpeningInv'
<1> DEFINE s == [op[p] EXCEPT !.attempt = op[p].attempt + 1]
<1>1. s \in Opener /\ s.ceiling = op[p].ceiling
  <2>1. op[p] \in Opener
    BY OpenerTypes
  <2> QED BY <2>1 DEF Opener
<1> HIDE DEF s
<1>2. CASE op[p].phase = "lock" /\ op[p].attempt + 1 < MAX_SCHEMA_ATTEMPTS
  <2>1. Becomes(p, To("read", s)) /\ file' = file
    BY <1>2 DEF Busy, s
  <2>2. "read" \in Phases \ Refusals /\ "read" \notin InTransaction
    BY DEF Phases, Running, Refusals, InTransaction
  <2>3. OpenerSound(p, To("read", s), file)
    <3>1. To("read", s).phase = "read" /\ To("read", s).ceiling = op[p].ceiling
      BY <1>1, <2>2, ToFields
    <3>2. op[p].phase \in Running \ {"check"}
      BY <1>2 DEF Running
    <3> QED BY <3>1, <3>2, PastCheck DEF OpenerSound, InTransaction
  <2> QED BY <1>1, <2>1, <2>2, <2>3, GoesOn
<1>3. CASE ~(op[p].phase = "lock" /\ op[p].attempt + 1 < MAX_SCHEMA_ATTEMPTS)
  <2>1. Becomes(p, AtRest("Conflict")) /\ file' = file
    BY <1>3 DEF Busy, To, Refusals
  <2> QED BY <2>1, Rests DEF Refusals
<1> QED BY <1>2, <1>3

\* apply_page_limit gives the budget, or the present size if that is more.
LEMMA PageLimits ==
    ASSUME OpeningInv, NEW p \in Openers
    PROVE  /\ file.pages \in Nat /\ Budget[p] \in Nat
           /\ PageLimit(p) \in Nat /\ PageLimit(p) >= Budget[p]
           /\ PageLimit(p) > Budget[p] => file.pages >= PageLimit(p)
<1>1. file.pages \in Nat /\ Budget[p] \in Nat
  <2>1. file \in File /\ Budget[p] \in Nat
    BY OpenerTypes
  <2> QED BY <2>1 DEF File, FileFields
<1> QED BY <1>1 DEF PageLimit

LEMMA CheckStep ==
    ASSUME OpeningInv, NEW p \in Openers, Check(p)
    PROVE  OpeningInv'
<1> DEFINE s == [op[p] EXCEPT !.ceiling = PageLimit(p)]
<1>1. s \in Opener /\ s.ceiling = PageLimit(p)
  BY OpenerTypes, PageLimits DEF Opener
<1> HIDE DEF s
<1>2. CASE file.intact
  <2>1. Becomes(p, To("read", s)) /\ file' = file
    BY <1>2 DEF Check, s
  <2>2. "read" \in Phases \ Refusals /\ "read" \notin InTransaction
    BY DEF Phases, Running, Refusals, InTransaction
  <2>3. OpenerSound(p, To("read", s), file)
    BY <1>1, <1>2, <2>2, ToFields, PageLimits DEF OpenerSound, Running, InTransaction
  <2> QED BY <1>1, <2>1, <2>2, <2>3, GoesOn
<1>3. CASE ~file.intact
  <2>1. Becomes(p, AtRest("Rejected")) /\ file' = file /\ ~Sound(file)
    BY <1>3 DEF Check, To, Refusals, Sound
  <2> QED BY <2>1, Rests DEF Refusals
<1> QED BY <1>2, <1>3

\* What is read of a sound file asks for the right thing.
LEMMA ReadIdentityStep ==
    ASSUME OpeningInv, NEW p \in Openers, ReadIdentity(p)
    PROVE  OpeningInv'
<1> DEFINE s == [op[p] EXCEPT !.seen = file.version]
           next == AfterIdentity(file)
<1>1. s \in Opener /\ s.ceiling = op[p].ceiling /\ s.seen = file.version
  <2>1. file.version \in Int
    BY OpenerTypes DEF File, FileFields
  <2> QED BY <2>1, OpenerTypes DEF Opener
<1>2. Becomes(p, To(next, s)) /\ file' = file
  BY DEF ReadIdentity
<1>3. next \in {"lock", "validate", "Rejected"}
  BY DEF AfterIdentity
<1>4. next = "Rejected" => ~Sound(file)
  BY OpeningAssumption DEF AfterIdentity, Sound, Empty, SchemaOne, SchemaTwo, STORE_SCHEMA_VERSION
<1>5. next = "validate" => file.app = APPLICATION_ID /\ file.version = 2
  BY DEF AfterIdentity, STORE_SCHEMA_VERSION
<1>6. next = "lock" /\ Sound(file) =>
          \/ file.version = 0 /\ Empty(file)
          \/ file.version = 1 /\ SchemaOne(file)
  BY DEF AfterIdentity, STORE_SCHEMA_VERSION, Sound, Empty, SchemaOne, SchemaTwo
<1> HIDE DEF s, next
<1>7. CASE next = "Rejected"
  <2>1. Becomes(p, AtRest("Rejected"))
    BY <1>1, <1>2, <1>7 DEF To, Refusals
  <2> QED BY <1>2, <1>4, <1>7, <2>1, Rests DEF Refusals
<1>8. CASE next \in {"lock", "validate"}
  <2>1. next \in Phases \ Refusals /\ next \notin InTransaction /\ next \in Running \ {"check"}
    BY <1>8 DEF Phases, Running, Refusals, InTransaction
  <2>2. op[p].phase \in Running \ {"check"}
    BY DEF ReadIdentity, Running
  <2>3. OpenerSound(p, To(next, s), file)
    <3>1. /\ To(next, s).phase = next /\ To(next, s).ceiling = op[p].ceiling
          /\ To(next, s).seen = file.version
      BY <1>1, <2>1, ToFields
    <3> QED BY <1>5, <1>6, <1>8, <2>1, <2>2, <3>1, PastCheck DEF OpenerSound, InTransaction
  <2> QED BY <1>1, <1>2, <2>1, <2>3, GoesOn
<1> QED BY <1>3, <1>7, <1>8

\* Under the lock the identity is read again: a sound file is either finished
\* already or is what was read before.
LEMMA LockStep ==
    ASSUME OpeningInv, NEW p \in Openers, Lock(p)
    PROVE  OpeningInv'
<1> DEFINE o == op[p]
           s == [o EXCEPT !.work = file]
           next == IF o.seen = 0 THEN InitializeLocked(file) ELSE MigrateLocked(file, o.seen)
<1>0. o \in Opener /\ o.seen \in Int /\ file \in File /\ o.phase = "lock" /\ ~LockedOut(p)
  BY OpenerTypes DEF Lock
<1>1. s \in Opener /\ s.ceiling = o.ceiling /\ s.seen = o.seen /\ s.work = file
  BY <1>0 DEF Opener
<1>2. Becomes(p, To(next, s)) /\ file' = file
  BY DEF Lock
<1>3. next \in {"define", "validate", "Rejected"}
  BY DEF InitializeLocked, MigrateLocked
<1>4. file.intact
  BY <1>0, PastCheck DEF Running
<1>5. Sound(file) =>
          \/ o.seen = 0 /\ (Empty(file) \/ SchemaTwo(file))
          \/ o.seen = 1 /\ (SchemaOne(file) \/ SchemaTwo(file))
  BY <1>0 DEF OpeningInv, OpenerSound
<1>6. next = "Rejected" => ~Sound(file)
  BY <1>5, OpeningAssumption
     DEF InitializeLocked, MigrateLocked, Empty, SchemaOne, SchemaTwo, STORE_SCHEMA_VERSION
<1>7. next = "validate" => file.app = APPLICATION_ID /\ file.version = 2
  BY DEF InitializeLocked, MigrateLocked, STORE_SCHEMA_VERSION
<1>8. next = "define" => IF o.seen = 0 THEN Empty(file) ELSE SchemaOne(file)
  <2>1. CASE o.seen = 0
    BY <2>1 DEF InitializeLocked, Empty
  <2>2. CASE o.seen # 0
    BY <2>2 DEF MigrateLocked, SchemaOne, STORE_SCHEMA_VERSION
  <2> QED BY <2>1, <2>2
<1> HIDE DEF o, s, next
<1>9. CASE next = "Rejected"
  <2>1. Becomes(p, AtRest("Rejected"))
    BY <1>2, <1>9 DEF To, Refusals
  <2> QED BY <1>2, <1>6, <1>9, <2>1, Rests DEF Refusals
<1>10. CASE next \in {"define", "validate"}
  <2>1. next \in Phases \ Refusals
    BY <1>10 DEF Phases, Running, Refusals, InTransaction
  <2>2. op[p].phase \in Running \ {"check"} /\ next \in Running \ {"check"}
    BY <1>0, <1>10 DEF o, Running, InTransaction
  <2>3. OpenerSound(p, To(next, s), file)
    <3>1. /\ To(next, s).phase = next /\ To(next, s).ceiling = op[p].ceiling
          /\ To(next, s).seen = o.seen /\ To(next, s).work = file
      BY <1>1, <2>1, ToFields DEF o
    <3>2. file.pages \in Nat
      BY PageLimits
    <3> QED BY <1>4, <1>7, <1>8, <1>10, <2>2, <3>1, <3>2, PastCheck DEF OpenerSound, InTransaction
  <2> QED BY <1>0, <1>1, <1>2, <2>1, <2>3, GoesOn
<1> QED BY <1>3, <1>9, <1>10

\* A transaction defines the schema on a copy that fits the budget.
LEMMA DefineStep ==
    ASSUME OpeningInv, NEW p \in Openers, Define(p)
    PROVE  OpeningInv'
<1> DEFINE o == op[p]
<1>0. o \in Opener /\ o.phase = "define" /\ file \in File /\ o.work = file
      /\ (IF o.seen = 0 THEN Empty(file) ELSE SchemaOne(file))
      /\ o.ceiling \in Nat
  BY OpenerTypes DEF Define, OpenerSound, InTransaction
<1>1. PICK g \in Growths :
          Becomes(p, To(IF Fits(p, o.work.pages, g) THEN "stamp" ELSE "Limit",
                        [o EXCEPT !.work = Defined(o.work, o.seen, g)]))
  BY DEF Define
<1>2. file' = file
  BY DEF Define
<1> DEFINE w == Defined(file, o.seen, g)
           s == [o EXCEPT !.work = w]
<1>3. g \in Nat /\ file.pages \in Nat /\ file.revision \in Int /\ Budget[p] \in Nat
  BY <1>0, OpeningAssumption, PageLimits DEF File, FileFields
<1>3a. /\ w \in FileFields /\ w.intact = file.intact /\ w.rows = file.rows /\ w.wal = file.wal
      /\ w.pages = file.pages + g
      /\ w.objects = file.objects \cup (IF o.seen = 0 THEN {"one", "two"} ELSE {"two"})
      /\ w.revision = IF o.seen = 0 THEN 0 ELSE file.revision
  <2>1. file \in FileFields
    BY <1>0, FileIsRecord
  <2>2. (IF o.seen = 0 THEN {"one", "two"} ELSE {"two"}) \subseteq SchemaObjects
    BY DEF SchemaObjects
  <2>3. (IF o.seen = 0 THEN 0 ELSE file.revision) \in Int
    BY <1>3
  <2>4. file.pages + g \in Nat
    BY <1>3
  <2> HIDE DEF o
  <2> QED BY <2>1, <2>2, <2>3, <2>4 DEF Defined, FileFields
<1>4. /\ w \in File /\ w.intact = file.intact /\ w.rows = file.rows /\ w.wal = file.wal
      /\ w.pages = file.pages + g /\ ValidSchema(w) /\ w.revision >= file.revision
  <2> HIDE DEF w
  <2>1. CASE o.seen = 0
    <3>1. file.objects = {} /\ file.revision = -1
      BY <1>0, <2>1 DEF Empty, File, FileFields
    <3> QED BY <1>3a, <2>1, <3>1, FileIsRecord DEF ValidSchema
  <2>2. CASE o.seen # 0
    <3>1. file.objects = {"one"} /\ file.revision >= 0
      BY <1>0, <2>2 DEF SchemaOne, ValidSchemaOne
    <3>2. w.objects = {"one", "two"} /\ w.revision = file.revision
      BY <1>3a, <2>2, <3>1
    <3>3. w \in File
      BY <1>3a, <3>2, FileIsRecord
    <3> QED BY <1>3a, <1>3, <3>1, <3>2, <3>3 DEF ValidSchema
  <2> QED BY <2>1, <2>2
<1>5. s \in Opener /\ s.ceiling = o.ceiling /\ s.seen = o.seen /\ s.work = w
  BY <1>0, <1>4 DEF Opener
<1>6. Becomes(p, To(IF Fits(p, file.pages, g) THEN "stamp" ELSE "Limit", s))
  BY <1>0, <1>1
<1> HIDE DEF w, s
<1>7. op[p].phase \in Running \ {"check"} /\ op[p].phase \in InTransaction
  BY <1>0 DEF Running, InTransaction
<1>8. CASE Fits(p, file.pages, g)
  <2>1. "stamp" \in Phases \ Refusals /\ "stamp" \in Running \ {"check"}
    BY DEF Phases, Running, Refusals, InTransaction
  <2>2. w.pages >= file.pages /\ (w.pages > file.pages => w.pages <= Budget[p])
    BY <1>0, <1>3, <1>4, <1>7, <1>8, PastCheck DEF Fits
  <2>3. OpenerSound(p, To("stamp", s), file)
    <3>1. /\ To("stamp", s).phase = "stamp" /\ To("stamp", s).ceiling = op[p].ceiling
          /\ To("stamp", s).seen = o.seen /\ To("stamp", s).work = w
      BY <1>5, <2>1, ToFields
    <3> HIDE DEF o
    <3> QED BY <1>0, <1>4, <1>7, <2>1, <2>2, <3>1, PastCheck DEF OpenerSound, InTransaction
  <2> QED BY <1>2, <1>5, <1>6, <1>7, <1>8, <2>1, <2>3, GoesOn
<1>9. CASE ~Fits(p, file.pages, g)
  <2>1. Becomes(p, AtRest("Limit"))
    BY <1>6, <1>9 DEF To, Refusals
  <2> QED BY <1>2, <2>1, Rests DEF Refusals
<1> QED BY <1>8, <1>9

\* Stamping changes the identity only.
LEMMA StampedFields ==
    ASSUME NEW f \in FileFields
    PROVE  /\ Stamped(f) \in FileFields /\ Stamped(f).intact = f.intact
           /\ Stamped(f).rows = f.rows /\ Stamped(f).wal = f.wal /\ Stamped(f).pages = f.pages
           /\ Stamped(f).objects = f.objects /\ Stamped(f).revision = f.revision
           /\ Stamped(f).app = APPLICATION_ID /\ Stamped(f).version = STORE_SCHEMA_VERSION
<1>1. APPLICATION_ID \in Int /\ STORE_SCHEMA_VERSION \in Int
  BY OpeningAssumption DEF STORE_SCHEMA_VERSION
<1> QED BY <1>1 DEF Stamped, FileFields

\* What a migration has made is valid, so that it is stamped.
LEMMA StampStep ==
    ASSUME OpeningInv, NEW p \in Openers, Stamp(p)
    PROVE  OpeningInv'
<1> DEFINE o == op[p]
           w == Stamped(o.work)
           s == [o EXCEPT !.work = w]
<1>0. o \in Opener /\ o.phase = "stamp" /\ o.work \in File /\ ValidSchema(o.work)
      /\ OpenerSound(p, o, file)
  BY OpenerTypes DEF Stamp, OpenerSound
<1>1. Becomes(p, To("commit", s)) /\ file' = file
  BY <1>0 DEF Stamp
<1>2. /\ w \in File /\ w.intact = o.work.intact /\ w.rows = o.work.rows /\ w.wal = o.work.wal
      /\ w.pages = o.work.pages /\ w.objects = o.work.objects /\ w.revision = o.work.revision
      /\ w.app = APPLICATION_ID /\ w.version = 2
  <2>1. o.work \in FileFields /\ o.work.objects # {}
    BY <1>0, FileIsRecord DEF ValidSchema
  <2>2. APPLICATION_ID \in Int /\ STORE_SCHEMA_VERSION = 2
    BY OpeningAssumption DEF STORE_SCHEMA_VERSION
  <2>3. /\ w \in FileFields /\ w.intact = o.work.intact /\ w.rows = o.work.rows
        /\ w.wal = o.work.wal /\ w.pages = o.work.pages /\ w.objects = o.work.objects
        /\ w.revision = o.work.revision /\ w.app = APPLICATION_ID /\ w.version = 2
    BY <2>1, <2>2, StampedFields
  <2> HIDE DEF o, w
  <2> QED BY <2>1, <2>3, FileIsRecord
<1>3. s \in Opener /\ s.ceiling = o.ceiling /\ s.seen = o.seen /\ s.work = w
  BY <1>0, <1>2 DEF Opener
<1> HIDE DEF o, w, s
<1>4. "commit" \in Phases \ Refusals /\ op[p].phase \in InTransaction
  BY <1>0 DEF o, Phases, Running, Refusals, InTransaction
<1>5. OpenerSound(p, To("commit", s), file)
  <2>1. /\ To("commit", s).phase = "commit" /\ To("commit", s).ceiling = o.ceiling
        /\ To("commit", s).seen = o.seen /\ To("commit", s).work = w
    BY <1>3, <1>4, ToFields
  <2>2. ValidSchema(w)
    BY <1>0, <1>2 DEF ValidSchema
  <2> QED BY <1>0, <1>2, <2>1, <2>2 DEF OpenerSound, Running, InTransaction
<1> QED BY <1>1, <1>3, <1>4, <1>5, GoesOn

\* Committing the schema moves the file forward.
LEMMA CommitForward ==
    ASSUME OpeningInv, NEW p \in Openers, CommitSchema(p)
    PROVE  file' \in File /\ Forward(file, file') /\ SchemaTwo(file') /\ file'.intact
<1> DEFINE w == op[p].work
<1>1. file' = w /\ op[p].phase = "commit"
  BY DEF CommitSchema
<1>2. w \in File /\ file \in File /\ OpenerSound(p, op[p], file)
  BY OpenerTypes
<1>3. file.intact
  BY <1>1, PastCheck DEF Running, InTransaction
<1>4. /\ (IF op[p].seen = 0 THEN Empty(file) ELSE SchemaOne(file))
      /\ w.intact /\ w.rows = file.rows /\ w.pages >= file.pages
      /\ ValidSchema(w) /\ w.revision >= file.revision
      /\ w.app = APPLICATION_ID /\ w.version = 2
  BY <1>1, <1>2 DEF OpenerSound, InTransaction
<1>5. Empty(file) \/ SchemaOne(file)
  BY <1>4
<1> HIDE DEF w
<1>6. SchemaTwo(w) /\ Sound(w) /\ Sound(file)
  BY <1>3, <1>4, <1>5 DEF SchemaTwo, Sound
<1>7. file.version <= w.version
  BY <1>4, <1>5 DEF Empty, SchemaOne
<1>8. Forward(file, w)
  <2>1. /\ file.pages \in Int /\ w.pages \in Int /\ file.revision \in Int /\ w.revision \in Int
    BY <1>2 DEF File, FileFields
  <2> QED BY <1>4, <1>6, <1>7, <2>1 DEF Forward
<1> QED BY <1>1, <1>2, <1>4, <1>6, <1>8

\* The commit of a schema.
LEMMA CommitSchemaStep ==
    ASSUME OpeningInv, NEW p \in Openers, CommitSchema(p)
    PROVE  OpeningInv'
<1> DEFINE s == [op[p] EXCEPT !.work = NoFile]
<1>1. op[p].phase = "commit" /\ Becomes(p, To("validate", s))
  BY DEF CommitSchema
<1>2. op[p].phase \in Running \ {"check"} /\ op[p].phase \in InTransaction
  BY <1>1 DEF Running, InTransaction
<1>3. s \in Opener /\ s.ceiling = op[p].ceiling
  <2>1. op[p] \in Opener
    BY OpenerTypes
  <2>2. NoFile \in File
    BY DEF NoFile, File, FileFields, SchemaObjects
  <2> QED BY <2>1, <2>2 DEF Opener
<1> HIDE DEF s
<1>4. file' \in File /\ Forward(file, file') /\ SchemaTwo(file') /\ file'.intact
  BY CommitForward
<1>5. "validate" \in Phases \ Refusals /\ "validate" \notin InTransaction
  BY DEF Phases, Running, Refusals, InTransaction
<1>6. /\ To("validate", s) \in Opener /\ To("validate", s).phase = "validate"
      /\ To("validate", s).ceiling = op[p].ceiling
  BY <1>3, <1>5, ToFields
<1>7. op[p].ceiling > Budget[p] => file'.pages >= op[p].ceiling
  <2>1. /\ op[p].ceiling \in Nat /\ file.pages \in Nat /\ file'.pages \in Nat
        /\ file.pages <= file'.pages
    BY <1>4, OpenerTypes, PageLimits DEF File, FileFields, Forward
  <2> QED BY <1>2, <2>1, PastCheck
<1>8. OpenerSound(p, To("validate", s), file')
  BY <1>2, <1>4, <1>6, <1>7, PastCheck DEF OpenerSound, InTransaction, SchemaTwo
<1>9. ~LockedOut(p)
  BY <1>2 DEF OpeningInv, LockExclusive, LockedOut
<1> QED BY <1>1, <1>4, <1>5, <1>6, <1>8, <1>9, FileStep DEF Becomes

\* Validation.
LEMMA ValidateStep ==
    ASSUME OpeningInv, NEW p \in Openers, Validate(p)
    PROVE  OpeningInv'
<1> DEFINE o == op[p]
<1>1. o \in Opener /\ o.phase = "validate" /\ file' = file
      /\ file.app = APPLICATION_ID /\ file.version = 2
  BY OpenerTypes DEF Validate, OpenerSound
<1>2. o.phase \in Running \ {"check"}
  BY <1>1 DEF Running
<1>3. CASE ValidSchema(file)
  <2>1. Becomes(p, To("persist", o))
    BY <1>3 DEF Validate
  <2>2. "persist" \in Phases \ Refusals /\ "persist" \notin InTransaction
    BY DEF Phases, Running, Refusals, InTransaction
  <2>3. To("persist", o).phase = "persist" /\ To("persist", o).ceiling = o.ceiling
    BY <1>1, <2>2, ToFields
  <2>4. OpenerSound(p, To("persist", o), file)
    BY <1>1, <1>2, <1>3, <2>3, PastCheck DEF OpenerSound, InTransaction, SchemaTwo
  <2> QED BY <1>1, <2>1, <2>2, <2>4, GoesOn
<1>4. CASE ~ValidSchema(file)
  <2>1. Becomes(p, AtRest("Rejected"))
    BY <1>4 DEF Validate, To, Refusals
  <2>2. ~Sound(file)
    BY <1>1, <1>4 DEF Sound, Empty, SchemaOne, SchemaTwo
  <2> QED BY <1>1, <2>1, <2>2, Rests DEF Refusals
<1> QED BY <1>3, <1>4

\* The budget is verified last.
LEMMA VerifyStep ==
    ASSUME OpeningInv, NEW p \in Openers, Verify(p)
    PROVE  OpeningInv'
<1> DEFINE o == op[p]
<1>1. o \in Opener /\ o.phase = "verify" /\ file' = file /\ SchemaTwo(file)
      /\ o.ceiling \in Nat /\ Budget[p] \in Nat
  BY OpenerTypes DEF Verify, OpenerSound
<1>2. o.phase \in Running \ {"check"}
  BY <1>1 DEF Running
<1>3. CASE o.ceiling <= Budget[p] /\ file.pages <= Budget[p]
  <2>1. Becomes(p, To("open", o))
    BY <1>3 DEF Verify
  <2>2. "open" \in Phases \ Refusals /\ "open" \notin InTransaction
    BY DEF Phases, Running, Refusals, InTransaction
  <2>3. To("open", o).phase = "open" /\ To("open", o).ceiling = o.ceiling
    BY <1>1, <2>2, ToFields
  <2>4. o.ceiling = Budget[p] /\ file.intact
    BY <1>1, <1>2, <1>3, PastCheck
  <2>5. OpenerSound(p, To("open", o), file)
    BY <1>1, <2>3, <2>4 DEF OpenerSound, InTransaction
  <2> QED BY <1>1, <2>1, <2>2, <2>5, GoesOn
<1>4. CASE ~(o.ceiling <= Budget[p] /\ file.pages <= Budget[p])
  <2>1. Becomes(p, AtRest("Limit"))
    BY <1>4 DEF Verify, To, Refusals
  <2> QED BY <1>1, <2>1, Rests DEF Refusals
<1> QED BY <1>3, <1>4

\* A file that differs in its journal, or in a commit, moves forward.
LEMMA TwoForward ==
    ASSUME NEW f \in File, NEW g \in FileFields, f.intact, SchemaTwo(f),
           g.intact, g.app = f.app, g.version = f.version, g.objects = f.objects,
           f.revision <= g.revision, f.rows \subseteq g.rows, f.pages <= g.pages
    PROVE  g \in File /\ Forward(f, g) /\ SchemaTwo(g)
<1>1. f.revision \in Int /\ g.revision \in Int /\ f.version \in Int
  BY DEF File, FileFields
<1>2. SchemaTwo(g)
  BY <1>1 DEF SchemaTwo, ValidSchema
<1>3. g \in File
  BY <1>2, FileIsRecord DEF SchemaTwo, ValidSchema
<1>4. ~Empty(f) /\ ~SchemaOne(f)
  BY DEF SchemaTwo, Empty, SchemaOne
<1> QED BY <1>1, <1>2, <1>3, <1>4 DEF Forward, Sound

\* Turning on the write-ahead log.
LEMMA PersistForward ==
    ASSUME OpeningInv, NEW p \in Openers, Persist(p)
    PROVE  /\ file' \in File /\ Forward(file, file') /\ SchemaTwo(file') /\ file'.intact
           /\ file'.pages = file.pages
           /\ LockedOut(p) => file' = file
<1>1. file \in File /\ op[p].phase = "persist" /\ SchemaTwo(file)
  BY OpenerTypes DEF Persist, OpenerSound
<1>2. file.intact
  BY <1>1, PastCheck DEF Running
<1>3. file \in FileFields /\ file.revision \in Int /\ file.pages \in Int
  BY <1>1, FileIsRecord DEF FileFields
<1>4. file' = [file EXCEPT !.wal = TRUE]
  BY DEF Persist
<1>5. /\ file' \in FileFields /\ file'.intact = file.intact /\ file'.app = file.app
      /\ file'.version = file.version /\ file'.objects = file.objects
      /\ file'.revision = file.revision /\ file'.rows = file.rows /\ file'.pages = file.pages
  BY <1>3, <1>4 DEF FileFields
<1>6. file.wal => file' = file
  BY <1>3, <1>4 DEF FileFields
<1>7. LockedOut(p) => file.wal
  BY DEF Persist, Readable
<1>8. file' \in File /\ Forward(file, file') /\ SchemaTwo(file')
  <2>1. /\ file.revision <= file'.revision /\ file.rows \subseteq file'.rows
        /\ file.pages <= file'.pages /\ file'.intact
    BY <1>2, <1>3, <1>5
  <2> QED BY <1>1, <1>2, <1>5, <2>1, TwoForward
<1> QED BY <1>2, <1>5, <1>6, <1>7, <1>8

LEMMA PersistStep ==
    ASSUME OpeningInv, NEW p \in Openers, Persist(p)
    PROVE  OpeningInv'
<1> DEFINE s == [op[p] EXCEPT !.ceiling = PageLimit(p)]
<1>1. s \in Opener /\ s.ceiling = PageLimit(p)
  BY OpenerTypes, PageLimits DEF Opener
<1>2. Becomes(p, To("verify", s))
  BY DEF Persist
<1> HIDE DEF s
<1>3. "verify" \in Phases \ Refusals /\ "verify" \notin InTransaction
  BY DEF Phases, Running, Refusals, InTransaction
<1>4. /\ To("verify", s) \in Opener /\ To("verify", s).phase = "verify"
      /\ To("verify", s).ceiling = PageLimit(p)
  BY <1>1, <1>3, ToFields
<1>5. /\ file' \in File /\ Forward(file, file') /\ SchemaTwo(file') /\ file'.intact
      /\ file'.pages = file.pages
      /\ LockedOut(p) => file' = file
  BY PersistForward
<1>6. OpenerSound(p, To("verify", s), file')
  BY <1>4, <1>5, PageLimits DEF OpenerSound, InTransaction
<1>7. CASE LockedOut(p)
  BY <1>1, <1>2, <1>3, <1>5, <1>6, <1>7, GoesOn
<1>8. CASE ~LockedOut(p)
  BY <1>2, <1>3, <1>4, <1>5, <1>6, <1>8, FileStep DEF Becomes
<1> QED BY <1>7, <1>8

\* A commit of a host that has the store open.
LEMMA HostForward ==
    ASSUME OpeningInv, NEW p \in Openers, HostCommits(p)
    PROVE  file' \in File /\ Forward(file, file') /\ SchemaTwo(file') /\ file'.intact
<1>1. file \in File /\ op[p].phase = "open" /\ SchemaTwo(file)
  BY OpenerTypes DEF HostCommits, OpenerSound
<1>2. file.intact
  BY <1>1, PastCheck
<1>3. PICK g \in Growths :
          file' = [file EXCEPT !.revision = file.revision + 1,
                               !.rows = file.rows \cup {file.revision + 1},
                               !.pages = file.pages + g]
  BY DEF HostCommits
<1>4. file \in FileFields /\ file.revision \in Int /\ file.pages \in Nat /\ g \in Nat
      /\ file.rows \subseteq Int
  BY <1>1, FileIsRecord, OpeningAssumption DEF FileFields
<1>5. file.revision + 1 \in Int /\ file.pages + g \in Nat
      /\ file.rows \cup {file.revision + 1} \in SUBSET Int
  BY <1>4
<1>6. /\ file' \in FileFields /\ file'.intact = file.intact /\ file'.app = file.app
      /\ file'.version = file.version /\ file'.objects = file.objects
      /\ file'.revision = file.revision + 1 /\ file'.rows = file.rows \cup {file.revision + 1}
      /\ file'.pages = file.pages + g
  BY <1>3, <1>4, <1>5 DEF FileFields
<1>7. file.revision <= file'.revision /\ file.rows \subseteq file'.rows /\ file.pages <= file'.pages
  BY <1>4, <1>6
<1>8. file' \in File /\ Forward(file, file') /\ SchemaTwo(file')
  BY <1>1, <1>2, <1>6, <1>7, TwoForward
<1> QED BY <1>2, <1>6, <1>8

LEMMA HostCommitsStep ==
    ASSUME OpeningInv, NEW p \in Openers, HostCommits(p)
    PROVE  OpeningInv'
<1>1. op[p].phase = "open" /\ ~LockedOut(p) /\ op' = op
  BY DEF HostCommits
<1>2. op[p] \in Opener /\ op \in [Openers -> Opener] /\ op[p].ceiling \in Nat /\ Budget[p] \in Nat
      /\ OpenerSound(p, op[p], file) /\ file \in File
  BY OpenerTypes
<1>3. op' = [op EXCEPT ![p] = op[p]]
  BY <1>1, <1>2
<1>4. file' \in File /\ Forward(file, file')
  BY HostForward
<1>5. op[p].phase \notin InTransaction
  BY <1>1 DEF InTransaction
<1>6. OpenerSound(p, op[p], file')
  BY <1>2, <1>4, <1>5, OthersFollow
<1> QED BY <1>1, <1>2, <1>3, <1>4, <1>5, <1>6, FileStep

\* No step leaves the inductive invariant.
LEMMA OpeningKept == OpeningInv /\ [OpeningNext]_openingVars => OpeningInv'
<1> SUFFICES ASSUME OpeningInv, [OpeningNext]_openingVars PROVE OpeningInv'
  OBVIOUS
<1>1. ASSUME NEW p \in Openers, Start(p) \/ Opens(p) \/ Fails(p) \/ HostCommits(p) \/ Exits(p)
      PROVE  OpeningInv'
  BY <1>1, StartStep, BusyStep, CheckStep, ReadIdentityStep, LockStep, DefineStep, StampStep,
     CommitSchemaStep, ValidateStep, PersistStep, VerifyStep, HostCommitsStep DEF Opens
<1>2. CASE UNCHANGED openingVars
  BY <1>2 DEF openingVars, OpeningInv, OpeningTypeOK, Opener, LockExclusive, OpenerSound,
              Sound, Empty, SchemaOne, SchemaTwo, ValidSchema, ValidSchemaOne
<1> QED BY <1>1, <1>2 DEF OpeningNext

\* The file changes only by moving a sound store forward.
LEMMA OnlyForward ==
    ASSUME OpeningInv, [OpeningNext]_openingVars
    PROVE  file' = file \/ Forward(file, file')
<1>1. ASSUME NEW p \in Openers, Start(p) \/ Opens(p) \/ Fails(p) \/ HostCommits(p) \/ Exits(p),
             file' # file
      PROVE  CommitSchema(p) \/ Persist(p) \/ HostCommits(p)
  BY <1>1 DEF Opens, Start, Fails, Exits, Check, ReadIdentity, Lock, Define, Stamp, Validate,
              Verify, Busy
<1> QED BY <1>1, CommitForward, PersistForward, HostForward DEF OpeningNext, openingVars

\* Opening keeps its inductive invariant.
THEOREM OpeningSound == OpeningSpec => []OpeningInv
BY OpeningStarts, OpeningKept, PTL DEF OpeningSpec

\* The variables of opening have their types.
THEOREM OpeningTypeCorrect == OpeningSpec => []OpeningTypeOK
<1>1. OpeningInv => OpeningTypeOK
  BY DEF OpeningInv
<1> QED BY <1>1, OpeningSound, PTL

\* While a host has the store open, the file is a complete schema-2 store: for
\* any number of hosts, budgets and files, and whatever the others do meanwhile.
THEOREM OpenStoresSound == OpeningSpec => []OpenStoreIsSound
<1>1. OpeningInv => OpenStoreIsSound
  BY PastCheck DEF OpenStoreIsSound, OpeningInv, OpenerSound
<1> QED BY <1>1, OpeningSound, PTL

\* A file that is not a store of a known schema is never changed by open.
THEOREM UnknownFilesUntouched == OpeningSpec => UnknownFileUntouched
<1>1. OpeningInv /\ [OpeningNext]_openingVars => [~Sound(file) => UNCHANGED file]_openingVars
  BY OnlyForward DEF Forward
<1> QED BY <1>1, OpeningSound, PTL DEF OpeningSpec, UnknownFileUntouched

\* Initialization and migration lose nothing, wherever a process dies.
THEOREM StoresMoveForward == OpeningSpec => StoreMovesForward
<1>1. OpeningInv /\ [OpeningNext]_openingVars =>
          [Sound(file) => /\ Sound(file')
                          /\ file.version <= file'.version
                          /\ file.revision <= file'.revision
                          /\ file.rows \subseteq file'.rows]_openingVars
  <2> SUFFICES ASSUME OpeningInv, [OpeningNext]_openingVars, Sound(file)
               PROVE  /\ Sound(file') /\ file.version <= file'.version
                      /\ file.revision <= file'.revision /\ file.rows \subseteq file'.rows
    OBVIOUS
  <2>1. file.version \in Int /\ file.revision \in Int
    BY DEF OpeningInv, OpeningTypeOK, Opener, File, FileFields
  <2>2. CASE file' = file
    BY <2>1, <2>2 DEF Sound, Empty, SchemaOne, SchemaTwo, ValidSchema, ValidSchemaOne
  <2> QED BY <2>2, OnlyForward DEF Forward
<1> QED BY <1>1, OpeningSound, PTL DEF OpeningSpec, StoreMovesForward

\* Openers that race never take each other's work for damage.
THEOREM SoundStoresNotRejected == OpeningSpec => []SoundStoreNotRejected
<1>1. OpeningInv => SoundStoreNotRejected
  BY DEF SoundStoreNotRejected, OpeningInv, OpenerSound
<1> QED BY <1>1, OpeningSound, PTL

\* No opener grows the file beyond its budget.
THEOREM BudgetsInForce == OpeningSpec => []BudgetInForce
<1>1. OpeningInv => BudgetInForce
  BY DEF BudgetInForce, OpeningInv, OpenerSound, InTransaction
<1> QED BY <1>1, OpeningSound, PTL

\* What a host relies on after open: a complete store, and a ceiling in force.
THEOREM OpenedStoresHold == OpeningSpec => []OpenedStoreHolds
<1>1. OpenStoreIsSound /\ BudgetInForce => OpenedStoreHolds
  BY DEF OpenedStoreHolds
<1> QED BY <1>1, OpenStoresSound, BudgetsInForce, PTL

\* No sequence of opens, failures and crashes damages the file that is there.
THEOREM FilesAreRespected == OpeningSpec => FileIsRespected
BY UnknownFilesUntouched, StoresMoveForward, PTL DEF FileIsRespected
=============================================================================
