-------------------------- MODULE InvocationStore --------------------------
(***************************************************************************)
(* One durable store and the invocations that transact against it: the     *)
(* snapshot reads and staged writes of InvocationState                     *)
(* (crates/krit-runtime/src/state.rs) over the kv, checkpoints and objects *)
(* tables and meta.revision of krit-state.                                 *)
(*                                                                         *)
(* Invocations run in different threads or processes.  Each access to the  *)
(* database is one SQLite transaction and one step; what an invocation     *)
(* stages lives in its own memory until commit_outcome.                    *)
(***************************************************************************)
EXTENDS Naturals, FiniteSets, FiniteSetsExt

CONSTANTS
    Invocations,
    Keys, Checkpoints,  \* keys of the kv table, names of the checkpoints table
    Objects,            \* the objects of one bucket: 1 .. n in key order
    Values,             \* the bytes a guest may store
    Size,               \* Size[v]: how many bytes v has
    MaxOperations,      \* StoreLimits::max_operations
    MaxObjects,         \* BucketPolicy::max_objects
    MaxBucketBytes,     \* BucketPolicy::max_bucket_bytes
    MaxRevision,        \* the largest representable revision
    Absent,             \* no row
    Unknown             \* not staged; not read

Items == Keys \cup Checkpoints \cup Objects
Content == Values \cup {Absent}

ASSUME StoreAssumption ==
    /\ IsFiniteSet(Objects) /\ Objects \subseteq Nat
    /\ Size \in [Values -> Nat]
    /\ MaxOperations \in Nat /\ MaxObjects \in Nat \ {0} /\ MaxBucketBytes \in Nat \ {0}
    /\ MaxRevision \in Nat
    /\ Absent \notin Values /\ Unknown \notin Content \cup Nat
    /\ Checkpoints \cap (Keys \cup Objects) = {}

VARIABLES
    contents,  \* the rows of the three tables
    revision,  \* meta.revision
    inv,       \* inv[i]: the InvocationState of i
    \* History, read by no action:
    seen,      \* seen[i][x]: what i read of x from the database
    base       \* base[i]: the contents when i read its revision

vars == <<contents, revision, inv, seen, base>>
history == <<seen, base>>

Nothing == [x \in Items |-> Unknown]

\* No store is active: nothing was read and nothing is staged.
Fresh == [pc |-> "running", revision |-> Unknown, operations |-> 0, staged |-> Nothing]

InvocationState ==
    [pc: {"running", "returned"}, revision: Nat \cup {Unknown}, operations: Nat,
     staged: [Items -> Content \cup {Unknown}]]

-----------------------------------------------------------------------------
(* commit_plan, without its queue part                                     *)

\* Whether a mutation of the outcome takes part in the revision guard: every
\* one but a queue publication.
AdvancesRevision(s) == \E x \in Items : s.staged[x] # Unknown

\* The bucket when the mutation of object k is applied: mutations are applied
\* in the key order of the staged map.
RowsBefore(s, k) ==
    [x \in Objects |-> IF x < k /\ s.staged[x] # Unknown THEN s.staged[x] ELSE contents[x]]

\* object_stats: the bytes of the stored objects S.
BucketBytes(rows, S) ==
    LET bytes == [x \in S |-> Size[rows[x]]]
    IN  MapThenSumSet(LAMBDA x : bytes[x], S)

Stored(rows) == {x \in Objects : rows[x] # Absent}

\* Faulty variant: the bytes of the replaced object are subtracted, its count
\* is not looked at.
ObjectPutAcceptedUncounted(s, k) ==
    LET others == Stored(RowsBefore(s, k)) \ {k}
    IN  BucketBytes(RowsBefore(s, k), others) + Size[s.staged[k]] <= MaxBucketBytes

\* ObjectPut: the count bound holds for a new key, the byte bound for
\* retained - previous + new.
ObjectPutAccepted(s, k) ==
    LET others == Stored(RowsBefore(s, k)) \ {k}
    IN  /\ contents[k] = Absent => Cardinality(others) < MaxObjects
        /\ BucketBytes(RowsBefore(s, k), others) + Size[s.staged[k]] <= MaxBucketBytes

\* Faulty variant: the revision is not compared.
CommitAcceptedBlind(s) ==
    \A k \in Objects : s.staged[k] \in Values => ObjectPutAccepted(s, k)

CommitAccepted(s) ==
    /\ AdvancesRevision(s) => s.revision = revision /\ revision < MaxRevision
    /\ \A k \in Objects : s.staged[k] \in Values => ObjectPutAccepted(s, k)

Applied(s) == [x \in Items |-> IF s.staged[x] = Unknown THEN contents[x] ELSE s.staged[x]]

-----------------------------------------------------------------------------
Init ==
    /\ contents = [x \in Items |-> Absent]
    /\ revision = 0
    /\ inv = [i \in Invocations |-> Fresh]
    /\ seen = [i \in Invocations |-> Nothing]
    /\ base = [i \in Invocations |-> Nothing]

\* activate_checked: the first operation, or the binding of a delivery, reads
\* the revision the invocation will work at.
Activate(i) ==
    /\ inv[i].pc = "running" /\ inv[i].revision = Unknown
    /\ inv' = [inv EXCEPT ![i].revision = revision]
    /\ base' = [base EXCEPT ![i] = contents]
    /\ UNCHANGED <<contents, revision, seen>>

\* record_operation for an invocation that is active.
MayOperate(i) ==
    /\ inv[i].pc = "running" /\ inv[i].revision # Unknown
    /\ inv[i].operations < MaxOperations

\* Faulty variant: the row is read without looking at the revision.
SnapshotUnchecked(i) == TRUE

\* get_at_revision, checkpoint_at_revision and object_at_revision refuse a read
\* once the revision has moved on.
Snapshot(i) == revision = inv[i].revision

\* get, checkpoint_get, object_get of a row the invocation has not staged.  A
\* staged one is answered from memory and changes only the operation count.
Read(i, x) ==
    /\ MayOperate(i)
    /\ \/ /\ inv[i].staged[x] # Unknown
          /\ UNCHANGED seen
       \/ /\ inv[i].staged[x] = Unknown /\ Snapshot(i)
          /\ seen' = [seen EXCEPT ![i][x] = contents[x]]
    /\ inv' = [inv EXCEPT ![i].operations = @ + 1]
    /\ UNCHANGED <<contents, revision, base>>

\* put, delete, checkpoint_put, object_put, object_delete.
Stage(i, x, v) ==
    /\ MayOperate(i)
    /\ x \in Checkpoints => v # Absent
    /\ inv' = [inv EXCEPT ![i].staged[x] = v, ![i].operations = @ + 1]
    /\ UNCHANGED <<contents, revision, history>>

\* queue_publish: an operation that takes no part in the revision guard; the
\* queue it appends to is JobQueue's.
Publish(i) ==
    /\ MayOperate(i)
    /\ inv' = [inv EXCEPT ![i].operations = @ + 1]
    /\ UNCHANGED <<contents, revision, history>>

\* The guest returned; its outcome is committed next.
GuestReturns(i) ==
    /\ inv[i].pc = "running"
    /\ inv' = [inv EXCEPT ![i].pc = "returned"]
    /\ UNCHANGED <<contents, revision, history>>

\* The InvocationState is dropped; the next invocation gets a fresh one.
Ended(i) ==
    /\ inv' = [inv EXCEPT ![i] = Fresh]
    /\ seen' = [seen EXCEPT ![i] = Nothing]
    /\ base' = [base EXCEPT ![i] = Nothing]

\* commit_outcome; an invocation with nothing staged touches no database.
Commit(i) ==
    LET s == inv[i]
    IN  /\ s.pc = "returned"
        /\ CommitAccepted(s)
        /\ contents' = Applied(s)
        /\ revision' = IF AdvancesRevision(s) THEN revision + 1 ELSE revision
        /\ Ended(i)

\* The transaction is dropped, and with it every row it had written.
CommitRejected(i) ==
    /\ inv[i].pc = "returned"
    /\ ~CommitAccepted(inv[i])
    /\ Ended(i)
    /\ UNCHANGED <<contents, revision>>

\* A trap, a refused read, an exceeded limit, cancellation or a crash: what was
\* staged is dropped.
Abandon(i) ==
    /\ Ended(i)
    /\ UNCHANGED <<contents, revision>>

Invocation(i) ==
    \/ Activate(i)
    \/ \E x \in Items : Read(i, x)
    \/ \E x \in Items, v \in Content : Stage(i, x, v)
    \/ Publish(i)
    \/ GuestReturns(i)
    \/ Commit(i)
    \/ CommitRejected(i)
    \/ Abandon(i)

Next == \E i \in Invocations : Invocation(i)

Spec == Init /\ [][Next]_vars

-----------------------------------------------------------------------------
(* Properties                                                              *)

\* Every variable keeps its type.
TypeOK ==
    /\ contents \in [Items -> Content]
    /\ revision \in Nat
    /\ inv \in [Invocations -> InvocationState]
    /\ seen \in [Invocations -> [Items -> Content \cup {Unknown}]]
    /\ base \in [Invocations -> [Items -> Content \cup {Unknown}]]

\* Whatever other invocations commit in between, all that an invocation reads
\* belongs to one state the store was in: the one its revision stands for
\* (activate_checked, get_at_revision and its two siblings).
SnapshotReads ==
    \A i \in Invocations, x \in Items : seen[i][x] \in {Unknown, base[i][x]}

\* The bucket never retains more objects or bytes than its policy allows,
\* although an outcome puts and deletes several of them in key order
\* (apply_mutation).
BucketBounded ==
    /\ Cardinality(Stored(contents)) <= MaxObjects
    /\ BucketBytes(contents, Stored(contents)) <= MaxBucketBytes

\* Rows change only together with the revision, which is what makes the
\* comparison of revisions a sound test for "nothing changed" (commit_plan).
RevisionCoversChange ==
    [][contents' # contents => revision' = revision + 1]_vars

Serial == INSTANCE SerialStore
    WITH Clients <- Invocations,
         written <- [i \in Invocations |-> inv[i].staged],
         ready <- [i \in Invocations |-> inv[i].pc = "returned"]

\* The outcomes that write take effect one at a time, all or nothing, and on
\* the contents the invocation saw: no update is lost (commit_plan,
\* commit_outcome).
ImplementsSerialStore == Serial!Spec
=============================================================================
