--------------------------- MODULE DatabaseSession ---------------------------
(***************************************************************************)
(* Application database transactions: the connector                        *)
(* (crates/krit-database/src/connection.rs), the bookkeeping of one        *)
(* invocation (crates/krit-runtime/src/database.rs) and the host calls and *)
(* cleanup around a guest (crates/krit-runtime/src/lib.rs).                *)
(*                                                                         *)
(* A host is one Runtime with the connection it has open on the database   *)
(* file; its scheduler lock lets it run one invocation at a time.  Several *)
(* hosts share the file, and SQLite's locks keep them apart.               *)
(*                                                                         *)
(* The file is the set of rows in it, one page each.  A mutation inserts a *)
(* row nobody has inserted before, and the journal exists from the first   *)
(* mutation of a transaction to its end.  Every host call that fails is a  *)
(* trap: the guest does not run again.                                     *)
(***************************************************************************)
EXTENDS Naturals, FiniteSets

CONSTANTS
    Hosts,
    Rows,
    Budget,           \* DatabaseLimits::max_database_bytes, in pages
    JournalPages,     \* the size of a rollback journal
    MaxTransactions,  \* max_transactions_per_invocation
    MaxOperations     \* max_operations_per_transaction

ASSUME DatabaseAssumption ==
    /\ Budget \in Nat \ {0} /\ JournalPages \in Nat \ {0}
    /\ MaxTransactions \in Nat \ {0}
    /\ MaxOperations \in Nat \ {0}

Modes == {"read", "write"}
\* What a connection holds: autocommit; BEGIN DEFERRED before its first read;
\* the SHARED lock of a reader; the RESERVED lock of BEGIN IMMEDIATE.
Locks == {"none", "deferred", "shared", "reserved"}
Phases == {"idle", "guest", "verifying", "trapped"}

VARIABLES
    file,        \* the rows in the database file
    lock,        \* of each connection
    staged,      \* rows of each connection's open SQLite transaction
    poisoned,    \* hosts whose database refuses new transactions
    pc,
    live,        \* InvocationDatabases::open: the mode of the one entry, or "none"
    begun, operations,
    \* History, read by no action:
    written,     \* rows of the transaction the handle stands for
    committed,   \* rows the guest was told are committed
    undone       \* rows the guest or the host was told are not

connection == <<lock, staged, poisoned>>
history == <<committed, undone>>
vars == <<file, connection, pc, live, begun, operations, written, history>>

Init ==
    /\ file = {}
    /\ lock = [h \in Hosts |-> "none"]
    /\ staged = [h \in Hosts |-> {}]
    /\ poisoned = {}
    /\ pc = [h \in Hosts |-> "idle"]
    /\ live = [h \in Hosts |-> "none"]
    /\ begun = [h \in Hosts |-> 0]
    /\ operations = [h \in Hosts |-> 0]
    /\ written = [h \in Hosts |-> {}]
    /\ committed = {}
    /\ undone = {}

-----------------------------------------------------------------------------
(* The connection                                                          *)

\* total_disk_bytes of a file with the rows F.
DiskBytes(F) ==
    Cardinality(F) + (IF \E h \in Hosts : staged[h] # {} THEN JournalPages ELSE 0)

\* The transaction of h is over and what it had staged is gone.
Unwound(h) ==
    /\ lock' = [lock EXCEPT ![h] = "none"]
    /\ staged' = [staged EXCEPT ![h] = {}]
    /\ UNCHANGED poisoned

\* ROLLBACK itself failed: the connection keeps its transaction.
Poison(h) == poisoned' = poisoned \cup {h} /\ UNCHANGED <<lock, staged>>

\* Faulty variant: a rollback that fails is forgotten.
RollbackNowSilent(h) ==
    \/ Unwound(h)
    \/ lock[h] # "none" /\ UNCHANGED connection

\* rollback_now.
RollbackNow(h) ==
    \/ Unwound(h)
    \/ lock[h] # "none" /\ Poison(h)

\* The rows written under the handle are reported as undone.
ReportUndone(h) ==
    /\ undone' = undone \cup written[h]
    /\ written' = [written EXCEPT ![h] = {}]

Closed(h) == live' = [live EXCEPT ![h] = "none"]
Trapped(h) == pc' = [pc EXCEPT ![h] = "trapped"]

-----------------------------------------------------------------------------
(* Host calls                                                              *)

Invoke(h) ==
    /\ pc[h] = "idle"
    /\ pc' = [pc EXCEPT ![h] = "guest"]
    /\ begun' = [begun EXCEPT ![h] = 0]
    /\ UNCHANGED <<file, connection, live, operations, written, committed, undone>>

BeginTransaction(h, mode) ==
    /\ pc[h] = "guest" /\ live[h] = "none"
    /\ begun[h] < MaxTransactions
    /\ h \notin poisoned
    /\ lock[h] = "none"
    /\ mode = "write" => \A g \in Hosts : lock[g] # "reserved"
    /\ lock' = [lock EXCEPT ![h] = IF mode = "write" THEN "reserved" ELSE "deferred"]
    /\ live' = [live EXCEPT ![h] = mode]
    /\ begun' = [begun EXCEPT ![h] = @ + 1]
    /\ operations' = [operations EXCEPT ![h] = 0]
    /\ UNCHANGED <<file, staged, poisoned, pc, written, history>>

\* A transaction is open, the count is used up, the database is poisoned, busy
\* or read only, or the invocation is out of time.  A connection found inside
\* a transaction poisons its database.
BeginRefused(h) ==
    /\ pc[h] = "guest"
    /\ poisoned' = IF live[h] = "none" /\ lock[h] # "none" THEN poisoned \cup {h} ELSE poisoned
    /\ Trapped(h)
    /\ UNCHANGED <<file, lock, staged, live, begun, operations, written, history>>

\* prepare_operation.
MayOperate(h) ==
    /\ pc[h] = "guest" /\ live[h] # "none"
    /\ h \notin poisoned
    /\ operations[h] < MaxOperations

Query(h) ==
    /\ MayOperate(h)
    /\ operations' = [operations EXCEPT ![h] = @ + 1]
    /\ lock' = [lock EXCEPT ![h] = IF @ = "deferred" THEN "shared" ELSE @]
    /\ UNCHANGED <<file, staged, poisoned, pc, live, begun, written, history>>

Unused == Rows \ (file \cup undone \cup (UNION {staged[h] \cup written[h] : h \in Hosts}))

\* run_execute: a connection outside a transaction publishes what it runs.
RunExecute(h, r) ==
    /\ operations' = [operations EXCEPT ![h] = @ + 1]
    /\ written' = [written EXCEPT ![h] = @ \cup {r}]
    /\ IF lock[h] = "none"
       THEN file' = file \cup {r} /\ UNCHANGED staged
       ELSE staged' = [staged EXCEPT ![h] = @ \cup {r}] /\ UNCHANGED file

\* Room for one more page (max_page_count), and on disk for the journal.
FitsPageCount(h) == Cardinality(file \cup staged[h]) < Budget
FitsDisk == Cardinality(file) + JournalPages <= Budget

Execute(h, r) ==
    /\ MayOperate(h) /\ live[h] = "write"
    /\ r \in Unused
    /\ FitsPageCount(h) /\ FitsDisk
    /\ RunExecute(h, r)
    /\ UNCHANGED <<lock, poisoned, pc, live, begun, history>>

\* require_disk_budget refuses after the statement has run.
ExecuteOverBudget(h, r) ==
    /\ MayOperate(h) /\ live[h] = "write"
    /\ r \in Unused
    /\ FitsPageCount(h) /\ ~FitsDisk
    /\ RunExecute(h, r)
    /\ Trapped(h)
    /\ UNCHANGED <<lock, poisoned, live, begun, history>>

\* Faulty variant: the guest gets the error and goes on.
OperationFailedQuietly(h) ==
    /\ pc[h] = "guest" /\ live[h] # "none"
    /\ Unwound(h) \/ UNCHANGED connection
    /\ UNCHANGED <<file, pc, live, begun, operations, written, history>>

\* A refused or failed statement; for a full disk or an I/O error SQLite
\* unwinds the transaction by itself and the handle stays open.
OperationFailed(h) ==
    /\ pc[h] = "guest" /\ live[h] # "none"
    /\ Unwound(h) \/ UNCHANGED connection
    /\ Trapped(h)
    /\ UNCHANGED <<file, live, begun, operations, written, history>>

\* finish_operation after SQLITE_INTERRUPT: a deadline or cancellation.
OperationInterrupted(h) ==
    /\ MayOperate(h)
    /\ RollbackNow(h)
    /\ Closed(h)
    /\ Trapped(h)
    /\ ReportUndone(h)
    /\ UNCHANGED <<file, begun, operations, committed>>

\* COMMIT succeeds: no reader is in the way of a writer with changes.
Commit(h) ==
    /\ pc[h] = "guest" /\ live[h] # "none"
    /\ lock[h] # "none"
    /\ staged[h] # {} => \A g \in Hosts : lock[g] # "shared"
    /\ file' = file \cup staged[h]
    /\ Unwound(h)
    /\ pc' = [pc EXCEPT ![h] = "verifying"]
    /\ UNCHANGED <<live, begun, operations, written, history>>

\* checkpoint_and_verify agrees: both pragmas ran and the disk is within budget.
CommitVerified(h) ==
    /\ pc[h] = "verifying"
    /\ DiskBytes(file) <= Budget
    /\ committed' = committed \cup written[h]
    /\ written' = [written EXCEPT ![h] = {}]
    /\ Closed(h)
    /\ pc' = [pc EXCEPT ![h] = "guest"]
    /\ UNCHANGED <<file, connection, begun, operations, undone>>

\* checkpoint_and_verify fails after the COMMIT: a journal_size_limit pragma does
\* not run, or the disk is over its budget.  The handle is marked rolled back.
CommitUnverified(h) ==
    /\ pc[h] = "verifying"
    /\ ReportUndone(h)
    /\ Closed(h)
    /\ Trapped(h)
    /\ UNCHANGED <<file, connection, begun, operations, committed>>

\* COMMIT failed and ROLLBACK followed, or the commit was refused before it
\* began and dropping the retired entry rolled back.  ROLLBACK also fails on a
\* connection that is not in a transaction.
CommitFailed(h) ==
    /\ pc[h] = "guest" /\ live[h] # "none"
    /\ RollbackNow(h) \/ Poison(h)
    /\ Closed(h)
    /\ Trapped(h)
    /\ ReportUndone(h)
    /\ UNCHANGED <<file, begun, operations, committed>>

\* A failed rollback traps.
Rollback(h) ==
    /\ pc[h] = "guest" /\ live[h] # "none"
    /\ RollbackNow(h)
    /\ Closed(h)
    /\ pc' = [pc EXCEPT ![h] = IF poisoned' = poisoned THEN "guest" ELSE "trapped"]
    /\ ReportUndone(h)
    /\ UNCHANGED <<file, begun, operations, committed>>

\* abandon_slot: the guest dropped its handle.
DropHandle(h) ==
    /\ pc[h] = "guest" /\ live[h] # "none"
    /\ RollbackNow(h)
    /\ Closed(h)
    /\ pc' = [pc EXCEPT ![h] = IF poisoned' = poisoned THEN "guest" ELSE "trapped"]
    /\ ReportUndone(h)
    /\ UNCHANGED <<file, begun, operations, committed>>

\* The guest traps by itself, or its fuel or its deadline runs out.
Trap(h) ==
    /\ pc[h] = "guest"
    /\ Trapped(h)
    /\ UNCHANGED <<file, connection, live, begun, operations, written, history>>

\* Faulty variant: a trapped invocation returns before its cleanup.
AbandonAllUnlessTrapped(h) ==
    IF live[h] = "none" \/ pc[h] = "trapped"
    THEN UNCHANGED <<connection, written, undone>>
    ELSE RollbackNow(h) /\ ReportUndone(h)

\* abandon_all.
AbandonAll(h) ==
    IF live[h] = "none"
    THEN UNCHANGED <<connection, written, undone>>
    ELSE RollbackNow(h) /\ ReportUndone(h)

\* finalize_transactions, on every way out of the guest.
Finish(h) ==
    /\ pc[h] \in {"guest", "trapped"}
    /\ AbandonAll(h)
    /\ Closed(h)
    /\ pc' = [pc EXCEPT ![h] = "idle"]
    /\ UNCHANGED <<file, begun, operations, committed>>

\* The process dies and its host is started again: SQLite rolls the journal
\* back, the new connection is in autocommit, and nobody is told anything.
Crash(h) ==
    /\ pc[h] # "idle" \/ h \in poisoned
    /\ lock' = [lock EXCEPT ![h] = "none"]
    /\ staged' = [staged EXCEPT ![h] = {}]
    /\ poisoned' = poisoned \ {h}
    /\ pc' = [pc EXCEPT ![h] = "idle"]
    /\ Closed(h)
    /\ written' = [written EXCEPT ![h] = {}]
    /\ UNCHANGED <<file, begun, operations, committed, undone>>

HostCall(h) ==
    \/ \E mode \in Modes : BeginTransaction(h, mode)
    \/ BeginRefused(h)
    \/ Query(h)
    \/ \E r \in Rows : Execute(h, r) \/ ExecuteOverBudget(h, r)
    \/ OperationFailed(h)
    \/ OperationInterrupted(h)
    \/ Commit(h)
    \/ CommitFailed(h)
    \/ Rollback(h)
    \/ DropHandle(h)

Verify(h) == CommitVerified(h) \/ CommitUnverified(h)

Next == \E h \in Hosts : Invoke(h) \/ HostCall(h) \/ Verify(h) \/ Trap(h) \/ Finish(h) \/ Crash(h)

Spec == Init /\ [][Next]_vars

\* A guest runs for at most its fuel and its deadline, and the host's own code
\* always returns.
FairSpec == Spec /\ \A h \in Hosts : WF_vars(Verify(h)) /\ WF_vars(Finish(h))

-----------------------------------------------------------------------------
(* Properties                                                              *)

\* Every variable keeps its type.
TypeOK ==
    /\ file \subseteq Rows
    /\ lock \in [Hosts -> Locks]
    /\ staged \in [Hosts -> SUBSET Rows]
    /\ poisoned \subseteq Hosts
    /\ pc \in [Hosts -> Phases]
    /\ live \in [Hosts -> Modes \cup {"none"}]
    /\ begun \in [Hosts -> 0..MaxTransactions]
    /\ operations \in [Hosts -> 0..MaxOperations]
    /\ written \in [Hosts -> SUBSET Rows]
    /\ committed \subseteq Rows
    /\ undone \subseteq Rows

\* "No exit path can leave a SQLite connection inside a transaction for the
\* next invocation to inherit": between invocations a connection is in
\* autocommit, or its database refuses transactions (finalize_transactions,
\* finish_operation, rollback_now).
NothingInherited ==
    \A h \in Hosts : pc[h] = "idle" /\ h \notin poisoned => lock[h] = "none" /\ staged[h] = {}

\* Rows reach the file only through the COMMIT of the transaction that wrote
\* them, and all of them together: no statement runs on a connection that has
\* fallen back to autocommit (run_execute, commit, a failed host call traps).
PublishesWholeTransactions ==
    [][file' # file =>
          \E h \in Hosts : /\ pc[h] = "guest" /\ pc'[h] = "verifying"
                           /\ file' = file \cup written[h]]_vars

\* What a guest was told is committed is in the file, for good (commit).
CommittedIsDurable == committed \subseteq file

\* Both together: what an ended invocation leaves behind is settled. Nothing is
\* open, and nothing that was reported as committed is missing.
OutcomesSettled == NothingInherited /\ CommittedIsDurable

\* A failure undoes what it reports as undone, with one exception: once COMMIT
\* has succeeded, a failing checkpoint_and_verify reports the published
\* transaction as rolled back, and traps (commit, finish_operation, rollback_now,
\* abandon_all).  spec/DATABASE.md:342 has no exception: it wants an over-budget
\* write rolled back "rather than being published".
UndoneOnlyAfterCommit ==
    [][undone' \cap file' \subseteq undone \cap file
       \/ \E h \in Hosts : /\ pc[h] = "verifying" /\ pc'[h] = "trapped"
                           /\ undone' = undone \cup written[h]]_vars

\* Both together: only whole transactions are published, and one that is
\* reported undone is, unless its COMMIT had already succeeded.
TransactionsSound == PublishesWholeTransactions /\ UndoneOnlyAfterCommit

\* A lock on the application database is given up, unless the rollback itself
\* fails and poisons the database (finalize_transactions).
LockReleased == \A h \in Hosts : lock[h] # "none" ~> (lock[h] = "none" \/ h \in poisoned)
=============================================================================
