------------------------ MODULE DatabaseSessionProofs ------------------------
(***************************************************************************)
(* Proofs about DatabaseSession, for any number of hosts, rows and any     *)
(* bounds.  The argument is about one host: its handle, its connection and *)
(* its invocation agree at every step, and no other host touches them; the *)
(* file only grows.                                                        *)
(***************************************************************************)
EXTENDS DatabaseSession, TLAPS

\* The handle, the connection and the phase of h fit together: an open handle
\* of a running guest stands for the connection's transaction with everything
\* it wrote, and without a handle the connection is in autocommit unless it is
\* poisoned.
Agrees(h) ==
    /\ lock[h] = "none" => staged[h] = {}
    /\ live[h] = "none" => written[h] = {} /\ (h \notin poisoned => lock[h] = "none")
    /\ pc[h] = "idle" => live[h] = "none"
    /\ pc[h] = "guest" /\ live[h] # "none" => lock[h] # "none" /\ staged[h] = written[h]
    /\ pc[h] = "verifying" => lock[h] = "none" /\ written[h] \subseteq file

IInv == TypeOK /\ CommittedIsDurable /\ \A h \in Hosts : Agrees(h)

\* The initial state satisfies the invariant.
LEMMA InitHolds == Init => IInv
BY DatabaseAssumption
   DEF Init, IInv, TypeOK, CommittedIsDurable, Agrees, Locks, Phases, Modes

\* What a step of h leaves alone: the other hosts, and the rows in the file.
LocalTo(h) ==
    /\ file \subseteq file'
    /\ \A g \in Hosts \ {h} :
          /\ lock'[g] = lock[g] /\ staged'[g] = staged[g] /\ written'[g] = written[g]
          /\ pc'[g] = pc[g] /\ live'[g] = live[g]
          /\ g \in poisoned' <=> g \in poisoned

\* So a step of h need only be looked at where h is concerned.
LEMMA LocalStep ==
    ASSUME IInv, NEW h \in Hosts, LocalTo(h), TypeOK', CommittedIsDurable', Agrees(h)'
    PROVE  IInv'
<1>1. ASSUME NEW g \in Hosts, g # h
      PROVE  Agrees(g)'
  <2>1. Agrees(g)
    BY DEF IInv
  <2>2. g \in Hosts \ {h}
    BY <1>1
  <2>3. /\ lock'[g] = lock[g] /\ staged'[g] = staged[g] /\ written'[g] = written[g]
        /\ pc'[g] = pc[g] /\ live'[g] = live[g]
        /\ g \in poisoned' <=> g \in poisoned
        /\ file \subseteq file'
    BY <2>2 DEF LocalTo
  <2> QED
    BY <2>1, <2>3 DEF Agrees
<1> QED
  BY <1>1 DEF IInv

\* A transaction that is over leaves its host in autocommit.
LEMMA UnwoundFacts ==
    ASSUME TypeOK, NEW h \in Hosts, Unwound(h)
    PROVE  /\ lock' \in [Hosts -> Locks] /\ staged' \in [Hosts -> SUBSET Rows]
           /\ poisoned' = poisoned
           /\ lock'[h] = "none" /\ staged'[h] = {}
           /\ \A g \in Hosts \ {h} : lock'[g] = lock[g] /\ staged'[g] = staged[g]
BY DEF TypeOK, Unwound, Locks

\* A rollback leaves its host in autocommit or poisoned, and no other host
\* affected.
LEMMA RollbackFacts ==
    ASSUME TypeOK, NEW h \in Hosts, Agrees(h), RollbackNow(h) \/ Poison(h)
    PROVE  /\ lock' \in [Hosts -> Locks] /\ staged' \in [Hosts -> SUBSET Rows]
           /\ poisoned' \subseteq Hosts
           /\ lock'[h] = "none" => staged'[h] = {}
           /\ h \notin poisoned' => lock'[h] = "none"
           /\ \A g \in Hosts \ {h} :
                 /\ lock'[g] = lock[g] /\ staged'[g] = staged[g]
                 /\ g \in poisoned' <=> g \in poisoned
<1>1. CASE Unwound(h)
  BY <1>1, UnwoundFacts DEF TypeOK
<1>2. CASE Poison(h)
  BY <1>2 DEF Poison, TypeOK, Agrees
<1> QED
  BY <1>1, <1>2 DEF RollbackNow

\* Every step that closes the handle of h by rolling its transaction back.
LEMMA ClosingStep ==
    ASSUME IInv, NEW h \in Hosts, RollbackNow(h) \/ Poison(h), Closed(h), ReportUndone(h),
           NEW p \in Phases \ {"verifying"}, pc' = [pc EXCEPT ![h] = p],
           file' = file, begun' = begun, operations' = operations, committed' = committed
    PROVE  IInv'
<1>1. TypeOK /\ CommittedIsDurable /\ Agrees(h)
  BY DEF IInv
<1>2. /\ lock' \in [Hosts -> Locks] /\ staged' \in [Hosts -> SUBSET Rows]
      /\ poisoned' \subseteq Hosts
      /\ lock'[h] = "none" => staged'[h] = {}
      /\ h \notin poisoned' => lock'[h] = "none"
      /\ \A g \in Hosts \ {h} :
            /\ lock'[g] = lock[g] /\ staged'[g] = staged[g]
            /\ g \in poisoned' <=> g \in poisoned
  BY <1>1, RollbackFacts
<1>3. /\ live' \in [Hosts -> Modes \cup {"none"}] /\ live'[h] = "none"
      /\ written' \in [Hosts -> SUBSET Rows] /\ written'[h] = {}
      /\ undone' \subseteq Rows
      /\ pc' \in [Hosts -> Phases] /\ pc'[h] = p
      /\ \A g \in Hosts \ {h} : live'[g] = live[g] /\ written'[g] = written[g] /\ pc'[g] = pc[g]
  BY <1>1 DEF Closed, ReportUndone, TypeOK
<1>4. TypeOK'
  BY <1>1, <1>2, <1>3 DEF TypeOK
<1>5. CommittedIsDurable'
  BY <1>1 DEF CommittedIsDurable
<1>6. LocalTo(h)
  BY <1>2, <1>3 DEF LocalTo
<1>7. Agrees(h)'
  BY <1>2, <1>3 DEF Agrees
<1> QED
  BY <1>4, <1>5, <1>6, <1>7, LocalStep

-----------------------------------------------------------------------------
(* One lemma per action that is not a closing step                         *)

\* A new invocation finds its connection in autocommit or refuses to use it.
LEMMA InvokeHolds == ASSUME IInv, NEW h \in Hosts, Invoke(h) PROVE IInv'
<1>1. TypeOK /\ CommittedIsDurable /\ Agrees(h)
  BY DEF IInv
<1>2. TypeOK'
  BY <1>1, DatabaseAssumption DEF Invoke, TypeOK, connection, Phases
<1>3. CommittedIsDurable' /\ LocalTo(h)
  BY <1>1 DEF Invoke, TypeOK, connection, CommittedIsDurable, LocalTo
<1>4. Agrees(h)'
  BY <1>1 DEF Invoke, TypeOK, connection, Agrees
<1> QED
  BY <1>2, <1>3, <1>4, LocalStep

\* A new transaction has nothing staged and nothing written.
LEMMA BeginHolds ==
    ASSUME IInv, NEW h \in Hosts, NEW mode \in Modes, BeginTransaction(h, mode) PROVE IInv'
<1>1. TypeOK /\ CommittedIsDurable /\ Agrees(h)
  BY DEF IInv
<1>2. TypeOK'
  <2>1. begun' \in [Hosts -> 0..MaxTransactions] /\ operations' \in [Hosts -> 0..MaxOperations]
    BY <1>1, DatabaseAssumption DEF BeginTransaction, TypeOK
  <2>2. lock' \in [Hosts -> Locks] /\ live' \in [Hosts -> Modes \cup {"none"}]
    BY <1>1 DEF BeginTransaction, TypeOK, Locks
  <2> QED
    BY <1>1, <2>1, <2>2 DEF BeginTransaction, TypeOK, history
<1>3. CommittedIsDurable' /\ LocalTo(h)
  BY <1>1 DEF BeginTransaction, TypeOK, history, CommittedIsDurable, LocalTo
<1>4. Agrees(h)'
  BY <1>1 DEF BeginTransaction, TypeOK, history, Agrees, Modes
<1> QED
  BY <1>2, <1>3, <1>4, LocalStep

\* A refused begin may poison, and leaves the handle alone.
LEMMA BeginRefusedHolds == ASSUME IInv, NEW h \in Hosts, BeginRefused(h) PROVE IInv'
<1>1. TypeOK /\ CommittedIsDurable /\ Agrees(h)
  BY DEF IInv
<1>2. TypeOK'
  BY <1>1 DEF BeginRefused, Trapped, TypeOK, history, Phases
<1>3. CommittedIsDurable' /\ LocalTo(h)
  BY <1>1 DEF BeginRefused, Trapped, TypeOK, history, CommittedIsDurable, LocalTo
<1>4. Agrees(h)'
  BY <1>1 DEF BeginRefused, Trapped, TypeOK, history, Agrees
<1> QED
  BY <1>2, <1>3, <1>4, LocalStep

\* A query takes at most the lock of a reader.
LEMMA QueryHolds == ASSUME IInv, NEW h \in Hosts, Query(h) PROVE IInv'
<1>1. TypeOK /\ CommittedIsDurable /\ Agrees(h)
  BY DEF IInv
<1>2. TypeOK'
  <2>1. operations' \in [Hosts -> 0..MaxOperations]
    BY <1>1, DatabaseAssumption DEF Query, MayOperate, TypeOK
  <2>2. lock' \in [Hosts -> Locks]
    BY <1>1 DEF Query, TypeOK, Locks
  <2> QED
    BY <1>1, <2>1, <2>2 DEF Query, TypeOK, history
<1>3. CommittedIsDurable' /\ LocalTo(h)
  BY <1>1 DEF Query, TypeOK, history, CommittedIsDurable, LocalTo
<1>4. Agrees(h)'
  BY <1>1 DEF Query, TypeOK, history, Agrees, MayOperate
<1> QED
  BY <1>2, <1>3, <1>4, LocalStep

\* A mutation by a guest with an open handle is staged in its transaction.
LEMMA RunExecuteFacts ==
    ASSUME IInv, NEW h \in Hosts, NEW r \in Rows, MayOperate(h), RunExecute(h, r)
    PROVE  /\ file' = file
           /\ operations' \in [Hosts -> 0..MaxOperations]
           /\ written' \in [Hosts -> SUBSET Rows] /\ staged' \in [Hosts -> SUBSET Rows]
           /\ staged'[h] = written'[h]
           /\ \A g \in Hosts \ {h} : staged'[g] = staged[g] /\ written'[g] = written[g]
<1>1. TypeOK /\ Agrees(h)
  BY DEF IInv
<1>2. lock[h] # "none" /\ staged[h] = written[h]
  BY <1>1 DEF MayOperate, Agrees
<1>3. operations' \in [Hosts -> 0..MaxOperations]
  BY <1>1, DatabaseAssumption DEF RunExecute, MayOperate, TypeOK
<1> QED
  BY <1>1, <1>2, <1>3 DEF RunExecute, TypeOK

\* Whether or not the disk has room for it.
LEMMA ExecuteHolds ==
    ASSUME IInv, NEW h \in Hosts, NEW r \in Rows, Execute(h, r) \/ ExecuteOverBudget(h, r)
    PROVE  IInv'
<1>1. TypeOK /\ CommittedIsDurable /\ Agrees(h)
  BY DEF IInv
<1>2. /\ MayOperate(h) /\ RunExecute(h, r)
      /\ lock' = lock /\ poisoned' = poisoned /\ live' = live /\ begun' = begun
      /\ committed' = committed /\ undone' = undone
  BY DEF Execute, ExecuteOverBudget, history
<1>3. /\ pc' \in [Hosts -> Phases] /\ pc'[h] \in {"guest", "trapped"}
      /\ \A g \in Hosts \ {h} : pc'[g] = pc[g]
  BY <1>1, <1>2 DEF Execute, ExecuteOverBudget, Trapped, MayOperate, TypeOK, Phases
<1>4. /\ file' = file
      /\ operations' \in [Hosts -> 0..MaxOperations]
      /\ written' \in [Hosts -> SUBSET Rows] /\ staged' \in [Hosts -> SUBSET Rows]
      /\ staged'[h] = written'[h]
      /\ \A g \in Hosts \ {h} : staged'[g] = staged[g] /\ written'[g] = written[g]
  BY <1>2, RunExecuteFacts
<1>5. TypeOK'
  BY <1>1, <1>2, <1>3, <1>4 DEF TypeOK
<1>6. CommittedIsDurable' /\ LocalTo(h)
  BY <1>1, <1>2, <1>3, <1>4 DEF CommittedIsDurable, LocalTo
<1>7. Agrees(h)'
  BY <1>1, <1>2, <1>3, <1>4 DEF Agrees, MayOperate
<1> QED
  BY <1>5, <1>6, <1>7, LocalStep

\* A failed operation ends the guest, so an open handle whose transaction
\* SQLite has unwound is never used again.
LEMMA OperationFailedHolds == ASSUME IInv, NEW h \in Hosts, OperationFailed(h) PROVE IInv'
<1>1. TypeOK /\ CommittedIsDurable /\ Agrees(h)
  BY DEF IInv
<1>2. /\ lock' \in [Hosts -> Locks] /\ staged' \in [Hosts -> SUBSET Rows]
      /\ poisoned' = poisoned
      /\ lock'[h] = "none" => staged'[h] = {}
      /\ \A g \in Hosts \ {h} : lock'[g] = lock[g] /\ staged'[g] = staged[g]
  <2>1. CASE Unwound(h)
    BY <1>1, <2>1, UnwoundFacts
  <2>2. CASE UNCHANGED connection
    BY <1>1, <2>2 DEF connection, TypeOK, Agrees
  <2> QED
    BY <2>1, <2>2 DEF OperationFailed
<1>3. TypeOK'
  BY <1>1, <1>2 DEF OperationFailed, Trapped, TypeOK, history, Phases
<1>4. CommittedIsDurable' /\ LocalTo(h)
  BY <1>1, <1>2 DEF OperationFailed, Trapped, TypeOK, history, CommittedIsDurable, LocalTo
<1>5. Agrees(h)'
  BY <1>1, <1>2 DEF OperationFailed, Trapped, TypeOK, history, Agrees
<1> QED
  BY <1>3, <1>4, <1>5, LocalStep

\* COMMIT publishes exactly what was written under the handle.
LEMMA CommitFacts ==
    ASSUME IInv, NEW h \in Hosts, Commit(h)
    PROVE  staged[h] = written[h] /\ file' = file \cup written[h] /\ pc'[h] = "verifying"
<1>1. TypeOK /\ Agrees(h)
  BY DEF IInv
<1> QED
  BY <1>1 DEF Commit, Agrees, TypeOK

\* After COMMIT the handle is still open, the connection is not.
LEMMA CommitHolds == ASSUME IInv, NEW h \in Hosts, Commit(h) PROVE IInv'
<1>1. TypeOK /\ CommittedIsDurable /\ Agrees(h)
  BY DEF IInv
<1>2. staged[h] = written[h] /\ file' = file \cup written[h] /\ pc'[h] = "verifying"
  BY CommitFacts
<1>3. Unwound(h)
  BY DEF Commit
<1>4. /\ lock' \in [Hosts -> Locks] /\ staged' \in [Hosts -> SUBSET Rows]
      /\ poisoned' = poisoned
      /\ lock'[h] = "none" /\ staged'[h] = {}
      /\ \A g \in Hosts \ {h} : lock'[g] = lock[g] /\ staged'[g] = staged[g]
  BY <1>1, <1>3, UnwoundFacts
<1>5. TypeOK'
  BY <1>1, <1>2, <1>4 DEF Commit, TypeOK, history, Phases
<1>6. CommittedIsDurable' /\ LocalTo(h)
  BY <1>1, <1>2, <1>4 DEF Commit, TypeOK, history, CommittedIsDurable, LocalTo
<1>7. Agrees(h)'
  BY <1>1, <1>2, <1>4 DEF Commit, TypeOK, history, Agrees
<1> QED
  BY <1>5, <1>6, <1>7, LocalStep

\* What is reported as committed has been published before.
LEMMA VerifiedHolds == ASSUME IInv, NEW h \in Hosts, CommitVerified(h) PROVE IInv'
<1>1. TypeOK /\ CommittedIsDurable /\ Agrees(h)
  BY DEF IInv
<1>2. TypeOK'
  BY <1>1 DEF CommitVerified, Closed, TypeOK, connection, Phases
<1>3. CommittedIsDurable' /\ LocalTo(h)
  BY <1>1 DEF CommitVerified, Closed, TypeOK, connection, CommittedIsDurable, LocalTo, Agrees
<1>4. Agrees(h)'
  BY <1>1 DEF CommitVerified, Closed, TypeOK, connection, Agrees
<1> QED
  BY <1>2, <1>3, <1>4, LocalStep

\* A commit that checkpoint_and_verify refuses closes its handle on a clean connection.
LEMMA UnverifiedHolds == ASSUME IInv, NEW h \in Hosts, CommitUnverified(h) PROVE IInv'
<1>1. TypeOK /\ CommittedIsDurable /\ Agrees(h)
  BY DEF IInv
<1>2. TypeOK'
  BY <1>1 DEF CommitUnverified, ReportUndone, Closed, Trapped, TypeOK, connection, Phases
<1>3. CommittedIsDurable' /\ LocalTo(h)
  BY <1>1 DEF CommitUnverified, ReportUndone, Closed, Trapped, TypeOK, connection,
              CommittedIsDurable, LocalTo
<1>4. Agrees(h)'
  BY <1>1 DEF CommitUnverified, ReportUndone, Closed, Trapped, TypeOK, connection, Agrees
<1> QED
  BY <1>2, <1>3, <1>4, LocalStep

\* A trap leaves everything to the cleanup.
LEMMA TrapHolds == ASSUME IInv, NEW h \in Hosts, Trap(h) PROVE IInv'
<1>1. TypeOK /\ CommittedIsDurable /\ Agrees(h)
  BY DEF IInv
<1>2. TypeOK'
  BY <1>1 DEF Trap, Trapped, TypeOK, connection, history, Phases
<1>3. CommittedIsDurable' /\ LocalTo(h)
  BY <1>1 DEF Trap, Trapped, TypeOK, connection, history, CommittedIsDurable, LocalTo
<1>4. Agrees(h)'
  BY <1>1 DEF Trap, Trapped, TypeOK, connection, history, Agrees
<1> QED
  BY <1>2, <1>3, <1>4, LocalStep

\* The cleanup closes an open handle, and finds nothing to do without one.
LEMMA FinishHolds == ASSUME IInv, NEW h \in Hosts, Finish(h) PROVE IInv'
<1>1. TypeOK /\ CommittedIsDurable /\ Agrees(h)
  BY DEF IInv
<1>2. CASE live[h] # "none"
  <2>1. /\ RollbackNow(h) /\ ReportUndone(h) /\ Closed(h)
        /\ pc' = [pc EXCEPT ![h] = "idle"]
        /\ file' = file /\ begun' = begun /\ operations' = operations /\ committed' = committed
    BY <1>2 DEF Finish, AbandonAll
  <2>2. "idle" \in Phases \ {"verifying"}
    BY DEF Phases
  <2> QED
    BY <2>1, <2>2, ClosingStep
<1>3. CASE live[h] = "none"
  <2>1. /\ UNCHANGED <<connection, written, undone>>
        /\ Closed(h) /\ pc' = [pc EXCEPT ![h] = "idle"]
        /\ file' = file /\ begun' = begun /\ operations' = operations /\ committed' = committed
    BY <1>3 DEF Finish, AbandonAll
  <2>2. TypeOK'
    BY <1>1, <2>1 DEF Closed, TypeOK, connection, Phases
  <2>3. CommittedIsDurable' /\ LocalTo(h)
    BY <1>1, <2>1 DEF Closed, TypeOK, connection, CommittedIsDurable, LocalTo
  <2>4. Agrees(h)'
    BY <1>1, <1>3, <2>1 DEF Closed, TypeOK, connection, Agrees
  <2> QED
    BY <2>2, <2>3, <2>4, LocalStep
<1> QED
  BY <1>2, <1>3

\* A restarted host starts afresh.
LEMMA CrashHolds == ASSUME IInv, NEW h \in Hosts, Crash(h) PROVE IInv'
<1>1. TypeOK /\ CommittedIsDurable /\ Agrees(h)
  BY DEF IInv
<1>2. TypeOK'
  BY <1>1 DEF Crash, Closed, TypeOK, Locks, Phases
<1>3. CommittedIsDurable' /\ LocalTo(h)
  BY <1>1 DEF Crash, Closed, TypeOK, CommittedIsDurable, LocalTo
<1>4. Agrees(h)'
  BY <1>1 DEF Crash, Closed, TypeOK, Agrees
<1> QED
  BY <1>2, <1>3, <1>4, LocalStep

\* The steps that close the handle by rolling back.
LEMMA ClosingActionsHold ==
    ASSUME IInv, NEW h \in Hosts,
           OperationInterrupted(h) \/ CommitFailed(h) \/ Rollback(h) \/ DropHandle(h)
    PROVE  IInv'
<1>1. PICK p \in Phases \ {"verifying"} : pc' = [pc EXCEPT ![h] = p]
  BY DEF OperationInterrupted, CommitFailed, Rollback, DropHandle, Trapped, Phases
<1>2. /\ RollbackNow(h) \/ Poison(h)
      /\ Closed(h) /\ ReportUndone(h)
      /\ file' = file /\ begun' = begun /\ operations' = operations /\ committed' = committed
  BY DEF OperationInterrupted, CommitFailed, Rollback, DropHandle
<1> QED
  BY <1>1, <1>2, ClosingStep

-----------------------------------------------------------------------------
\* Every step keeps the invariant.
LEMMA NextHolds == IInv /\ [Next]_vars => IInv'
<1> SUFFICES ASSUME IInv, [Next]_vars PROVE IInv'
  OBVIOUS
<1>1. CASE UNCHANGED vars
  BY <1>1 DEF IInv, TypeOK, CommittedIsDurable, Agrees, vars, connection, history
<1>2. ASSUME NEW h \in Hosts, Invoke(h) PROVE IInv'
  BY <1>2, InvokeHolds
<1>3. ASSUME NEW h \in Hosts, HostCall(h) PROVE IInv'
  <2>1. ASSUME NEW mode \in Modes, BeginTransaction(h, mode) PROVE IInv'
    BY <2>1, BeginHolds
  <2>2. ASSUME NEW r \in Rows, Execute(h, r) \/ ExecuteOverBudget(h, r) PROVE IInv'
    BY <2>2, ExecuteHolds
  <2> QED
    BY <1>3, <2>1, <2>2, BeginRefusedHolds, QueryHolds, OperationFailedHolds, CommitHolds,
       ClosingActionsHold DEF HostCall
<1>4. ASSUME NEW h \in Hosts, Verify(h) PROVE IInv'
  BY <1>4, VerifiedHolds, UnverifiedHolds DEF Verify
<1>5. ASSUME NEW h \in Hosts, Trap(h) \/ Finish(h) \/ Crash(h) PROVE IInv'
  BY <1>5, TrapHolds, FinishHolds, CrashHolds
<1> QED
  BY <1>1, <1>2, <1>3, <1>4, <1>5 DEF Next

\* The invariant holds in every reachable state of any number of hosts.
THEOREM Invariance == Spec => []IInv
BY InitHolds, NextHolds, PTL DEF Spec

\* Every variable keeps its type, the transaction and operation counts within
\* their configured bounds (InvocationDatabases::begin, prepare_operation).
THEOREM SessionTypeCorrect == Spec => []TypeOK
<1>1. IInv => TypeOK
  BY DEF IInv
<1> QED
  BY <1>1, Invariance, PTL

\* No invocation inherits an open transaction from an earlier one on the same
\* connection, whichever way the earlier one ended.
THEOREM NoTransactionInherited == Spec => []NothingInherited
<1>1. IInv => NothingInherited
  BY DEF IInv, Agrees, NothingInherited
<1> QED
  BY <1>1, Invariance, PTL

\* A commit that was reported is in the file and stays there.
THEOREM CommitsAreDurable == Spec => []CommittedIsDurable
<1>1. IInv => CommittedIsDurable
  BY DEF IInv
<1> QED
  BY <1>1, Invariance, PTL

\* The file changes only by whole transactions, at their COMMIT.
THEOREM TransactionsAreWhole == Spec => PublishesWholeTransactions
<1>1. IInv /\ [Next]_vars =>
        [file' # file =>
            \E h \in Hosts : /\ pc[h] = "guest" /\ pc'[h] = "verifying"
                             /\ file' = file \cup written[h]]_vars
  <2> SUFFICES ASSUME IInv, Next, file' # file
               PROVE  \E h \in Hosts : /\ pc[h] = "guest" /\ pc'[h] = "verifying"
                                       /\ file' = file \cup written[h]
    BY DEF vars
  <2>1. PICK h \in Hosts : HostCall(h)
    BY DEF Next, Invoke, Verify, CommitVerified, CommitUnverified, Trap, Finish, Crash
  <2>2. ASSUME NEW r \in Rows, Execute(h, r) \/ ExecuteOverBudget(h, r) PROVE FALSE
    <3>1. MayOperate(h) /\ RunExecute(h, r)
      BY <2>2 DEF Execute, ExecuteOverBudget
    <3> QED
      BY <3>1, RunExecuteFacts
  <2>3. Commit(h)
    BY <2>1, <2>2 DEF HostCall, BeginTransaction, BeginRefused, Query, OperationFailed,
                      OperationInterrupted, CommitFailed, Rollback, DropHandle
  <2>4. pc[h] = "guest"
    BY <2>3 DEF Commit
  <2> QED
    BY <2>3, <2>4, CommitFacts
<1> QED
  BY <1>1, Invariance, PTL DEF Spec, PublishesWholeTransactions

-----------------------------------------------------------------------------
(* What is reported undone is not published, but for a failure after COMMIT *)

\* The rows written under an open handle belong to it alone: nobody was told
\* they are undone, no other handle wrote them, and they are not in the file
\* before their COMMIT.
Apart ==
    \A h \in Hosts :
        /\ written[h] \cap undone = {}
        /\ pc[h] # "verifying" => written[h] \cap file = {}
        /\ \A g \in Hosts \ {h} : written[g] \cap written[h] = {}

\* A step that touches neither rows nor reports.
LEMMA ApartQuiet ==
    ASSUME Apart, written' = written, undone' = undone, file' = file,
           \A g \in Hosts : pc'[g] # "verifying" => pc[g] # "verifying"
    PROVE  Apart'
BY DEF Apart

\* A step that closes the handle of h, whether or not it reports.
LEMMA ApartClosed ==
    ASSUME TypeOK, Apart, NEW h \in Hosts, written' = [written EXCEPT ![h] = {}], file' = file,
           undone' = undone \/ undone' = undone \cup written[h],
           \A g \in Hosts \ {h} : pc'[g] = pc[g]
    PROVE  Apart'
<1>1. /\ written'[h] = {}
      /\ \A g \in Hosts \ {h} : written'[g] = written[g]
  BY DEF TypeOK
<1>2. ASSUME NEW g \in Hosts
      PROVE  /\ written'[g] \cap undone' = {}
             /\ pc'[g] # "verifying" => written'[g] \cap file' = {}
             /\ \A f \in Hosts \ {g} : written'[f] \cap written'[g] = {}
  <2>1. CASE g = h
    BY <1>1, <2>1
  <2>2. CASE g # h
    <3>1. /\ written[g] \cap undone = {}
          /\ pc[g] # "verifying" => written[g] \cap file = {}
          /\ written[g] \cap written[h] = {}
      BY <2>2 DEF Apart
    <3>2. ASSUME NEW f \in Hosts \ {g} PROVE written'[f] \cap written'[g] = {}
      <4>1. written[f] \cap written[g] = {}
        BY DEF Apart
      <4> QED
        BY <1>1, <2>2, <4>1
    <3> QED
      BY <1>1, <2>2, <3>1, <3>2
  <2> QED
    BY <2>1, <2>2
<1> QED
  BY <1>2 DEF Apart

\* A mutation writes a row that nobody has written.
LEMMA ApartExecute ==
    ASSUME IInv, Apart, NEW h \in Hosts, NEW r \in Rows, Execute(h, r) \/ ExecuteOverBudget(h, r)
    PROVE  Apart'
<1>1. TypeOK
  BY DEF IInv
<1>2. /\ MayOperate(h) /\ RunExecute(h, r) /\ r \in Unused /\ undone' = undone
      /\ written' = [written EXCEPT ![h] = @ \cup {r}]
  BY DEF Execute, ExecuteOverBudget, RunExecute, history
<1>3. file' = file
  BY <1>2, RunExecuteFacts
<1>4. \A g \in Hosts : pc'[g] # "verifying" => pc[g] # "verifying"
  BY <1>1, <1>2 DEF Execute, ExecuteOverBudget, Trapped, MayOperate, TypeOK
<1>5. r \notin file /\ r \notin undone /\ \A g \in Hosts : r \notin written[g]
  BY <1>2 DEF Unused
<1>6. /\ written'[h] = written[h] \cup {r}
      /\ \A g \in Hosts \ {h} : written'[g] = written[g]
  BY <1>1, <1>2 DEF TypeOK
<1>7. ASSUME NEW g \in Hosts
      PROVE  /\ written'[g] \cap undone' = {}
             /\ pc'[g] # "verifying" => written'[g] \cap file' = {}
             /\ \A f \in Hosts \ {g} : written'[f] \cap written'[g] = {}
  <2>1. /\ written[g] \cap undone = {}
        /\ pc[g] # "verifying" => written[g] \cap file = {}
        /\ \A f \in Hosts \ {g} : written[f] \cap written[g] = {}
    BY DEF Apart
  <2>2. written'[g] \cap undone' = {}
    BY <1>2, <1>5, <1>6, <2>1
  <2>3. pc'[g] # "verifying" => written'[g] \cap file' = {}
    BY <1>3, <1>4, <1>5, <1>6, <2>1
  <2>4. ASSUME NEW f \in Hosts \ {g} PROVE written'[f] \cap written'[g] = {}
    BY <1>5, <1>6, <2>1
  <2> QED
    BY <2>2, <2>3, <2>4
<1> QED
  BY <1>7 DEF Apart

\* COMMIT moves the rows of its own handle into the file.
LEMMA ApartCommit == ASSUME IInv, Apart, NEW h \in Hosts, Commit(h) PROVE Apart'
<1>1. file' = file \cup written[h] /\ pc'[h] = "verifying"
  BY CommitFacts
<1>2. written' = written /\ undone' = undone /\ \A g \in Hosts \ {h} : pc'[g] = pc[g]
  BY DEF Commit, history, IInv, TypeOK
<1>3. ASSUME NEW g \in Hosts, pc'[g] # "verifying" PROVE written'[g] \cap file' = {}
  <2>1. g \in Hosts \ {h}
    BY <1>1, <1>3
  <2>2. written[g] \cap file = {} /\ written[g] \cap written[h] = {}
    BY <1>2, <1>3, <2>1 DEF Apart
  <2> QED
    BY <1>1, <1>2, <2>2
<1> QED
  BY <1>2, <1>3 DEF Apart

\* Every step keeps the rows of different handles apart.
LEMMA ApartNext == IInv /\ Apart /\ [Next]_vars => Apart'
<1> SUFFICES ASSUME IInv, Apart, [Next]_vars PROVE Apart'
  OBVIOUS
<1>0. TypeOK
  BY DEF IInv
<1>1. CASE UNCHANGED vars
  BY <1>1, ApartQuiet DEF vars, history
<1>2. ASSUME NEW h \in Hosts, Invoke(h) \/ Trap(h) PROVE Apart'
  <2>1. \A g \in Hosts : pc'[g] # "verifying" => pc[g] # "verifying"
    BY <1>0, <1>2 DEF Invoke, Trap, Trapped, TypeOK
  <2> QED
    BY <1>2, <2>1, ApartQuiet DEF Invoke, Trap, history
<1>3. ASSUME NEW h \in Hosts, HostCall(h) PROVE Apart'
  <2>1. ASSUME NEW r \in Rows, Execute(h, r) \/ ExecuteOverBudget(h, r) PROVE Apart'
    BY <2>1, ApartExecute
  <2>2. CASE Commit(h)
    BY <2>2, ApartCommit
  <2>3. CASE OperationInterrupted(h) \/ CommitFailed(h) \/ Rollback(h) \/ DropHandle(h)
    <3>1. file' = file /\ ReportUndone(h) /\ \A g \in Hosts \ {h} : pc'[g] = pc[g]
      BY <1>0, <2>3 DEF OperationInterrupted, CommitFailed, Rollback, DropHandle, Trapped, TypeOK
    <3> QED
      BY <1>0, <3>1, ApartClosed DEF ReportUndone
  <2>4. CASE \/ \E mode \in Modes : BeginTransaction(h, mode)
             \/ BeginRefused(h) \/ Query(h) \/ OperationFailed(h)
    <3>1. /\ written' = written /\ undone' = undone /\ file' = file
          /\ \A g \in Hosts : pc'[g] # "verifying" => pc[g] # "verifying"
      BY <1>0, <2>4 DEF BeginTransaction, BeginRefused, Query, OperationFailed, Trapped, history,
                        MayOperate, TypeOK
    <3> QED
      BY <3>1, ApartQuiet
  <2> QED
    BY <1>3, <2>1, <2>2, <2>3, <2>4 DEF HostCall
<1>4. ASSUME NEW h \in Hosts, Verify(h) PROVE Apart'
  <2>1. /\ file' = file /\ written' = [written EXCEPT ![h] = {}]
        /\ undone' = undone \/ undone' = undone \cup written[h]
        /\ \A g \in Hosts \ {h} : pc'[g] = pc[g]
    BY <1>0, <1>4 DEF Verify, CommitVerified, CommitUnverified, ReportUndone, Trapped, TypeOK
  <2> QED
    BY <1>0, <2>1, ApartClosed
<1>5. ASSUME NEW h \in Hosts, Finish(h) PROVE Apart'
  <2>1. /\ file' = file /\ pc' = [pc EXCEPT ![h] = "idle"] /\ pc[h] # "verifying"
        /\ ReportUndone(h) \/ (written' = written /\ undone' = undone)
    BY <1>5 DEF Finish, AbandonAll
  <2>2. /\ \A g \in Hosts \ {h} : pc'[g] = pc[g]
        /\ \A g \in Hosts : pc'[g] # "verifying" => pc[g] # "verifying"
    BY <1>0, <2>1 DEF TypeOK
  <2>3. CASE ReportUndone(h)
    BY <1>0, <2>1, <2>2, <2>3, ApartClosed DEF ReportUndone
  <2>4. CASE written' = written /\ undone' = undone
    BY <2>1, <2>2, <2>4, ApartQuiet
  <2> QED
    BY <2>1, <2>3, <2>4
<1>6. ASSUME NEW h \in Hosts, Crash(h) PROVE Apart'
  <2>1. /\ file' = file /\ written' = [written EXCEPT ![h] = {}] /\ undone' = undone
        /\ \A g \in Hosts \ {h} : pc'[g] = pc[g]
    BY <1>0, <1>6 DEF Crash, TypeOK
  <2> QED
    BY <1>0, <2>1, ApartClosed
<1> QED
  BY <1>1, <1>2, <1>3, <1>4, <1>5, <1>6 DEF Next

\* A transaction that is reported as rolled back is published only if its COMMIT
\* had succeeded and checkpoint_and_verify failed after it.
THEOREM FailuresUndo == Spec => UndoneOnlyAfterCommit
<1> DEFINE Refused(h) == /\ pc[h] = "verifying" /\ pc'[h] = "trapped"
                         /\ undone' = undone \cup written[h]
           Undoes == undone' \cap file' \subseteq undone \cap file \/ \E h \in Hosts : Refused(h)
<1>1. Init => Apart
  BY DEF Init, Apart
<1>2. IInv /\ Apart /\ [Next]_vars => [Undoes]_vars
  <2> SUFFICES ASSUME IInv, Apart, Next
               PROVE  Undoes
    BY DEF vars
  <2>1. ASSUME NEW h \in Hosts, file' = file, undone' = undone \cup written[h],
               pc[h] # "verifying"
        PROVE  undone' \cap file' \subseteq undone \cap file
    BY <2>1 DEF Apart
  <2>2. ASSUME NEW h \in Hosts, Commit(h) PROVE undone' \cap file' \subseteq undone \cap file
    <3>1. file' = file \cup written[h] /\ undone' = undone
      BY <2>2, CommitFacts DEF Commit, history
    <3> QED
      BY <3>1 DEF Apart
  <2>3. ASSUME NEW h \in Hosts, NEW r \in Rows, Execute(h, r) \/ ExecuteOverBudget(h, r)
        PROVE  file' = file /\ undone' = undone
    <3>1. MayOperate(h) /\ RunExecute(h, r) /\ undone' = undone
      BY <2>3 DEF Execute, ExecuteOverBudget, history
    <3> QED
      BY <3>1, RunExecuteFacts
  <2>4. PICK h \in Hosts :
          Invoke(h) \/ HostCall(h) \/ Verify(h) \/ Trap(h) \/ Finish(h) \/ Crash(h)
    BY DEF Next
  <2>5. CASE Invoke(h) \/ Trap(h) \/ Crash(h) \/ CommitVerified(h)
    BY <2>5 DEF Invoke, Trap, Crash, CommitVerified, history
  <2>6. CASE CommitUnverified(h)
    BY <2>6 DEF CommitUnverified, Trapped, ReportUndone, IInv, TypeOK
  <2>7. CASE Finish(h)
    <3>1. /\ file' = file /\ pc[h] # "verifying"
          /\ undone' = undone \/ undone' = undone \cup written[h]
      BY <2>7 DEF Finish, AbandonAll, ReportUndone
    <3> QED
      BY <2>1, <3>1
  <2>8. CASE OperationInterrupted(h) \/ CommitFailed(h) \/ Rollback(h) \/ DropHandle(h)
    <3>1. file' = file /\ undone' = undone \cup written[h] /\ pc[h] # "verifying"
      BY <2>8 DEF OperationInterrupted, CommitFailed, Rollback, DropHandle, ReportUndone, MayOperate
    <3> QED
      BY <2>1, <3>1
  <2>9. CASE \/ \E mode \in Modes : BeginTransaction(h, mode)
             \/ BeginRefused(h) \/ Query(h) \/ OperationFailed(h)
    BY <2>9 DEF BeginTransaction, BeginRefused, Query, OperationFailed, history
  <2> QED
    BY <2>2, <2>3, <2>4, <2>5, <2>6, <2>7, <2>8, <2>9 DEF HostCall, Verify
<1>3. Spec => []Apart
  BY <1>1, ApartNext, Invariance, PTL DEF Spec
<1> QED
  BY <1>2, <1>3, Invariance, PTL DEF Spec, UndoneOnlyAfterCommit

\* Only whole transactions are published, and what is reported undone is undone
\* unless its COMMIT had succeeded, for any number of hosts sharing the database.
THEOREM TransactionsAreSound == Spec => TransactionsSound
BY TransactionsAreWhole, FailuresUndo, PTL DEF TransactionsSound

\* Nothing open and nothing lost is left behind by an ended invocation.
THEOREM OutcomesAreSettled == Spec => []OutcomesSettled
<1>1. NothingInherited /\ CommittedIsDurable => OutcomesSettled
  BY DEF OutcomesSettled
<1> QED BY <1>1, NoTransactionInherited, CommitsAreDurable, PTL

=============================================================================
