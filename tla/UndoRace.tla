------------------------------- MODULE UndoRace -------------------------------
(***************************************************************************)
(* The undo hold at the level of SQL statements: senders, senders who      *)
(* press Undo, direct payments, and replicas of the scheduler worker run   *)
(* READ COMMITTED transactions that take row locks one at a time and hold  *)
(* them to their end.                                                      *)
(*                                                                         *)
(* A row lock is waited for; a wait ends when the row is free, or with an  *)
(* error (a deadlock victim, SQLSTATE 40P01, or lock_timeout).  An error   *)
(* rolls a user's transaction back; in the worker it rolls back to the     *)
(* savepoint of the task, which frees the rows taken since, and is         *)
(* recorded on the task row.  The writes of a transaction become visible   *)
(* when it commits; TransferTxn shows that what it read under its row      *)
(* locks is still true then.                                               *)
(***************************************************************************)
EXTENDS Holds

CONSTANTS
  Undoers,      \* clients that undo a hold
  Target,       \* undoer -> the hold it undoes
  UndoKey,      \* undoer -> its Idempotency-Key
  Directs,      \* clients that pay directly (REQUEST_SETTLEMENT)
  From, To, Pays,  \* direct payment -> accounts and amount
  Workers,      \* replicas of the scheduler worker
  Nobody,
  BatchSize,    \* BATCH_SIZE
  MaxCrashes    \* bound: processes that die, or lose their connection

VARIABLES
  paid,       \* direct payments that have committed
  undone,     \* completed idempotency rows of undo, as <<hold, key>>
  lock,       \* row -> the process holding it
  pc,         \* where each process stands
  batch,      \* worker -> claimed tasks it has not begun
  current,    \* worker -> the task whose savepoint is open, or Nobody
  savepoint,  \* worker -> rows locked since the savepoint
  done,       \* worker -> tasks completed, not yet committed
  failed,     \* worker -> tasks whose failure is recorded, not yet committed
  crashes

raceVars == <<balance, closed, hold, task, attempts, paid, undone, lock, pc, batch, current,
              savepoint, done, failed, crashes>>
stored == <<balance, closed, hold, task, attempts, paid, undone>>
workerVars == <<batch, current, savepoint, done, failed>>

Senders == {<<"sender", h>> : h \in HoldIds}
Users == Senders \cup Undoers \cup Directs
Procs == Users \cup Workers
Keys == {UndoKey[u] : u \in Undoers}

AccountRow(a) == <<"account", a>>
HoldRow(h) == <<"hold", h>>
TaskRow(h) == <<"task", h>>
KeyRow(h, k) == <<"key", h, k>>
Rows == {AccountRow(a) : a \in Accounts} \cup {HoldRow(h) : h \in HoldIds}
        \cup {TaskRow(h) : h \in HoldIds} \cup {KeyRow(h, k) : h \in HoldIds, k \in Keys}

ASSUME RaceAssumption ==
  /\ Accounts \subseteq Nat
  /\ Target \in [Undoers -> HoldIds]
  /\ From \in [Directs -> Accounts \ {Pending}] /\ To \in [Directs -> Accounts \ {Pending}]
  /\ \A d \in Directs : From[d] # To[d]
  /\ Pays \in [Directs -> Nat \ {0}]
  /\ Nobody \notin Procs
  /\ BatchSize \in Nat \ {0} /\ MaxCrashes \in Nat
\* A process has one role.
ASSUME RolesAssumption ==
  /\ Senders \cap Undoers = {} /\ Senders \cap Directs = {} /\ Undoers \cap Directs = {}
  /\ Users \cap Workers = {}

Init ==
  /\ HoldsInit
  /\ paid = {}
  /\ undone = {}
  /\ lock = [r \in Rows |-> Nobody]
  /\ pc = [p \in Procs |-> "idle"]
  /\ batch = [w \in Workers |-> {}]
  /\ current = [w \in Workers |-> Nobody]
  /\ savepoint = [w \in Workers |-> {}]
  /\ done = [w \in Workers |-> {}]
  /\ failed = [w \in Workers |-> {}]
  /\ crashes = 0

-----------------------------------------------------------------------------
(* Locking.                                                                *)

HoldOf(p) ==
  IF p \in Senders THEN p[2] ELSE IF p \in Undoers THEN Target[p] ELSE current[p]

\* The account rows TransferUseCase.execute locks for p.
AccountsOf(p) ==
  IF p \in Directs THEN {From[p], To[p]}
  ELSE {Pending, IF p \in Workers THEN Receiver[HoldOf(p)] ELSE Sender[HoldOf(p)]}

Missing(p) == {a \in AccountsOf(p) : lock[AccountRow(a)] # p}

\* Ascending id order, as in lock_for_update.
FirstMissing(p) == CHOOSE a \in Missing(p) : \A b \in Missing(p) : a <= b

\* The rows p needs for its next statement.
Wants(p) ==
  CASE pc[p] = "reserve" -> {KeyRow(Target[p], UndoKey[p])}
    [] pc[p] = "latch" -> {HoldRow(HoldOf(p))}
    [] pc[p] = "lock" /\ Missing(p) # {} -> {AccountRow(FirstMissing(p))}
    [] pc[p] = "cancel" -> {TaskRow(Target[p])}
    [] OTHER -> {}

Granted(p) == \A r \in Wants(p) : lock[r] = Nobody
WaitsFor(p, q) == p # q /\ \E r \in Wants(p) : lock[r] = q
Blocked(p) == \E q \in Procs : WaitsFor(p, q)

Released(p, rows) == [r \in Rows |-> IF lock[r] = p /\ r \in rows THEN Nobody ELSE lock[r]]
Taken(p) == [r \in Rows |-> IF r \in Wants(p) THEN p ELSE lock[r]]

\* The transaction of a user ends: commit, or rollback.
Ends(p) ==
  /\ pc' = [pc EXCEPT ![p] = "idle"]
  /\ lock' = Released(p, Rows)
  /\ UNCHANGED <<workerVars, crashes>>

Rollback(p) == Ends(p) /\ UNCHANGED stored

LockAccount(p) ==
  /\ pc[p] = "lock"
  /\ Missing(p) # {}
  /\ Granted(p)
  /\ lock' = Taken(p)
  /\ savepoint' = [w \in Workers |-> IF w = p THEN savepoint[w] \cup Wants(p) ELSE savepoint[w]]
  /\ UNCHANGED <<stored, pc, batch, current, done, failed, crashes>>

Locked(p) == pc[p] = "lock" /\ Missing(p) = {}

-----------------------------------------------------------------------------
(* Payments: sends into the holding account, and direct transfers.         *)

PayBegin(p) ==
  /\ p \in Senders \cup Directs
  /\ pc[p] = "idle"
  /\ IF p \in Senders THEN hold[p[2]] = "none" ELSE p \notin paid
  /\ pc' = [pc EXCEPT ![p] = "lock"]
  /\ UNCHANGED <<stored, lock, workerVars, crashes>>

SendCommit(p) ==
  LET h == p[2] IN
  /\ p \in Senders
  /\ Locked(p)
  /\ CanSend(h)
  /\ balance' = [balance EXCEPT ![Sender[h]] = @ - Amount[h], ![Pending] = @ + Amount[h]]
  /\ hold' = [hold EXCEPT ![h] = "PENDING_UNDO"]
  /\ task' = [task EXCEPT ![h] = "PENDING"]
  /\ Ends(p)
  /\ UNCHANGED <<closed, attempts, paid, undone>>

CanPay(p) == {From[p], To[p]} \cap closed = {} /\ balance[From[p]] >= Pays[p]

DirectCommit(p) ==
  /\ p \in Directs
  /\ Locked(p)
  /\ CanPay(p)
  /\ balance' = [balance EXCEPT ![From[p]] = @ - Pays[p], ![To[p]] = @ + Pays[p]]
  /\ paid' = paid \cup {p}
  /\ Ends(p)
  /\ UNCHANGED <<closed, hold, task, attempts, undone>>

PayReject(p) ==
  /\ p \in Senders \cup Directs
  /\ Locked(p)
  /\ IF p \in Senders THEN ~CanSend(p[2]) ELSE ~CanPay(p)
  /\ Rollback(p)

-----------------------------------------------------------------------------
(* UndoableTransferService.undo.                                           *)

UndoBegin(u) ==
  /\ pc[u] = "idle"
  /\ hold[Target[u]] # "none"
  /\ pc' = [pc EXCEPT ![u] = "reserve"]
  /\ UNCHANGED <<stored, lock, workerVars, crashes>>

\* The key is reserved and the hold read, without a lock.
UndoReserve(u) ==
  /\ pc[u] = "reserve"
  /\ Granted(u)
  /\ <<Target[u], UndoKey[u]>> \notin undone
  /\ hold[Target[u]] = "PENDING_UNDO"
  /\ lock' = Taken(u)
  /\ pc' = [pc EXCEPT ![u] = "latch"]
  /\ UNCHANGED <<stored, workerVars, crashes>>

\* The key was completed before, or the hold is no longer pending.
UndoAnswered(u) ==
  /\ pc[u] = "reserve"
  /\ Granted(u)
  /\ <<Target[u], UndoKey[u]>> \in undone \/ hold[Target[u]] # "PENDING_UNDO"
  /\ Rollback(u)

\* Mutant: the status read before the wait is believed.
UndoLatchUnchecked(u) ==
  /\ pc[u] = "latch"
  /\ u \in Undoers
  /\ Granted(u)
  /\ lock' = Taken(u)
  /\ pc' = [pc EXCEPT ![u] = "lock"]
  /\ UNCHANGED <<stored, workerVars, crashes>>

\* try_transition_status: the UPDATE locks the row and tests its status again.
UndoLatch(u) ==
  /\ pc[u] = "latch"
  /\ u \in Undoers
  /\ Granted(u)
  /\ hold[Target[u]] = "PENDING_UNDO"
  /\ lock' = Taken(u)
  /\ pc' = [pc EXCEPT ![u] = "lock"]
  /\ UNCHANGED <<stored, workerVars, crashes>>

UndoLatchLost(u) ==
  /\ pc[u] = "latch"
  /\ u \in Undoers
  /\ Granted(u)
  /\ hold[Target[u]] # "PENDING_UNDO"
  /\ Rollback(u)

\* Mutant: the idempotency row is completed in a transaction of its own.
UndoRefundCompletesEarly(u) ==
  /\ u \in Undoers
  /\ Locked(u)
  /\ Sender[Target[u]] \notin closed
  /\ balance[Pending] >= Amount[Target[u]]
  /\ pc' = [pc EXCEPT ![u] = "cancel"]
  /\ undone' = undone \cup {<<Target[u], UndoKey[u]>>}
  /\ UNCHANGED <<balance, closed, hold, task, attempts, paid, lock, workerVars, crashes>>

UndoRefund(u) ==
  /\ u \in Undoers
  /\ Locked(u)
  /\ Sender[Target[u]] \notin closed
  /\ balance[Pending] >= Amount[Target[u]]
  /\ pc' = [pc EXCEPT ![u] = "cancel"]
  /\ UNCHANGED <<stored, lock, workerVars, crashes>>

UndoReject(u) ==
  /\ u \in Undoers
  /\ Locked(u)
  /\ Sender[Target[u]] \in closed \/ balance[Pending] < Amount[Target[u]]
  /\ Rollback(u)

\* scheduler.cancel, an UPDATE of the task row, and the commit of it all.
UndoFinish(u) ==
  LET h == Target[u] IN
  /\ pc[u] = "cancel"
  /\ Granted(u)
  /\ balance' = [balance EXCEPT ![Pending] = @ - Amount[h], ![Sender[h]] = @ + Amount[h]]
  /\ hold' = [hold EXCEPT ![h] = "REFUNDED"]
  /\ task' = [task EXCEPT ![h] = IF @ = "PENDING" THEN "CANCELLED" ELSE @]
  /\ undone' = undone \cup {<<h, UndoKey[u]>>}
  /\ Ends(u)
  /\ UNCHANGED <<closed, attempts, paid>>

-----------------------------------------------------------------------------
(* The scheduler worker: run_due_tasks and its commit.                     *)

Claimable == {h \in HoldIds : task[h] = "PENDING" /\ lock[TaskRow(h)] = Nobody}

\* FOR UPDATE SKIP LOCKED.  Which pending tasks are due, and in which order,
\* depends on when their sends began: any may be.
ClaimBatch(w) ==
  /\ pc[w] = "idle"
  /\ \E B \in SUBSET Claimable :
       /\ B # {} /\ Cardinality(B) <= BatchSize
       /\ batch' = [batch EXCEPT ![w] = B]
       /\ lock' = [r \in Rows |-> IF \E h \in B : r = TaskRow(h) THEN w ELSE lock[r]]
  /\ pc' = [pc EXCEPT ![w] = "next"]
  /\ UNCHANGED <<stored, current, savepoint, done, failed, crashes>>

\* A savepoint is opened and the hold read, without a lock; a hold that is no
\* longer pending leaves nothing to do and the task is complete.
BeginTask(w) ==
  /\ pc[w] = "next"
  /\ \E h \in batch[w] :
       /\ current' = [current EXCEPT ![w] = IF hold[h] = "PENDING_UNDO" THEN h ELSE @]
       /\ batch' = [batch EXCEPT ![w] = @ \ {h}]
       /\ done' = [done EXCEPT ![w] = IF hold[h] = "PENDING_UNDO" THEN @ ELSE @ \cup {h}]
       /\ pc' = [pc EXCEPT ![w] = IF hold[h] = "PENDING_UNDO" THEN "latch" ELSE @]
  /\ UNCHANGED <<stored, lock, savepoint, failed, crashes>>

WorkerLatch(w) ==
  /\ pc[w] = "latch"
  /\ w \in Workers
  /\ Granted(w)
  /\ hold[current[w]] = "PENDING_UNDO"
  /\ lock' = Taken(w)
  /\ savepoint' = [savepoint EXCEPT ![w] = @ \cup Wants(w)]
  /\ pc' = [pc EXCEPT ![w] = "lock"]
  /\ UNCHANGED <<stored, batch, current, done, failed, crashes>>

\* The holds whose settlement leg w has written.
Settled(w) == {h \in done[w] : lock[HoldRow(h)] = w}

CanSettle(w) ==
  /\ Receiver[current[w]] \notin closed
  /\ balance[Pending] - Worth(Settled(w)) >= Amount[current[w]]

AfterTask(w) ==
  /\ pc' = [pc EXCEPT ![w] = "next"]
  /\ current' = [current EXCEPT ![w] = Nobody]
  /\ savepoint' = [savepoint EXCEPT ![w] = {}]

SettleTask(w) ==
  /\ w \in Workers
  /\ Locked(w)
  /\ CanSettle(w)
  /\ done' = [done EXCEPT ![w] = @ \cup {current[w]}]
  /\ AfterTask(w)
  /\ UNCHANGED <<stored, lock, batch, failed, crashes>>

\* The handler raises (the settlement is refused, the latch is lost, or a wait
\* ends with an error): back to the savepoint, and record_failure.
TaskFails(w) ==
  /\ w \in Workers
  /\ \/ Locked(w) /\ ~CanSettle(w)
     \/ pc[w] = "latch" /\ (Granted(w) => hold[current[w]] # "PENDING_UNDO")
     \/ pc[w] = "lock" /\ Blocked(w)
  /\ lock' = Released(w, savepoint[w])
  /\ failed' = [failed EXCEPT ![w] = @ \cup {current[w]}]
  /\ AfterTask(w)
  /\ UNCHANGED <<stored, batch, done, crashes>>

\* The memory of a transaction that is over.
Forget(w) ==
  /\ pc' = [pc EXCEPT ![w] = "idle"]
  /\ lock' = Released(w, Rows)
  /\ batch' = [batch EXCEPT ![w] = {}]
  /\ current' = [current EXCEPT ![w] = Nobody]
  /\ savepoint' = [savepoint EXCEPT ![w] = {}]
  /\ done' = [done EXCEPT ![w] = {}]
  /\ failed' = [failed EXCEPT ![w] = {}]

WorkerCommit(w) ==
  /\ pc[w] = "next"
  /\ batch[w] = {}
  /\ balance' = PaidOut(Settled(w))
  /\ hold' = [h \in HoldIds |-> IF h \in Settled(w) THEN "SUCCEEDED" ELSE hold[h]]
  /\ task' = [h \in HoldIds |-> IF h \in done[w] THEN "DONE"
                                ELSE IF h \in failed[w] THEN AfterFailure(h) ELSE task[h]]
  /\ attempts' = [h \in HoldIds |-> IF h \in failed[w] THEN attempts[h] + 1 ELSE attempts[h]]
  /\ Forget(w)
  /\ UNCHANGED <<closed, paid, undone, crashes>>

-----------------------------------------------------------------------------
(* The environment.                                                        *)

\* A user's wait ends with an error: deadlock_detected or lock_not_available.
WaitFails(p) ==
  /\ p \in Users
  /\ Blocked(p)
  /\ Rollback(p)

\* Mutant: a claim outlives the worker that made it.
CrashKeepsClaim(p) ==
  /\ pc[p] # "idle"
  /\ crashes < MaxCrashes
  /\ crashes' = crashes + 1
  /\ pc' = [pc EXCEPT ![p] = "idle"]
  /\ lock' = Released(p, Rows \ {TaskRow(h) : h \in HoldIds})
  /\ UNCHANGED <<stored, workerVars>>

\* A process dies, or loses its connection, in the middle of a transaction.
Crash(p) ==
  /\ pc[p] # "idle"
  /\ crashes < MaxCrashes
  /\ crashes' = crashes + 1
  /\ IF p \in Workers
     THEN Forget(p)
     ELSE /\ pc' = [pc EXCEPT ![p] = "idle"]
          /\ lock' = Released(p, Rows)
          /\ UNCHANGED workerVars
  /\ UNCHANGED stored

CloseAccount(a) ==
  /\ lock[AccountRow(a)] = Nobody
  /\ Close(a)
  /\ UNCHANGED <<paid, undone, lock, pc, workerVars, crashes>>

UndoStep(u) ==
  \/ UndoReserve(u) \/ UndoAnswered(u) \/ UndoLatch(u) \/ UndoLatchLost(u)
  \/ UndoRefund(u) \/ UndoReject(u) \/ UndoFinish(u)

UserStep(p) ==
  \/ LockAccount(p) \/ SendCommit(p) \/ DirectCommit(p) \/ PayReject(p) \/ WaitFails(p)
  \/ p \in Undoers /\ UndoStep(p)

WorkerStep(w) ==
  \/ ClaimBatch(w) \/ BeginTask(w) \/ WorkerLatch(w) \/ LockAccount(w)
  \/ SettleTask(w) \/ TaskFails(w) \/ WorkerCommit(w)

Next ==
  \/ \E p \in Users : PayBegin(p) \/ UserStep(p)
  \/ \E u \in Undoers : UndoBegin(u)
  \/ \E w \in Workers : WorkerStep(w)
  \/ \E p \in Procs : Crash(p)
  \/ \E a \in Accounts : CloseAccount(a)

Spec == Init /\ [][Next]_raceVars

\* main of the scheduler worker polls for ever, and every wait ends, if need be by
\* lock_timeout; nothing is assumed of the users.
FairSpec == Spec /\ \A w \in Workers : WF_raceVars(WorkerStep(w))

-----------------------------------------------------------------------------
(* Properties.                                                             *)

TypeOK ==
  /\ HoldsTypeOK
  /\ paid \subseteq Directs
  /\ undone \subseteq HoldIds \X Keys
  /\ lock \in [Rows -> Procs \cup {Nobody}]
  /\ pc \in [Procs -> {"idle", "reserve", "latch", "lock", "cancel", "next"}]
  /\ batch \in [Workers -> SUBSET HoldIds]
  /\ current \in [Workers -> HoldIds \cup {Nobody}]
  /\ savepoint \in [Workers -> SUBSET Rows]
  /\ done \in [Workers -> SUBSET HoldIds]
  /\ failed \in [Workers -> SUBSET HoldIds]
  /\ crashes \in 0..MaxCrashes

\* Undo, timer, crash and retry together do no more than the transactions of Holds
\* one after the other: latching the status, paying and cancelling the task are
\* one step to every observer.
ImplementsHolds == HoldsSpec

\* An undo that was answered with a refund is never contradicted: the hold stays
\* refunded, so that replaying the stored response tells the truth.
UndoneIsRefunded == \A e \in undone : hold[e[1]] = "REFUNDED"

\* Every hold is settled or refunded in the end, or its task is parked for an
\* operator, in spite of crashes of the workers and of undos that never let go.
HoldsResolve ==
  \A h \in HoldIds :
    (hold[h] = "PENDING_UNDO") ~> (hold[h] # "PENDING_UNDO" \/ task[h] = "FAILED")

\* What two comments say of the locks of an undo, a payment and a worker: the undo
\* cancels its task best-effort, which changes nothing when the worker has claimed
\* the row (UndoableTransferService.undo), and the ascending order of the account
\* rows excludes opposite orders (lock_for_update).  So no two transactions wait
\* for each other.  They do: the cancelling UPDATE waits for the worker, which
\* waits for the latched hold; and a batch keeps the accounts of its earlier tasks
\* while it asks for those of the next.
NoMutualWait ==
  \A p, q \in Procs : ~(WaitsFor(p, q) /\ WaitsFor(q, p))
=============================================================================
