-------------------------------- MODULE Holds --------------------------------
(***************************************************************************)
(* The ten-second undo hold, one transaction at a time: what               *)
(* UndoableTransferService, HoldingService and the scheduler worker        *)
(* promise together, with every transaction taking effect in one step.     *)
(*                                                                         *)
(* A send moves money into the pending-settlement account and queues a     *)
(* settlement task; from then on the hold is either refunded by the sender *)
(* or paid to the receiver by the worker, which runs a batch of due tasks  *)
(* in one transaction.  A task that fails is tried again, and is parked    *)
(* after MaxAttempts.                                                      *)
(***************************************************************************)
EXTENDS Integers, FiniteSets, Sums

CONSTANTS
  HoldIds,       \* the sends that may be made
  Accounts,      \* account ids, in the order of the ULIDs
  Pending,       \* PENDING_SETTLEMENT_ACCOUNT_ID
  Sender,        \* hold -> sender_account_id
  Receiver,      \* hold -> intended_receiver_account_id
  Amount,        \* hold -> amount_minor
  Opening,       \* account -> balance at the start
  MaxAttempts    \* MAX_ATTEMPTS of the scheduler worker

ASSUME HoldsAssumption ==
  /\ IsFiniteSet(HoldIds)
  /\ Pending \in Accounts
  /\ Sender \in [HoldIds -> Accounts \ {Pending}]
  /\ Receiver \in [HoldIds -> Accounts \ {Pending}]
  /\ Amount \in [HoldIds -> Nat \ {0}]
ASSUME HoldsOpeningAssumption ==
  Opening \in [Accounts -> Nat] /\ Opening[Pending] = 0
ASSUME MaxAttemptsAssumption == MaxAttempts \in Nat \ {0}

VARIABLES
  balance,    \* account -> balance_minor
  closed,     \* the accounts whose status is no longer ACTIVE
  hold,       \* hold -> transfers.status, "none" before it is sent
  task,       \* hold -> scheduled_tasks.status, "none" before it is queued
  attempts    \* hold -> scheduled_tasks.attempt_count

holdVars == <<balance, closed, hold, task, attempts>>

HoldStatuses == {"none", "PENDING_UNDO", "SUCCEEDED", "REFUNDED"}
TaskStatuses == {"none", "PENDING", "DONE", "CANCELLED", "FAILED"}

\* What the holds in H are worth, and what they bring to account a.
Worth(H) == NatSum(H, Amount)
Owed(H, a) == Worth({h \in H : Receiver[h] = a})

HoldsInit ==
  /\ balance = Opening
  /\ closed = {}
  /\ hold = [h \in HoldIds |-> "none"]
  /\ task = [h \in HoldIds |-> "none"]
  /\ attempts = [h \in HoldIds |-> 0]

-----------------------------------------------------------------------------
(* The three transactions, as functions of what they find.                 *)

\* Mutant: the balance is not looked at.
CanSendAnyway(h) == hold[h] = "none" /\ Sender[h] \notin closed

\* UndoableTransferService.send: hold the money and queue its settlement.
CanSend(h) ==
  /\ hold[h] = "none"
  /\ Sender[h] \notin closed
  /\ balance[Sender[h]] >= Amount[h]

Send(h) ==
  /\ CanSend(h)
  /\ balance' = [balance EXCEPT ![Sender[h]] = @ - Amount[h], ![Pending] = @ + Amount[h]]
  /\ hold' = [hold EXCEPT ![h] = "PENDING_UNDO"]
  /\ task' = [task EXCEPT ![h] = "PENDING"]
  /\ UNCHANGED <<closed, attempts>>

\* UndoableTransferService.undo: latch, refund, cancel the task.
Undo(h) ==
  /\ hold[h] = "PENDING_UNDO"
  /\ Sender[h] \notin closed
  /\ balance[Pending] >= Amount[h]
  /\ balance' = [balance EXCEPT ![Pending] = @ - Amount[h], ![Sender[h]] = @ + Amount[h]]
  /\ hold' = [hold EXCEPT ![h] = "REFUNDED"]
  /\ task' = [task EXCEPT ![h] = IF @ = "PENDING" THEN "CANCELLED" ELSE @]
  /\ UNCHANGED <<closed, attempts>>

\* The balances after the holds in done are paid out.
PaidOut(done) ==
  [a \in Accounts |-> IF a = Pending THEN balance[a] - Worth(done)
                                     ELSE balance[a] + Owed(done, a)]

\* Mutant: one attempt too many.
AfterFailureLate(h) ==
  IF attempts[h] + 1 > MaxAttempts THEN "FAILED" ELSE "PENDING"

\* record_failure: back off, or give up.
AfterFailure(h) ==
  IF attempts[h] + 1 >= MaxAttempts THEN "FAILED" ELSE "PENDING"

Due == {h \in HoldIds : task[h] = "PENDING"}

\* run_due_tasks: one transaction over a batch of claimed tasks, of which some
\* settle their hold and the others fail.
RunDueTasks(done, failed) ==
  /\ done \cup failed # {}
  /\ \A h \in done : hold[h] = "PENDING_UNDO" /\ Receiver[h] \notin closed
  /\ balance[Pending] >= Worth(done)
  /\ balance' = PaidOut(done)
  /\ hold' = [h \in HoldIds |-> IF h \in done THEN "SUCCEEDED" ELSE hold[h]]
  /\ task' = [h \in HoldIds |-> IF h \in done THEN "DONE"
                                ELSE IF h \in failed THEN AfterFailure(h) ELSE task[h]]
  /\ attempts' = [h \in HoldIds |-> IF h \in failed THEN attempts[h] + 1 ELSE attempts[h]]
  /\ UNCHANGED closed

\* Closing an account (SafePay's resolution of a dispute against a buyer).
Close(a) ==
  /\ a # Pending
  /\ a \notin closed
  /\ closed' = closed \cup {a}
  /\ UNCHANGED <<balance, hold, task, attempts>>

\* Any other transfer between users (a money request settled, say).
Pay(from, to) ==
  /\ from # Pending /\ to # Pending /\ from # to
  /\ {from, to} \cap closed = {}
  /\ \E m \in 1..balance[from] :
       balance' = [balance EXCEPT ![from] = @ - m, ![to] = @ + m]
  /\ UNCHANGED <<closed, hold, task, attempts>>

HoldsNext ==
  \/ \E h \in HoldIds : Send(h) \/ Undo(h)
  \/ \E done \in SUBSET Due : \E failed \in SUBSET (Due \ done) : RunDueTasks(done, failed)
  \/ \E a \in Accounts : Close(a)
  \/ \E from, to \in Accounts : Pay(from, to)

HoldsSpec == HoldsInit /\ [][HoldsNext]_holdVars

-----------------------------------------------------------------------------
(* Properties.                                                             *)

HoldsTypeOK ==
  /\ balance \in [Accounts -> Nat]
  /\ closed \subseteq Accounts \ {Pending}
  /\ hold \in [HoldIds -> HoldStatuses]
  /\ task \in [HoldIds -> TaskStatuses]
  /\ attempts \in [HoldIds -> 0..MaxAttempts]

Open == {h \in HoldIds : hold[h] = "PENDING_UNDO"}

\* The pending-settlement account holds exactly the money of the holds that are
\* neither settled nor refunded: each hold leaves it once, whatever its undo and
\* its timer do (HoldingService.settle latches the status before it pays).
HoldingBacked == balance[Pending] = Worth(Open)

\* No hold is forgotten: while a hold is open its task is waiting to be run, or was
\* given up after MAX_ATTEMPTS failures and is left for an operator; and a task
\* that is over is over for the reason its hold is (undo cancels it, the worker
\* completes it).
TaskTracksHold ==
  \A h \in HoldIds :
    /\ hold[h] = "none" <=> task[h] = "none"
    /\ hold[h] = "none" => attempts[h] = 0
    /\ hold[h] = "PENDING_UNDO" => task[h] \in {"PENDING", "FAILED"}
    /\ hold[h] = "SUCCEEDED" <=> task[h] = "DONE"
    /\ task[h] = "PENDING" => hold[h] = "PENDING_UNDO" /\ attempts[h] < MaxAttempts
    /\ task[h] = "FAILED" => attempts[h] = MaxAttempts
=============================================================================
