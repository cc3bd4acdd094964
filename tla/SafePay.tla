------------------------------- MODULE SafePay -------------------------------
(***************************************************************************)
(* Conditional SafePay: buyer-funded escrow.  One action is one database   *)
(* transaction; the transactions on an order are serial because each       *)
(* begins by locking the order's row (SqlSafePayRepository.lock,           *)
(* find_by_tracking, or the conditional UPDATE of ship and dispute).       *)
(*                                                                         *)
(* Five parties act on an order: its buyer, its seller, the courier's      *)
(* webhook, the auto-release timer and an administrator.  An order carries *)
(* two status columns that must agree, its own and the one of its hold     *)
(* transfer, and a timer that must be pending exactly while it is awaited. *)
(***************************************************************************)
EXTENDS Integers, FiniteSets, Sequences, Sums

CONSTANTS
  Escrows,          \* the orders that may be placed
  Accounts,         \* user accounts and the escrow account, one user per account
  EscrowAccount,    \* ESCROW_ACCOUNT_ID
  Buyer,            \* order -> buyer's account
  Seller,           \* order -> seller's account, intended_receiver_account_id
  Price,            \* order -> amount_minor
  Opening,          \* account -> balance at the start
  Keys,             \* endpoint -> the idempotency keys (event ids) its callers use
  CodeKeys,         \* order -> the keys with which its delivery code is tried
  Parcels,          \* the tracking numbers of one courier
  MaxCodeAttempts,  \* DELIVERY_CODE_MAX_ATTEMPTS
  MaxAttempts,      \* MAX_ATTEMPTS of the scheduler worker
  None              \* no parcel, no answer

ASSUME SafePayAssumption ==
  /\ IsFiniteSet(Escrows)
  /\ DOMAIN Keys = {"create", "ship", "confirm", "dispute", "resolve", "courier"}
  /\ (\A c \in DOMAIN Keys : IsFiniteSet(Keys[c]))
  /\ DOMAIN CodeKeys = Escrows /\ (\A e \in Escrows : IsFiniteSet(CodeKeys[e]))
  /\ EscrowAccount \in Accounts
  /\ Buyer \in [Escrows -> Accounts \ {EscrowAccount}]
  /\ Seller \in [Escrows -> Accounts \ {EscrowAccount}]
  /\ \A e \in Escrows : Buyer[e] # Seller[e]
  /\ Price \in [Escrows -> Nat \ {0}]
  /\ Opening \in [Accounts -> Nat] /\ Opening[EscrowAccount] = 0
  /\ MaxCodeAttempts \in Nat \ {0} /\ MaxAttempts \in Nat \ {0}
  /\ None \notin Parcels

VARIABLES
  balance,   \* account -> balance_minor
  closed,    \* the accounts whose status is no longer ACTIVE
  order,     \* order -> safepay_escrows.status, "none" before it is placed
  hold,      \* order -> transfers.status of its hold
  placed,    \* the orders by created_at
  parcel,    \* order -> tracking_number
  wrong,     \* order -> delivery_code_attempts
  locked,    \* order -> whether delivery_code_locked_until is in the future
  task,      \* order -> scheduled_tasks.status of its ESCROW_AUTO_RELEASE
  attempts,  \* order -> scheduled_tasks.attempt_count
  answers    \* endpoint, actor, key -> the stored response

moneyVars == <<balance, hold>>
timerVars == <<task, attempts>>
codeVars == <<wrong, locked>>
vars == <<moneyVars, closed, order, placed, parcel, codeVars, timerVars, answers>>

Live == {"AWAITING_SHIPMENT", "SHIPPED", "DELIVERED"}
Settled == {"RELEASED", "REFUNDED"}
OrderStatuses == {"none", "DISPUTED"} \cup Live \cup Settled
Refusals == {"INVALID", "LOCKED_OUT", "LOCKED"}

\* idempotency_keys rows: an order's commands are scoped by its own path, the
\* creation by its buyer and a delivery event by the seller of the order it found.
Commands == {"ship", "confirm", "dispute", "resolve"}
Scopes ==
  UNION ({{c} \X Escrows \X Keys[c] : c \in Commands}
           \cup {{"code"} \X {e} \X CodeKeys[e] : e \in Escrows}
           \cup {{c} \X Accounts \X Keys[c] : c \in {"create", "courier"}})
Responses == [escrow : Escrows, body : OrderStatuses \cup Refusals]

ASSUME NoneAssumption == None \notin Responses

Init ==
  /\ balance = Opening
  /\ closed = {}
  /\ order = [e \in Escrows |-> "none"]
  /\ hold = [e \in Escrows |-> "none"]
  /\ placed = << >>
  /\ parcel = [e \in Escrows |-> None]
  /\ wrong = [e \in Escrows |-> 0]
  /\ locked = [e \in Escrows |-> FALSE]
  /\ task = [e \in Escrows |-> "none"]
  /\ attempts = [e \in Escrows |-> 0]
  /\ answers = [s \in Scopes |-> None]

-----------------------------------------------------------------------------
(* Idempotency: a key that has an answer is replayed or refused, and then  *)
(* the command changes nothing.                                            *)

Fresh(scope) == answers[scope] = None

\* _complete: the response stored with the command's own transaction.
Answer(scope, e, body) ==
  answers' = [answers EXCEPT ![scope] = [escrow |-> e, body |-> body]]

(* Settlement: latch the hold, move the money, mark the order.             *)

\* HoldingService.settle: out of escrow, once, to an ACTIVE account.
Settle(e, to, outcome) ==
  /\ hold[e] = "HELD"
  /\ to \notin closed
  /\ balance[EscrowAccount] >= Price[e]
  /\ hold' = [hold EXCEPT ![e] = outcome]
  /\ balance' = [balance EXCEPT ![EscrowAccount] = @ - Price[e], ![to] = @ + Price[e]]

\* Mutant: the second status column is forgotten on a refund.
MarkSettledReleased(e, from, status) ==
  /\ order[e] \in from
  /\ order' = [order EXCEPT ![e] = "RELEASED"]
  /\ wrong' = [wrong EXCEPT ![e] = 0]
  /\ locked' = [locked EXCEPT ![e] = FALSE]

\* SqlSafePayRepository.mark_settled.
MarkSettled(e, from, status) ==
  /\ order[e] \in from
  /\ order' = [order EXCEPT ![e] = status]
  /\ wrong' = [wrong EXCEPT ![e] = 0]
  /\ locked' = [locked EXCEPT ![e] = FALSE]

\* Mutant: the timer is left to fire.
CancelTimerNot(e) == UNCHANGED timerVars

\* SqlScheduledTaskRepository.cancel.
CancelTimer(e) ==
  /\ task' = [task EXCEPT ![e] = IF @ = "PENDING" THEN "CANCELLED" ELSE @]
  /\ UNCHANGED attempts

\* _release_locked, from the given statuses (it cancels the timer as well).
ReleaseLocked(e) ==
  /\ Settle(e, Seller[e], "SUCCEEDED")
  /\ MarkSettled(e, Live \cup {"DISPUTED"}, "RELEASED")

\* _refund_locked.
RefundLocked(e) ==
  /\ Settle(e, Buyer[e], "REFUNDED")
  /\ MarkSettled(e, {"DISPUTED"}, "REFUNDED")

-----------------------------------------------------------------------------
(* The commands.                                                           *)

\* create: hold the price and insert the order.
Create(e, k) ==
  /\ Fresh(<<"create", Buyer[e], k>>)
  /\ order[e] = "none"
  /\ Buyer[e] \notin closed
  /\ balance[Buyer[e]] >= Price[e]
  /\ balance' = [balance EXCEPT ![Buyer[e]] = @ - Price[e], ![EscrowAccount] = @ + Price[e]]
  /\ hold' = [hold EXCEPT ![e] = "HELD"]
  /\ order' = [order EXCEPT ![e] = "AWAITING_SHIPMENT"]
  /\ placed' = Append(placed, e)
  /\ Answer(<<"create", Buyer[e], k>>, e, "AWAITING_SHIPMENT")
  /\ UNCHANGED <<closed, parcel, codeVars, timerVars>>

\* mark_shipped, by the seller.
Ship(e, k, p) ==
  /\ Fresh(<<"ship", e, k>>)
  /\ order[e] = "AWAITING_SHIPMENT"
  /\ order' = [order EXCEPT ![e] = "SHIPPED"]
  /\ parcel' = [parcel EXCEPT ![e] = p]
  /\ Answer(<<"ship", e, k>>, e, "SHIPPED")
  /\ UNCHANGED <<moneyVars, closed, placed, codeVars, timerVars>>

\* Mutant: a disputed order still takes its code.
TakesCodeDisputed(e) == order[e] \in Live \cup {"DISPUTED"}

TakesCode(e) == order[e] \in Live

\* release_with_code, while the code is locked out: refused, and not counted.
CodeLocked(e, k) ==
  /\ Fresh(<<"code", e, k>>)
  /\ TakesCode(e)
  /\ locked[e]
  /\ Answer(<<"code", e, k>>, e, "LOCKED")
  /\ UNCHANGED <<moneyVars, closed, order, placed, parcel, codeVars, timerVars>>

\* Mutant: the lockout is tested before the attempt is counted.
LocksOutLate(n) == n > MaxCodeAttempts

LocksOut(n) == n >= MaxCodeAttempts

\* release_with_code with a code that does not match; nothing ever takes an
\* attempt back, the end of the lockout included.
CodeWrong(e, k) ==
  LET n == wrong[e] + 1 IN
  /\ Fresh(<<"code", e, k>>)
  /\ TakesCode(e)
  /\ ~locked[e]
  /\ wrong' = [wrong EXCEPT ![e] = n]
  /\ locked' = [locked EXCEPT ![e] = LocksOut(n)]
  /\ Answer(<<"code", e, k>>, e, IF LocksOut(n) THEN "LOCKED_OUT" ELSE "INVALID")
  /\ UNCHANGED <<moneyVars, closed, order, placed, parcel, timerVars>>

\* release_with_code with the buyer's code.
CodeRight(e, k) ==
  /\ Fresh(<<"code", e, k>>)
  /\ TakesCode(e)
  /\ ~locked[e]
  /\ ReleaseLocked(e)
  /\ CancelTimer(e)
  /\ Answer(<<"code", e, k>>, e, "RELEASED")
  /\ UNCHANGED <<closed, placed, parcel>>

\* code_lock_seconds pass.
LockExpires(e) ==
  /\ locked[e]
  /\ locked' = [locked EXCEPT ![e] = FALSE]
  /\ UNCHANGED <<moneyVars, closed, order, placed, parcel, wrong, timerVars, answers>>

\* confirm_received, by the buyer.
Confirm(e, k) ==
  /\ Fresh(<<"confirm", e, k>>)
  /\ order[e] \in {"SHIPPED", "DELIVERED"}
  /\ ReleaseLocked(e)
  /\ CancelTimer(e)
  /\ Answer(<<"confirm", e, k>>, e, "RELEASED")
  /\ UNCHANGED <<closed, placed, parcel>>

\* dispute, by the buyer: freeze the order and stop its timer.
Dispute(e, k) ==
  /\ Fresh(<<"dispute", e, k>>)
  /\ order[e] \in Live
  /\ order' = [order EXCEPT ![e] = "DISPUTED"]
  /\ CancelTimer(e)
  /\ Answer(<<"dispute", e, k>>, e, "DISPUTED")
  /\ UNCHANGED <<moneyVars, closed, placed, parcel, codeVars>>

\* resolve_dispute in the seller's favour, closing the buyer's account if asked.
ResolveRelease(e, k, ban) ==
  /\ Fresh(<<"resolve", e, k>>)
  /\ order[e] = "DISPUTED"
  /\ ReleaseLocked(e)
  /\ CancelTimer(e)
  /\ closed' = IF ban THEN closed \cup {Buyer[e]} ELSE closed
  /\ Answer(<<"resolve", e, k>>, e, "RELEASED")
  /\ UNCHANGED <<placed, parcel>>

\* resolve_dispute in the buyer's favour.
ResolveRefund(e, k) ==
  /\ Fresh(<<"resolve", e, k>>)
  /\ order[e] = "DISPUTED"
  /\ RefundLocked(e)
  /\ Answer(<<"resolve", e, k>>, e, "REFUNDED")
  /\ UNCHANGED <<closed, placed, parcel, timerVars>>

-----------------------------------------------------------------------------
(* The courier's webhook.                                                  *)

\* find_by_tracking: the newest of the orders shipped as parcel p.
Found(p) ==
  LET carried == {i \in DOMAIN placed : parcel[placed[i]] = p}
  IN  {placed[i] : i \in {i \in carried : \A j \in carried : j <= i}}

\* Mutant: the dispute window is opened and never scheduled to close.
ScheduleForgotten(e) == UNCHANGED timerVars

\* SqlScheduledTaskRepository.schedule: ON CONFLICT DO NOTHING.
Schedule(e) ==
  /\ task' = [task EXCEPT ![e] = IF @ = "none" THEN "PENDING" ELSE @]
  /\ UNCHANGED attempts

\* courier_delivered on a shipped order, starting the dispute window.
Delivered(e, k) ==
  /\ Fresh(<<"courier", Seller[e], k>>)
  /\ order[e] = "SHIPPED"
  /\ order' = [order EXCEPT ![e] = "DELIVERED"]
  /\ Schedule(e)
  /\ Answer(<<"courier", Seller[e], k>>, e, "DELIVERED")
  /\ UNCHANGED <<moneyVars, closed, placed, parcel, codeVars>>

\* courier_delivered with release_immediately.
DeliveredReleases(e, k) ==
  /\ Fresh(<<"courier", Seller[e], k>>)
  /\ order[e] = "SHIPPED"
  /\ ReleaseLocked(e)
  /\ CancelTimer(e)
  /\ Answer(<<"courier", Seller[e], k>>, e, "RELEASED")
  /\ UNCHANGED <<closed, placed, parcel>>

\* courier_delivered on an order that is over or frozen: acknowledged, no more.
DeliveredLate(e, k) ==
  /\ Fresh(<<"courier", Seller[e], k>>)
  /\ order[e] \in Settled \cup {"DISPUTED"}
  /\ Answer(<<"courier", Seller[e], k>>, e, order[e])
  /\ UNCHANGED <<moneyVars, closed, order, placed, parcel, codeVars, timerVars>>

Courier(p, k) ==
  \E e \in Found(p) : Delivered(e, k) \/ DeliveredReleases(e, k) \/ DeliveredLate(e, k)

-----------------------------------------------------------------------------
(* The scheduler worker.                                                   *)

\* auto_release and complete: the timer releases an order still DELIVERED, and
\* is done with one that is not.
AutoRelease(e) ==
  /\ task[e] = "PENDING"
  /\ IF order[e] = "DELIVERED"
       THEN ReleaseLocked(e)
       ELSE UNCHANGED <<moneyVars, order, codeVars>>
  /\ task' = [task EXCEPT ![e] = "DONE"]
  /\ UNCHANGED <<closed, placed, parcel, attempts, answers>>

\* Mutant: one attempt too many.
AutoReleaseFailsLate(e) ==
  LET n == attempts[e] + 1 IN
  /\ task[e] = "PENDING"
  /\ attempts' = [attempts EXCEPT ![e] = n]
  /\ task' = [task EXCEPT ![e] = IF n > MaxAttempts THEN "FAILED" ELSE "PENDING"]
  /\ UNCHANGED <<moneyVars, closed, order, placed, parcel, codeVars, answers>>

\* The savepoint of the task rolled back (a closed seller, a lock or statement
\* timeout, a lost connection), and record_failure.
AutoReleaseFails(e) ==
  LET n == attempts[e] + 1 IN
  /\ task[e] = "PENDING"
  /\ attempts' = [attempts EXCEPT ![e] = n]
  /\ task' = [task EXCEPT ![e] = IF n >= MaxAttempts THEN "FAILED" ELSE "PENDING"]
  /\ UNCHANGED <<moneyVars, closed, order, placed, parcel, codeVars, answers>>

Worker(e) == AutoRelease(e) \/ AutoReleaseFails(e)

OfBuyer(e) ==
  \/ \E k \in Keys["create"] : Create(e, k)
  \/ \E k \in Keys["confirm"] : Confirm(e, k)
  \/ \E k \in Keys["dispute"] : Dispute(e, k)

OfSeller(e) ==
  \/ \E k \in Keys["ship"], p \in Parcels : Ship(e, k, p)
  \/ \E k \in CodeKeys[e] : CodeLocked(e, k) \/ CodeWrong(e, k) \/ CodeRight(e, k)

OfAdmin(e) ==
  \E k \in Keys["resolve"] :
    \/ \E ban \in BOOLEAN : ResolveRelease(e, k, ban)
    \/ ResolveRefund(e, k)

Next ==
  \/ \E e \in Escrows : OfBuyer(e) \/ OfSeller(e) \/ OfAdmin(e)
  \/ \E p \in Parcels, k \in Keys["courier"] : Courier(p, k)
  \/ \E e \in Escrows : LockExpires(e) \/ Worker(e)

Spec == Init /\ [][Next]_vars

\* The worker polls for ever (apps/scheduler_worker/main.py); nobody else must act.
FairSpec == Spec /\ \A e \in Escrows : WF_vars(Worker(e))

-----------------------------------------------------------------------------
(* Properties.                                                             *)

Held == {e \in Escrows : hold[e] = "HELD"}

TypeOK ==
  /\ balance \in [Accounts -> Nat]
  /\ closed \subseteq Accounts \ {EscrowAccount}
  /\ order \in [Escrows -> OrderStatuses]
  /\ hold \in [Escrows -> {"none", "HELD", "SUCCEEDED", "REFUNDED"}]
  /\ placed \in Seq(Escrows)
  /\ parcel \in [Escrows -> Parcels \cup {None}]
  /\ wrong \in [Escrows -> Nat]
  /\ locked \in [Escrows -> BOOLEAN]
  /\ task \in [Escrows -> {"none", "PENDING", "DONE", "CANCELLED", "FAILED"}]
  /\ attempts \in [Escrows -> 0 .. MaxAttempts]
  /\ answers \in [Scopes -> Responses \cup {None}]

\* The escrow account holds exactly the price of every order that is neither
\* released nor refunded, and the order's status says which: the two status columns
\* written by HoldingService.settle and mark_settled never disagree, whichever of the
\* five parties settled the order.
EscrowBacked ==
  /\ balance[EscrowAccount] = NatSum(Held, Price)
  /\ \A e \in Escrows :
       /\ hold[e] = "none" <=> order[e] = "none"
       /\ hold[e] = "SUCCEEDED" <=> order[e] = "RELEASED"
       /\ hold[e] = "REFUNDED" <=> order[e] = "REFUNDED"

\* The auto-release timer runs exactly while it is awaited: it is pending only for an
\* order that is DELIVERED, a DELIVERED order has it pending or parked after
\* MAX_ATTEMPTS, and a dispute, an early confirmation or a code stops it.
TimerTracksOrder ==
  \A e \in Escrows :
    /\ task[e] = "PENDING" => order[e] = "DELIVERED" /\ attempts[e] < MaxAttempts
    /\ order[e] = "DELIVERED" => task[e] \in {"PENDING", "FAILED"}
    /\ task[e] = "DONE" => order[e] = "RELEASED"
    /\ task[e] = "FAILED" => attempts[e] = MaxAttempts

\* The statuses an order can have once a response reported the given one.
Onward(body) ==
  CASE body = "AWAITING_SHIPMENT" -> OrderStatuses \ {"none"}
    [] body = "SHIPPED" -> OrderStatuses \ {"none", "AWAITING_SHIPMENT"}
    [] body = "DELIVERED" -> {"DELIVERED", "DISPUTED"} \cup Settled
    [] body = "DISPUTED" -> {"DISPUTED"} \cup Settled
    [] body \in Settled -> {body}
    [] OTHER -> OrderStatuses \ {"none"}

\* No stored response is ever contradicted: a client that retries, however late, is
\* told something the order has really been through, and a reported settlement is
\* final (_complete is in the same transaction as the change it reports).
AnswersStayTrue ==
  \A s \in Scopes : answers[s] # None => order[answers[s].escrow] \in Onward(answers[s].body)

\* One intent costs one attempt: until the order is settled its attempt counter is
\* the number of distinct keys answered with a counted failure, so that a retried
\* request does not lock the seller out, and the lockout begins only at the limit
\* (release_with_code stores its refusals too).
AttemptsCounted ==
  \A e \in Escrows :
    order[e] \notin Settled =>
      /\ wrong[e] = Cardinality({k \in CodeKeys[e] : LET a == answers[<<"code", e, k>>] IN
                                   a # None /\ a.body \in {"INVALID", "LOCKED_OUT"}})
      /\ locked[e] => wrong[e] >= MaxCodeAttempts
      /\ wrong[e] >= MaxCodeAttempts =>
           \E k \in CodeKeys[e] : LET a == answers[<<"code", e, k>>] IN
             a # None /\ a.body = "LOCKED_OUT"

\* A dispute freezes the money: a disputed order moves again only in the step that
\* stores an administrator's decision, whatever the timer, the courier, the code or a
\* second confirmation try meanwhile.
DisputeFreezes ==
  [][\A e \in Escrows :
       order[e] = "DISPUTED" /\ <<order'[e], hold'[e]>> # <<order[e], hold[e]>> =>
         \E k \in Keys["resolve"] : /\ answers[<<"resolve", e, k>>] = None
                                    /\ answers'[<<"resolve", e, k>>] # None]_vars

\* A delivered order does not wait for ever: the timer releases it, unless somebody
\* else settles or disputes it first or the timer is parked for an operator.
DeliveredResolves ==
  \A e \in Escrows :
    order[e] = "DELIVERED" ~>
      order[e] \in Settled \cup {"DISPUTED"} \/ task[e] = "FAILED"
=============================================================================
