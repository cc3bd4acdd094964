# Verification of the Taka wallet

TLA+ specifications of the wallet's backend, the TLC configurations that check
them on small instances, and TLAPS proofs of their safety properties for every
instance. `PROJECT.json` maps each definition to the source lines it models, and
lists components, runs, mutants, findings, hazards and theorems.

## The system

A FastAPI service (replicas behind nginx) keeps all money in PostgreSQL. Every
movement of money is one call of `TransferUseCase.execute` inside a READ
COMMITTED transaction. It reserves an idempotency key, locks the account rows
in ascending id order (`SELECT ... FOR UPDATE`), checks everything again on what
it locked, writes the balances, the ledger lines, a transfer row and an outbox
row, and completes the key. Features are state machines on top of it:

| Part | Source (under `src/backend`) | What it does |
|---|---|---|
| Transfer use case | `modules/financial_core/application/transfer.py`, `idempotency.py`, `domain/` | the one place where money moves |
| Persistence | `modules/financial_core/adapters/persistence/` | row locks, status latch, idempotency table |
| Unit of work | `platform_/database/unit_of_work.py` | one transaction; retry on 40001/40P01 |
| Undo hold | `application/undo.py`, `holding.py` | a send waits ten seconds in the pending-settlement account |
| Scheduler worker | `apps/scheduler_worker`, `platform_/scheduling` | claims due tasks with SKIP LOCKED, a savepoint per task |
| SafePay | `modules/safepay` | escrow: ship, deliver, confirm, code, dispute, auto-release |
| Spot-Me overdraft | `modules/overdraft` | sponsored pools cover a shortfall; a lien on credits repays |
| Money requests | `modules/money_request` | ask, accept, reject, cancel, expire |
| Identity | `modules/identity`, `apps/api/dependencies.py` | PIN lockout, sessions, refresh rotation |
| Event delivery | `apps/outbox_relay`, `apps/notification_worker`, `platform_/messaging` | outbox to RabbitMQ to notifications |
| Reconciliation | `modules/reconciliation` | recomputes the money identities, read-only |
| Rate limiting | `platform_/web/rate_limit.py` | Redis counters, fails open |
| Web client | `src/frontend` | React screens; the accept button makes up a new key at every press |

`POST /transfers` runs `OverdraftService.send`, which draws on a pool if the
sender is short and then places an undo hold. Every settlement, refund,
release and accepted request is again a `TransferUseCase.execute`, with the lien
run inside it when the receiver owes a pool.

## Modules

| Module | Models | Step |
|---|---|---|
| `Sums` | sums of money over finite sets | - |
| `Payments` | the promise of the transfer use case: atomic, at most once per key | a payment |
| `TransferTxn` | `TransferUseCase.execute` by concurrent clients | an SQL statement |
| `Holds` | undo hold, its settlement task and the worker's batch | a transaction |
| `UndoRace` | the same, with undoers, senders, direct payments and scheduler replicas | an SQL statement |
| `SafePay` | all SafePay commands, courier events, the auto-release timer | a transaction |
| `Overdraft` | pools, grants, draws, loans and the lien, composed with `Holds` | a transaction; a send is a read and a transaction |
| `PinGate` | the PIN check in front of every money command | a wait for the user row, a commit |
| `MoneyRequest` | money requests, accepted behind `PinGate` | a wait for a row, a commit |
| `Delivery` | outbox, relay, broker, notification worker | a publication, a receipt, a commit, an acknowledgement |
| `Identity` | registration, login, refresh, logout, revocation | a read, a commit |
| `MCTransferTxn`, `MCUndoRace`, `MCSafePay`, `MCOverdraft`, `MCMoneyRequest`, `MCDelivery`, `MCIdentity` | instances for TLC | |
| `SumsProofs` | lemmas about `NatSum` and `Sum`, induction on the naturals | |
| `TransferTxnProofs` | theorems about `TransferTxn` | |
| `UndoRaceProofs` | theorems about `Holds` and `UndoRace` | |
| `SafePayProofs` | theorems about `SafePay` | |
| `OverdraftProofs` | theorems about `Overdraft` | |
| `IdentityProofs` | theorems about `Identity` | |
| `MoneyRequestProofs` | theorems about `MoneyRequest` and `PinGate` | |
| `DeliveryProofs` | theorems about `Delivery` | |

Operators named as mutants (the comment above each begins with "Mutant") are
plausible bugs. No specification uses one; each shows that a property can fail.

### TransferTxn and Payments

The committed database is `balance`, `status`, `ledger`, `transfers`, `idem`;
the locks of open transactions are `keyLock` and `rowLock`; a client's own
state is where its submission stands (`pc`), what it read under lock (`seen`),
the day on which it began (`started`) and its last answer (`reply`).

`Submit` begins a transaction and reads the clock. `ReserveProceed`,
`ReserveReplay` and `ReserveMismatch` are the outcomes of the INSERT ... ON
CONFLICT DO NOTHING, which waits for another open transaction with the same key
(`KeyFree`). `LockRow` locks and reads the next row in ascending order;
`Accept` and `Reject` are the revalidation; `Commit` writes everything. `Fail`
is a timeout, lost connection or killed process anywhere. `CloseAccount` is
`set_status`; `Midnight` moves the database day. A client submits its command
again for ever, which is both a retry and `UnitOfWork.run`'s own retry.

`Payments` has one action, `Pay`: if the key is new, move the amount. The
refinement maps its `applied` to the keys of committed transfers.

### Holds and UndoRace

`Holds` has one step per transaction: `Send`, `Undo`, `RunDueTasks(done,
failed)` (a batch in which some tasks settle and the others fail), `Close`,
`Pay`. `UndoRace` runs the same transactions statement by statement. Rows of
three tables (`transfers`, `scheduled_tasks`, `accounts`) and of the undo's
idempotency key are locked in `lock`. An undo reserves its key, latches the
status, locks the two accounts, pays, and updates the task row, which waits for
a worker that has it. A worker claims what nobody has locked (SKIP LOCKED) and
opens a savepoint per task; the rows locked in it are released if it is rolled
back and kept if not; the batch commits as a whole. `WaitFails` is PostgreSQL's
deadlock detection or `lock_timeout` and `Crash` the loss of a process. Writes
of an open transaction are private until its commit, so the variables of
`Holds` are the committed ones and the refinement mapping is the identity.

### SafePay

`order` is the status of the escrow, `hold` the status of its hold transfer,
`task` and `attempts` the auto-release task, `wrong` and `locked` the delivery
code's counter and lockout, `answers` the idempotency rows. Every transaction on
an order first locks its row, or is one conditional UPDATE of it, so one action
is one transaction. A courier event finds the newest order with its tracking
number (`Found`). A replayed or refused command changes nothing and is no step.
`AutoReleaseFails` may happen whenever the task is run: the savepoint of a task
is rolled back by any error, a closed seller account among them.

### Overdraft

`OverdraftService.send` is `ListGrants`, the read of the sender's grants without a
lock, and then `PlainSend`, `SpotSend` or `SendFails` on the locked rows; steps of
others come in between. `SpotSend` takes the first of the listed grants, in order of
creation, whose limit and pool, as it now is, cover the shortfall. A user has one
send open at a time, because `run_pin_protected` keeps their row locked, and so the
order in which loans are appended is that of their `created_at`. `Credit`
is a transfer to a user together with `after_credit`: `Budget` is the share of
the lien, rounded down, and `Repaid` spreads it over the borrower's loans,
oldest first; `LeftAfter` is what the loop has left after each loan. It runs in
the settlement of a hold, in the refund of an undo and in other payments (`PayUser`). Draws and repayments take no lien.

### PinGate and MoneyRequest

`PinGate` is `AuthService.verify_pin` inside the transaction that
`run_pin_protected` opens. A call reads the clock (`began`), waits for its
user's row (`userLock`) and compares the PIN on what the row says. `CountWrongPin`
commits the new count, because the error leaves the transaction as a value;
`PinCommits` and `PinRollsBack` are the two ends of a command the right PIN let
through. `wrongs` is a history of wrong PINs answered.

`MoneyRequest` extends it. An accepting call is `PressAccept`, `CheckPin`,
`LockRequest` and `Accept`, or one of the refusals `PinRefused`,
`RequestRefused`, `TransferRefused`, or `Abort`. `now` is the clock `accept` read
before it waited for the request row, so a request may be paid that lapsed during
the wait, as in the code. `Payable` and `Pay` stand for the whole transfer,
which `TransferTxn` shows to be atomic; its daily limit is left out. `Create`,
`Reject`, `Cancel` are short transactions without a PIN, `CloseAccount` is a ban
from SafePay. `ExpireDue` is the scheduler's handler; it needs a task row
(`sweeps`), and since no code inserts one it is never enabled.

### Delivery

A row of the outbox is `PENDING`, `PUBLISHED` or `DEAD`. `Claim` takes the oldest
due rows nobody has locked; `Publish` and `PublishFails` deal with them in order;
`CommitBatch` commits all marks at once, `RelayDies` none of them. The broker is
modelled from how the code uses it: a mandatory message to an exchange without
a bound queue is returned, a stored message stays until acknowledged, and a
failed publication may have been stored. A worker goes from `Receive` over
`ClaimEvent` (the INSERT into the inbox, which waits for another open insert of
the same event) and `Notify` to `CommitInbox` and `Ack`. `HandlerFails` rejects
the message into the dead-letter queue; `WorkerDies` returns it to the queue.
The backoff is abstracted: a row that failed before may or may not be due.

### Identity

`Register`, `Login` and `Refresh` are a read or insert and a commit, with steps
of other clients in between. `NumberFree` is the UNIQUE index on the phone
number: an INSERT waits for another open one. The account and its grant are
opened in the transaction of the registration (`OpenAccount`). `RefreshRead`
takes no lock, and `MarkRotated` does not look at the row again, so two refreshes
may each mint a successor. `RefreshReused` changes nothing but the log: the
revocation it writes is rolled back by the exception it raises.

## Runs

| Run | Question | Bounds |
|---|---|---|
| `transfer_retries` | Does a retried or reused key move money once, is every positive answer true, does every submission end, is the whole a sequence of atomic payments? | three clients: two with one key and different payloads, one signup grant; four accounts; one day |
| `transfer_spending` | Are updates lost, accounts overdrawn, limits exceeded, closed accounts moved? Can transfers wait in a circle? | three clients, two in one direction and one in the other, more demand than balance and than daily allowance; two days |
| `undo_race` | Can an undo and the timer both pay a hold out? Can a hold lose its task, an answered undo be contradicted? | two holds in opposite directions, three undo requests with two keys, a direct payment, one worker |
| `undo_workers` | Do observers see only the transactions of `Holds`? Is each hold resolved in the end? | two holds, one undo, two workers, batches of two, one crash |
| `mutual_waits` | Is cancelling a task best-effort, and does the ascending order exclude deadlock, as their comments say? (neither) | two holds, one undo, one direct payment, one worker |
| `safepay_orders` | Whoever settles an order: is escrow backed, does the timer track the order, do stored answers stay true, does a dispute freeze the money, is a delivered order resolved? | two orders in opposite directions, one shared tracking number, each command tried once, the code of one order three times, two wrong codes to a lockout, two attempts of the timer |
| `overdraft_pools` | Is a sponsor's money in the pool or owed to it, repaid oldest first, drawn within the grant, and does the borrower keep half? | two pools, one borrower with a grant on each, three holds, one payment, two attempts |
| `money_requests` | Is a request paid once if accepted and never otherwise? Is every wrong PIN counted, and does the lockout hold, when calls overlap and commands are refused? | two devices of one payer, two requests of which the payer can afford one, two keys, two wrong PINs to a lockout of one tick, three clock values |
| `request_expiry` | Does a pending request stop being pending after its expiry, as the README says? (it does not) | one device, one request, one key |
| `event_delivery` | Is a published event ever lost? Is one that is recorded as processed ever notified again, or recorded without its notification? Does every event come to an end? | two events, two relays, two workers, batches of two, two attempts, one death or handler failure |
| `notified_twice` | Does an event have its effect exactly once, as the worker's head says? (not when a worker dies before its commit) | as `event_delivery`, one relay |
| `sessions` | Is a number registered once and as a whole? Does an old token ever mint a session later? | two clients, one number, two user ids, four sessions |

Why the bounds are enough to meet the cases of interest. Two requests for one
thing and a third that interferes are the smallest setting in which an order of
three transactions can matter, and the instances give each kind of party at
least one. Opposite directions of the holds, transfers and orders make lock
orders conflict and make one user payer and payee. Amounts are chosen so that
balance, daily cap, pool and grant suffice for some of the demand and not for
all of it, and so that half of a credit is not always a whole number. Two
attempts is the least `MAX_ATTEMPTS` with both a retry and a parked task. TLC
explores the instances completely; named bounds are `LastDay`, `MaxCrashes`,
`MaxAttempts`, `BatchSize`, `Keys`, `CodeKeys`, `HoldIds`, `Escrows`, `LastTick`,
`Bannable`, `MaxFaults` and `MaxSessions`. In `money_requests` the three clock
values let a request lapse, and a lockout begin and end, while a call that read
an earlier time still waits. Four sessions are a registration and three
successors or logins, one more than two concurrent refreshes of one token can
mint.
In `event_delivery` the number of copies is bounded by the attempts and the one fault.

`money_requests` and `sessions` use symmetry of the clients, which their
properties do not tell apart; no run of a liveness property uses it. Deadlock
checking is off where the system may stop: when every order is settled, every
hold resolved, every event handled, the clock at its bound or the last session
issued, nothing is left to do. In the other runs clients can always act.

### Fairness

- `TransferTxn`, `SF_vars(Step(c))`: a transaction that can go on does, and
  PostgreSQL serves the waiters of a row in order of arrival, so that none is
  passed over for ever by clients that keep submitting. `Fail` is not fair.
- `UndoRace`, `WF(WorkerStep(w))`: the worker's `main` polls for ever and
  survives exceptions, and every wait of a worker ends, by `lock_timeout` if
  need be. Nothing is assumed of users: an undo may hang with its locks until
  it is aborted.
- `SafePay`, `WF_vars(Worker(e))`: the same worker. Nobody else must act, and a
  failing attempt counts as acting, which is why `DeliveredResolves` allows the
  task to be parked.
- `Delivery`, `WF` of `RelayStep(r)` and of `WorkerStep(w)`: both processes poll
  for as long as they run, and `docker-compose.yml` restarts them
  (`restart: unless-stopped`). A publication that fails counts as a step of
  the relay, so nothing is assumed of the broker; `EventsHandled` allows the row
  to be marked dead.
- `MoneyRequest`, `WorkerSpec`: the clock goes on, the calls in the server go on
  and the scheduler polls. Users need not act, so the counterexample of
  `request_expiry` is not one of a system that stops.

### Findings

1. `mutual_waits`: `undo.py:166` and `scheduling/repository.py:85` say that
   cancelling a claimed task changes nothing. The UPDATE waits for the worker's
   row lock, and the worker waits for the hold row the undo has latched. This is
   the trace TLC prints. With `Undoers = {}` it prints another: `repositories.py:82`
   says that one agreed order makes opposite lock orders impossible, but
   `run_due_tasks` keeps the rows of earlier tasks while it locks those of the
   next, and meets a direct payment. PostgreSQL resolves both by aborting a
   transaction that is then retried or recorded as a failed attempt; no money is
   lost, as the other runs show with the same deadlocks in them.
2. `notified_twice`: `notification_worker/main.py:9` and `messaging/models.py:90` say
   that "the effect happens exactly once even though delivery did not", and
   `_claim_event` that its row and the effect happen both or neither
   (`main.py:53`). The effect (line 99) is outside the transaction and comes before
   its commit (line 107): a worker that dies in between has the notification
   repeated with the next delivery. `ProcessedMeansNotified` is what the inbox does
   guarantee: no row without its notification, and none after the row.
3. `request_expiry`: the README (line 92) lets a request expire, and
   `scheduler_worker/main.py:3` names money requests among what the worker
   expires. No code inserts a `MONEY_REQUEST_EXPIRY` task, and the mark `accept`
   writes on a lapsed request is rolled back by the exception that follows. The
   request stays `PENDING` and can still be rejected or cancelled; it is never
   paid by a call that began after its expiry.

Other places where comments and code part, visible in the models:

- `auth_service.py:205` and the README (line 165) say that reuse of a refresh
  token revokes the family. The revocation is rolled back (`RefreshReused`). What
  does hold is `TokensMintNothingLater`: the old token itself mints nothing.
- `policies.py:85` calls the daily cap "rolling-daily". `_start_of_day`
  (`transfer.py:448`) begins the window at midnight UTC, which `DailyLimitHeld` is
  about: on both sides of midnight together more may be sent.
- `notification_worker/main.py:135` speaks of configured retries before the
  dead-letter queue. The first failure rejects the message (`HandlerFails`).
- `open_account.py:71` says that the key of the grant keeps a retried
  registration from being granted twice. A retry has a new user id and so
  another key; the UNIQUE phone number is what protects (`NumberFree`, whose
  mutant violates `RegisteredOnceAndWhole`).

## Proofs

Checked by `tlapm`: every invariant, every action property and every refinement
of the passing runs, for any finite set of accounts, any clients, commands,
opening balances, limits, holds, orders, pools, events and sessions. Most
leaves name `Zenon`, which is enough for them: `tlapm` slows down with every leaf
it translates for the SMT solver, and a module of SMT leaves alone runs into its
time limits when it is checked from nothing.

The assumptions are the `ASSUME`s of the modules, and TLC evaluates them in the
runs of each module:

- transfers: account ids are naturals, nobody owns the issuance account, only a
  signup grant is sent from it with that kind, opening balances other than
  issuance's are not negative;
- holds: users' accounts are not the pending-settlement account, which is empty
  at the start; amounts are positive; a process of `UndoRace` has one role, and a
  direct payment is between two different users (`SelfTransferError`);
- SafePay: buyer and seller differ, and neither is the escrow account;
- overdraft: no pool is the pending-settlement account, and the lien is a share
  (`LienBasisPoints` in 0..10000). `BorrowersKeepHalf` assumes in addition that
  it is at most half of that: 5000 is `LIEN_SWEEP_BASIS_POINTS` in
  `overdraft/adapters/persistence/models.py`; with more it can fail;
- requester and payer of a request differ, event ids are naturals, limits are
  positive.

**Sums and induction.** `NatSum(S, f)` is defined without recursion, as the number
of unit pairs, so that `SumsProofs` gets its laws from cardinality: the sum of a
split set, of an updated function, of a subset. `SetInduction` is induction on
the naturals for a set instead of a predicate; it follows from the
well-foundedness of `<`, and is what facts about recursive functions rest on.

**TransferTxn.** The safety properties are about committed state, but they hold
because of what transactions in progress know, so none of them is inductive.
`Isolation` is the strengthening: a lock belongs to a transaction that needs
it; a held key has no completed row; what was read of a locked row is still
its committed value; the checks of a transaction about to write still stand,
on the values as they now are; transfers and completed keys correspond; rows
are taken in ascending order. The delicate conjunct is `ChecksStand`: another
commit may happen between a transaction's checks and its write. It does not
touch the rows this one holds, so balances and statuses stand. It has another
sender, so what this sender has sent since the day `started` stands as well.

- `TypeCorrect`; the end of a transaction and a commit keep `Isolation`;
  `TransfersIsolated` (`Spec => []Isolation`).
- `DeadlockFree`: in a circle of waiting transfers the one that waits for the
  greatest row would wait for one that asks for a smaller row than it holds.
- From `Isolation`, `NoLostUpdate`, `Conservation`, `NoOverdraft`, `AtMostOnce`,
  `Truthful`, `ClosedStayPut`, `DailyLimitKept` and `Refinement` (the safety part
  of `Payments` is all it has).

**Holds.** `TasksTrackHolds` proves the types and `TaskTracksHold` together:
neither is inductive alone, since the attempt counter stays within its bound
only because a pending task has failed less than `MAX_ATTEMPTS` times.
`HoldsAreBacked` then follows by the laws of sums.

**UndoRace.** A commit of `UndoRace` writes what was decided several statements
earlier, and is a step of `Holds` only if that is still right. `RaceInv` says
why it is, in terms of the rows each open transaction owns. `UndoOwns`: from the
latch on an undo has the hold row, and the hold is open; once it has decided to
refund it has both accounts, the sender's is open and the holding account covers
the amount. `ClaimsOwned`: the tasks of a batch stay pending and locked, and
their rows are in no savepoint. `DoneOwned`: a settlement that is written and not
committed keeps its hold and both accounts outside the open savepoint, so that
going back to the savepoint of a later task does not free them, and the holding
account covers all settlements of the batch together. `BatchSplit` keeps the
four states of a claimed task apart. The proof has two halves. A step of a process
disturbs no other (`Respects`): it takes only rows that were free, and changes
only what it has locked. And the process itself owns what it should afterwards
(`Fits`), by one lemma per action. `StepImplements` then maps every step to one of
`Holds` or a stutter, which gives `RaceRefinesHolds`, and with it the theorems
about `Holds` at the level of statements (`RaceKeepsHoldsBacked`,
`RaceKeepsTasks`) and `AnsweredUndosStayTrue`. Two facts come out on the way: a
worker never finds a claimed task's hold already resolved (the branch of
`BeginTask` for it is not taken), and what it has settled is what it has
completed (`SettledIsDone`). TLC found `RaceInv` true on the instances of
`undo_race` and `undo_workers`.

**SafePay.** `SafePayInv` is the conjunction of the properties with `TimerInv`, which
adds to `TimerTracksOrder` that an order not yet delivered has no task and no
attempts: without it the task that delivery inserts could begin beyond its
bound. `Steps` folds the five ways to release an order (confirmation, code,
courier, decision, timer) into one case. `EscrowIsBacked` follows by the laws of
sums; `AnswersAreTrue` because an order only moves onward from any status that
was reported; `AttemptsAreCounted` by counting the answered keys;
`DisputesAreFrozen` because the only steps that change a disputed order answer a
decision.

**Overdraft.** `OverdraftInv` needs the types, `TaskTracksHold` and
`HoldingBacked` of the hold underneath. A send decides on the list of grants it read
earlier; the list can only be too short (`ListedInductive`), and what it draws is
checked against the balances of the rows it has locked. The work is in the lien, a loop over the
loans. `LeftAfter` is a recursive function, and inductions over the loans visited
show what the loop computes: what is left of the budget never
increases, and the budget spent is the sum of the repayments. From these follow
that a pool gets back what its loans lose (`PoolsStaySolvent`), that a loan is
repaid only if the ones before it are paid off (`RepaidOldestFirst`), and that no
more than the budget is taken (`BorrowersKeepHalf`).

**Identity.** `IdentityInv` adds what an open registration or refresh has in hand
(`Holds(c)`), that two open registrations never have the same user id or number
(`Apart`), and that sessions are issued in order (`IssuedInOrder`), which makes the
next id a new one. `RegistrationWhole` and `TokensMintOnce` are inductive with
these; the latter counts the successors of a session together with the refreshes
that have read it and not yet committed.

**MoneyRequest and PinGate.** `RequestInv` adds to the types what a call may rely
on while it holds a row. `UserRowsHeld`: the row of a user is held by one call of
that user, which saw the counter as it still is; without it a failure could
overwrite another one. `RequestRowsHeld`: a locked request is `PENDING` and
belongs to the call that is about to pay it. `LockoutsPassed`: the lockout of the
(n + 1)-th failure from the limit on ends after n + 1 lockouts at the earliest,
because each such call read a clock that was past the lockout before it. From
these follow `PaidOnce`, `FailuresCounted`, `GuessingPaced` (by division with
remainder) and `RequestTypes`. TLC found `RequestInv` true on the instance of
`money_requests`. `Steps` folds all ends of a call that leave nothing behind
into one case.

**Delivery.** `DeliveryInv`: batches of different relays are apart and pending
(`BatchesApart`), a row is given up with its last attempt (`AttemptsLeft`), one
worker at a time inserts an event, and only while it is not in the inbox
(`HandsFit`), and what a relay has marked sent, not yet committed, is already
kept (`SentKept`). The last is what a crash between publication and commit
needs. `NothingPublishedIsLost` and `DeliveryTypes` follow. `ProcessedNotifiedOnce` has an
induction of its own on top (`EffectsFirst`: a committed row, and a handling past
its effect, have been notified); that nothing is notified after the row is
committed then follows from `HandsFit`.

**Only model-checked.** Liveness (`SubmissionsEnd`, `HoldsResolve`,
`DeliveredResolves`, `EventsHandled`), which needs fairness and ENABLED, and the findings.

## What is left out

In the modelled parts: the fee (the wired strategy charges none); notes,
references, audit rows and the outbox row of the transfer modules, which commits
with the transfer (`Delivery` begins where it is committed); the expiry of
idempotency rows; due times of tasks (any pending task may be due); the minimum
amount, and limits other than those of `TransferTxn`. `SafePay` balances leave
out the lien on what a seller receives. `SafePay` and `Overdraft` do not model
waits inside a transaction, other than a send's wait for its rows. A refund to a buyer
whose account a ban has closed fails as in the code, and the order stays disputed with
its money in escrow; nothing is claimed about how it ends. The backoff of the relay is
abstracted, and with it a skew between its clock and the database's. `PinGate` is composed with accepting a request; the
other money commands go through the same gate and differ in what follows it.
Passwords, hashes and tokens are opaque, access tokens are not modelled: they
are valid until they expire, whatever becomes of their session.

### Not modelled

- Rate limiting: a counter in Redis per key and window that lets the call pass
  when Redis fails; no money state depends on it.
- Reconciliation: read-only; its identities are invariants here.
- Payment links and group wallets: tables without operations.
- Migrations, seed data, configuration, formatting, read-only routes and
  listings, and the screens of the web client other than the accept button.
- Row-lock order inside SafePay and lien transactions (three of the hazards):
  their deadlocks are resolved by PostgreSQL and retried, with the shape
  `UndoRace` shows for the undo.

## Plan

1. Statement-level locks of SafePay (dispute against timer, ban after
   settlement) and of the lien (`additional_lock_ids` reads loans before it
   locks), as a module beside `UndoRace`.
