----------------------------- MODULE TransferTxn -----------------------------
(***************************************************************************)
(* TransferUseCase.execute at the level of its SQL statements, run by      *)
(* concurrent clients, each in a READ COMMITTED transaction of its own     *)
(* opened by UnitOfWork.transaction.                                       *)
(*                                                                         *)
(* One submission of a command reserves its idempotency key, locks its two *)
(* account rows one at a time in ascending id order, decides on what it    *)
(* read under the locks, and commits: the balances as absolute values, the *)
(* ledger entries as increments, the transfer row and the completed        *)
(* idempotency row become visible in one step.  A transaction may fail at  *)
(* any point before that (a rejected command, a timeout, a lost connection,*)
(* a killed process), and a client may submit the same command again as    *)
(* often as it likes, whether or not it saw an answer.                     *)
(*                                                                         *)
(* The fee is left out: the container wires NoFeeStrategy.  The receiver   *)
(* owes no overdraft loan, so the credit interceptor asks for no more rows *)
(* and moves nothing.                                                      *)
(***************************************************************************)
EXTENDS Integers, FiniteSets, Sums

CONSTANTS
  Clients,          \* the submitters of commands
  Nobody,           \* the owner of a free lock
  Users,
  NoUser,           \* user_id NULL: a system account
  Accounts,         \* account ids; their order is the order of the ULIDs
  Issuance,         \* SYSTEM_ISSUANCE_ACCOUNT_ID, the smallest id
  Keys,             \* idempotency keys, per actor
  Command,          \* the TransferCommand each client submits
  Owner,            \* account -> the user owning it
  Opening,          \* account -> balance at the start
  MaxSingle,        \* max_single_transfer_minor
  DailyLimit,       \* daily_total_minor
  LastDay           \* bound: days 0 .. LastDay are observed

Days == 0 .. LastDay

Commands == [actor : Users, key : Keys, sender : Accounts, receiver : Accounts,
             amount : Nat \ {0}, kind : {"P2P_SEND", "SIGNUP_GRANT"}]

ASSUME ClientsAssumption == Nobody \notin Clients
ASSUME AccountsAssumption ==
  IsFiniteSet(Accounts) /\ Accounts \subseteq Nat /\ Issuance \in Accounts
ASSUME OwnerAssumption ==
  /\ Owner \in [Accounts -> Users \cup {NoUser}]
  /\ NoUser \notin Users
  /\ Owner[Issuance] = NoUser
ASSUME CommandAssumption ==
  /\ Command \in [Clients -> Commands]
  /\ \A c \in Clients : Command[c].kind = "SIGNUP_GRANT" => Command[c].sender = Issuance
ASSUME OpeningAssumption ==
  /\ Opening \in [Accounts -> Int]
  /\ \A a \in Accounts \ {Issuance} : Opening[a] >= 0
ASSUME BoundsAssumption ==
  MaxSingle \in Nat /\ DailyLimit \in Nat /\ LastDay \in Nat

VARIABLES
  balance,      \* accounts.balance_minor, committed
  status,       \* accounts.status, committed
  ledger,       \* per account, the sum of its committed ledger entries
  transfers,    \* committed rows of transfers
  lastId,       \* the last transfer id handed out
  idem,         \* committed rows of idempotency_keys, by (actor, key)
  keyLock,      \* the transaction whose uncommitted INSERT holds a key
  rowLock,      \* the transaction holding each account row FOR UPDATE
  pc,           \* where each client's transaction stands
  seen,         \* what each transaction read of the account rows it locked
  started,      \* the day of the clock reading that opens the use case
  reply,        \* the answer to each client's last submission
  today         \* the day on the clock

committed == <<balance, status, ledger, transfers, lastId, idem>>
locks == <<keyLock, rowLock>>
local == <<pc, seen, started, reply>>
vars == <<balance, status, ledger, transfers, lastId, idem, keyLock, rowLock,
          pc, seen, started, reply, today>>

IdemKeys == Users \X Keys
Payloads == Accounts \X Accounts \X (Nat \ {0})
Statuses == {"ACTIVE", "CLOSED"}
Results == {"none", "created", "replayed", "rejected", "unknown"}

\* No row for a key: transfer ids start at 1.
NoRow == [fingerprint |-> <<Issuance, Issuance, 1>>, transfer |-> 0]

NoReply == [result |-> "none", transfer |-> 0]
Unread == [a \in Accounts |-> [balance |-> 0, status |-> "CLOSED"]]

IdemKey(c) == <<Command[c].actor, Command[c].key>>
Fingerprint(c) == <<Command[c].sender, Command[c].receiver, Command[c].amount>>

\* Mutant: the row is stamped with the day after.
TransferNextDay(c, id) ==
  [id |-> id, key |-> IdemKey(c), sender |-> Command[c].sender,
   receiver |-> Command[c].receiver, amount |-> Command[c].amount, day |-> started[c] + 1]

Transfer(c, id) ==
  [id |-> id, key |-> IdemKey(c), sender |-> Command[c].sender,
   receiver |-> Command[c].receiver, amount |-> Command[c].amount, day |-> started[c]]

Wanted(c) == {Command[c].sender, Command[c].receiver}
Held(c) == {a \in Accounts : rowLock[a] = c}
InTransaction(c) == pc[c] \in {"reserve", "lock", "write"}

Init ==
  /\ balance = Opening
  /\ status = [a \in Accounts |-> "ACTIVE"]
  /\ ledger = Opening
  /\ transfers = {}
  /\ lastId = 0
  /\ idem = [k \in IdemKeys |-> NoRow]
  /\ keyLock = [k \in IdemKeys |-> Nobody]
  /\ rowLock = [a \in Accounts |-> Nobody]
  /\ pc = [c \in Clients |-> "idle"]
  /\ seen = [c \in Clients |-> Unread]
  /\ started = [c \in Clients |-> 0]
  /\ reply = [c \in Clients |-> NoReply]
  /\ today = 0

-----------------------------------------------------------------------------
(* The end of a transaction: its locks are released, what it had read is   *)
(* gone, and it answers.                                                   *)

\* Mutant: the reservation of the key outlives the transaction.
EndsKeepsKey(c, result, id) ==
  /\ pc' = [pc EXCEPT ![c] = "idle"]
  /\ reply' = [reply EXCEPT ![c] = [result |-> result, transfer |-> id]]
  /\ seen' = [seen EXCEPT ![c] = Unread]
  /\ started' = [started EXCEPT ![c] = 0]
  /\ keyLock' = keyLock
  /\ rowLock' = [a \in Accounts |-> IF rowLock[a] = c THEN Nobody ELSE rowLock[a]]

Ends(c, result, id) ==
  /\ pc' = [pc EXCEPT ![c] = "idle"]
  /\ reply' = [reply EXCEPT ![c] = [result |-> result, transfer |-> id]]
  /\ seen' = [seen EXCEPT ![c] = Unread]
  /\ started' = [started EXCEPT ![c] = 0]
  /\ keyLock' = [k \in IdemKeys |-> IF keyLock[k] = c THEN Nobody ELSE keyLock[k]]
  /\ rowLock' = [a \in Accounts |-> IF rowLock[a] = c THEN Nobody ELSE rowLock[a]]

Rollback(c, result) ==
  /\ Ends(c, result, 0)
  /\ UNCHANGED <<committed, today>>

\* A client submits its command, for the first time or again.
Submit(c) ==
  /\ pc[c] = "idle"
  /\ pc' = [pc EXCEPT ![c] = "reserve"]
  /\ started' = [started EXCEPT ![c] = today]
  /\ reply' = [reply EXCEPT ![c] = NoReply]
  /\ UNCHANGED <<committed, locks, seen, today>>

\* Mutant: a plain SELECT looks for the key and does not wait.
KeyFreeNoWait(c) == TRUE

\* INSERT ... ON CONFLICT DO NOTHING waits for an uncommitted insert of the
\* same key, then either inserts or reads the committed row.
KeyFree(c) == keyLock[IdemKey(c)] = Nobody

ReserveProceed(c) ==
  /\ pc[c] = "reserve"
  /\ KeyFree(c)
  /\ idem[IdemKey(c)] = NoRow
  /\ keyLock' = [keyLock EXCEPT ![IdemKey(c)] = c]
  /\ pc' = [pc EXCEPT ![c] = "lock"]
  /\ UNCHANGED <<committed, rowLock, seen, started, reply, today>>

\* Mutant: the fingerprint is not compared.
ReserveReplayAnyPayload(c) ==
  /\ pc[c] = "reserve"
  /\ KeyFree(c)
  /\ idem[IdemKey(c)] # NoRow
  /\ Ends(c, "replayed", idem[IdemKey(c)].transfer)
  /\ UNCHANGED <<committed, today>>

ReserveReplay(c) ==
  /\ pc[c] = "reserve"
  /\ KeyFree(c)
  /\ idem[IdemKey(c)] # NoRow
  /\ idem[IdemKey(c)].fingerprint = Fingerprint(c)
  /\ Ends(c, "replayed", idem[IdemKey(c)].transfer)
  /\ UNCHANGED <<committed, today>>

ReserveMismatch(c) ==
  /\ pc[c] = "reserve"
  /\ KeyFree(c)
  /\ idem[IdemKey(c)] # NoRow
  /\ idem[IdemKey(c)].fingerprint # Fingerprint(c)
  /\ Rollback(c, "rejected")

\* Mutant: the sender first, whatever the ids.
NextRowSenderFirst(c) ==
  IF Command[c].sender \notin Held(c) THEN Command[c].sender ELSE Command[c].receiver

\* The next row SELECT ... ORDER BY id FOR UPDATE asks for.
NextRow(c) ==
  CHOOSE a \in Wanted(c) \ Held(c) : \A b \in Wanted(c) \ Held(c) : a <= b

\* Mutant: SELECT without FOR UPDATE.
LockRowNoWait(c) ==
  /\ pc[c] = "lock"
  /\ Command[c].sender # Command[c].receiver
  /\ Wanted(c) \ Held(c) # {}
  /\ LET a == NextRow(c) IN
       /\ rowLock' = [rowLock EXCEPT ![a] = c]
       /\ seen' = [seen EXCEPT ![c][a] = [balance |-> balance[a], status |-> status[a]]]
  /\ UNCHANGED <<committed, keyLock, pc, started, reply, today>>

\* FOR UPDATE waits for the row, then reads its latest committed version.
LockRow(c) ==
  /\ pc[c] = "lock"
  /\ Command[c].sender # Command[c].receiver
  /\ Wanted(c) \ Held(c) # {}
  /\ LET a == NextRow(c) IN
       /\ rowLock[a] = Nobody
       /\ rowLock' = [rowLock EXCEPT ![a] = c]
       /\ seen' = [seen EXCEPT ![c][a] = [balance |-> balance[a], status |-> status[a]]]
  /\ UNCHANGED <<committed, keyLock, pc, started, reply, today>>

\* Mutant: only what was sent after the day is counted.
SentSinceExclusive(a, d) ==
  LET sent == {t \in transfers : t.sender = a /\ t.day > d}
  IN  NatSum(sent, [t \in sent |-> t.amount])

\* sum_sent_since(sender, start of the day the use case read)
SentSince(a, d) ==
  LET sent == {t \in transfers : t.sender = a /\ t.day >= d}
  IN  NatSum(sent, [t \in sent |-> t.amount])

Authorized(c) ==
  \/ Command[c].kind = "SIGNUP_GRANT" /\ Owner[Command[c].sender] = NoUser
  \/ Owner[Command[c].sender] = Command[c].actor

WithinLimits(c) ==
  Command[c].kind = "SIGNUP_GRANT" \/
    /\ Command[c].amount <= MaxSingle
    /\ SentSince(Command[c].sender, started[c]) + Command[c].amount <= DailyLimit

\* Mutant: affordability is decided on a balance read before the lock.
CanAffordStale(c) ==
  \/ Command[c].sender = Issuance
  \/ Opening[Command[c].sender] >= Command[c].amount

CanAfford(c) ==
  \/ Command[c].sender = Issuance
  \/ seen[c][Command[c].sender].balance >= Command[c].amount

\* Mutant: the accounts' status is not checked again under the lock.
RevalidatedNoStatus(c) == Authorized(c) /\ WithinLimits(c) /\ CanAfford(c)

\* Step 3 of execute: everything is checked again on what the locks protect.
Revalidated(c) ==
  /\ Authorized(c)
  /\ \A a \in Wanted(c) : seen[c][a].status = "ACTIVE"
  /\ WithinLimits(c)
  /\ CanAfford(c)

Accept(c) ==
  /\ pc[c] = "lock"
  /\ Command[c].sender # Command[c].receiver
  /\ Wanted(c) \subseteq Held(c)
  /\ Revalidated(c)
  /\ pc' = [pc EXCEPT ![c] = "write"]
  /\ UNCHANGED <<committed, locks, seen, started, reply, today>>

Reject(c) ==
  /\ pc[c] = "lock"
  /\ \/ Command[c].sender = Command[c].receiver
     \/ Wanted(c) \subseteq Held(c) /\ ~Revalidated(c)
  /\ Rollback(c, "rejected")

\* Mutant: the receiver's balance is not persisted.
PersistBalanceSenderOnly(c) ==
  [balance EXCEPT ![Command[c].sender] = seen[c][Command[c].sender].balance - Command[c].amount]

\* persist_balance writes the value decided from the locked read.
PersistBalance(c) ==
  LET cmd == Command[c] IN
  [balance EXCEPT ![cmd.sender] = seen[c][cmd.sender].balance - cmd.amount,
                  ![cmd.receiver] = seen[c][cmd.receiver].balance + cmd.amount]

\* LedgerPosting.transfer: two lines that sum to zero.
Post(c) ==
  LET cmd == Command[c] IN
  [ledger EXCEPT ![cmd.sender] = @ - cmd.amount, ![cmd.receiver] = @ + cmd.amount]

\* Mutant: the idempotency row is not completed.
CommitWithoutComplete(c) ==
  /\ pc[c] = "write"
  /\ balance' = PersistBalance(c)
  /\ ledger' = Post(c)
  /\ lastId' = lastId + 1
  /\ transfers' = transfers \cup {Transfer(c, lastId + 1)}
  /\ Ends(c, "created", lastId + 1)
  /\ UNCHANGED <<status, idem, today>>

\* Steps 4 to 8 of execute and the commit that publishes them.
Commit(c) ==
  /\ pc[c] = "write"
  /\ balance' = PersistBalance(c)
  /\ ledger' = Post(c)
  /\ lastId' = lastId + 1
  /\ transfers' = transfers \cup {Transfer(c, lastId + 1)}
  /\ idem' = [idem EXCEPT ![IdemKey(c)] =
                [fingerprint |-> Fingerprint(c), transfer |-> lastId + 1]]
  /\ Ends(c, "created", lastId + 1)
  /\ UNCHANGED <<status, today>>

\* A statement or lock timeout, a lost connection or a killed process.
Fail(c) ==
  /\ InTransaction(c)
  /\ Rollback(c, "unknown")

\* set_status: the UPDATE needs the row, so it waits for its locker.
CloseAccount(a) ==
  /\ Owner[a] # NoUser
  /\ rowLock[a] = Nobody
  /\ status[a] = "ACTIVE"
  /\ status' = [status EXCEPT ![a] = "CLOSED"]
  /\ UNCHANGED <<balance, ledger, transfers, lastId, idem, locks, local, today>>

Midnight ==
  /\ today < LastDay
  /\ today' = today + 1
  /\ UNCHANGED <<committed, locks, local>>

\* The steps a submission takes by itself once it has begun.
Step(c) ==
  \/ ReserveProceed(c) \/ ReserveReplay(c) \/ ReserveMismatch(c)
  \/ LockRow(c) \/ Accept(c) \/ Reject(c) \/ Commit(c)

Next ==
  \/ \E c \in Clients : Submit(c) \/ Step(c) \/ Fail(c)
  \/ \E a \in Accounts : CloseAccount(a)
  \/ Midnight

Spec == Init /\ [][Next]_vars

\* A transaction that can go on does; and PostgreSQL serves the waiters of a row
\* in the order they came, so none is passed over for ever.
FairSpec == Spec /\ \A c \in Clients : SF_vars(Step(c))

-----------------------------------------------------------------------------
(* Correctness.                                                            *)

TypeOK ==
  /\ balance \in [Accounts -> Int]
  /\ status \in [Accounts -> Statuses]
  /\ ledger \in [Accounts -> Int]
  /\ transfers \subseteq [id : Nat \ {0}, key : IdemKeys, sender : Accounts,
                          receiver : Accounts, amount : Nat \ {0}, day : Days]
  /\ lastId \in Nat
  /\ idem \in [IdemKeys -> [fingerprint : Payloads, transfer : Nat]]
  /\ keyLock \in [IdemKeys -> Clients \cup {Nobody}]
  /\ rowLock \in [Accounts -> Clients \cup {Nobody}]
  /\ pc \in [Clients -> {"idle", "reserve", "lock", "write"}]
  /\ seen \in [Clients -> [Accounts -> [balance : Int, status : Statuses]]]
  /\ started \in [Clients -> Days]
  /\ reply \in [Clients -> [result : Results, transfer : Nat]]
  /\ today \in Days

\* No update is lost: the balance an account row carries, written as an
\* absolute value by persist_balance, is the sum of the ledger entries that
\* concurrent transfers appended.
BalanceIsLedger == balance = ledger

\* Money is neither created nor destroyed, whatever interleaving, failure or
\* retry: all balances, the issuance account's negative one included, keep
\* their total.
MoneyConserved == Sum(Accounts, balance) = Sum(Accounts, Opening)

\* No account but the issuance account is ever overdrawn, although the check
\* (ensure_can_afford) and the write are separate steps.
NeverOverdrawn == \A a \in Accounts \ {Issuance} : balance[a] >= 0

\* However often a command is submitted, and by however many clients at once,
\* its (actor, key) produces at most one transfer.
OneTransferPerKey == \A t, u \in transfers : t.key = u.key => t = u

\* A positive answer, first or replayed, names the one transfer of that key,
\* and that transfer moved what this client asked for.
RepliesTruthful ==
  \A c \in Clients : reply[c].result \in {"created", "replayed"} =>
    \E t \in transfers :
      /\ t.id = reply[c].transfer
      /\ t.key = IdemKey(c)
      /\ <<t.sender, t.receiver, t.amount>> = Fingerprint(c)

\* What an account sends on one day stays within the daily cap, although the
\* day is the one the clock showed before the transaction waited for its
\* locks, and other transfers of the same account may have committed, on this
\* day or the next, in between (DefaultLimitPolicy).
DailyLimitHeld ==
  \A a \in Accounts \ {Issuance}, d \in Days :
    LET sent == {t \in transfers : t.sender = a /\ t.day = d}
    IN  NatSum(sent, [t \in sent |-> t.amount]) <= DailyLimit

\* c cannot go on before d ends: d holds the key or the row c is waiting for.
WaitsFor(c, d) ==
  \/ pc[c] = "reserve" /\ keyLock[IdemKey(c)] = d
  \/ /\ pc[c] = "lock" /\ Command[c].sender # Command[c].receiver
     /\ Wanted(c) \ Held(c) # {}
     /\ rowLock[NextRow(c)] = d

\* No set of transactions waits for one another in a circle: the reason
\* lock_for_update sorts the ids (and keys are reserved before any row).
NoWaitCycle ==
  \A S \in (SUBSET Clients) \ {{}} : \E c \in S : \A d \in S : ~WaitsFor(c, d)

\* A closed account's balance no longer moves: no transfer that read it as
\* active commits after it was closed.
ClosedAccountsFrozen ==
  [][\A a \in Accounts : status[a] = "CLOSED" => balance'[a] = balance[a]]_vars

\* Every submission comes to an end: it is answered or it fails.
SubmissionsEnd == \A c \in Clients : InTransaction(c) ~> ~InTransaction(c)

-----------------------------------------------------------------------------
(* The inductive invariant behind the safety properties.                   *)

\* Locks belong to transactions that need them, and a key is held from the
\* reservation to the end of the transaction.
LocksOwned ==
  /\ \A k \in IdemKeys, c \in Clients :
       keyLock[k] = c <=> pc[c] \in {"lock", "write"} /\ k = IdemKey(c)
  /\ \A a \in Accounts, c \in Clients :
       rowLock[a] = c => pc[c] \in {"lock", "write"} /\ a \in Wanted(c)

\* A held key has no committed row yet.
HeldKeysFresh == \A k \in IdemKeys : keyLock[k] # Nobody => idem[k] = NoRow

\* What a transaction read of a row it still holds is the committed state.
ReadsFresh ==
  \A a \in Accounts, c \in Clients :
    rowLock[a] = c => seen[c][a] = [balance |-> balance[a], status |-> status[a]]

\* A transaction about to write holds both rows, and its checks still stand.
ChecksStand ==
  \A c \in Clients : pc[c] = "write" =>
    /\ Command[c].sender # Command[c].receiver
    /\ Wanted(c) \subseteq Held(c)
    /\ Revalidated(c)

\* Committed transfers and completed idempotency rows correspond.
RowsMatch ==
  /\ \A t \in transfers :
       /\ t.id <= lastId
       /\ idem[t.key].transfer = t.id
       /\ idem[t.key].fingerprint = <<t.sender, t.receiver, t.amount>>
  /\ \A k \in IdemKeys : idem[k] # NoRow =>
       \E t \in transfers : t.key = k /\ t.id = idem[k].transfer
  /\ \A t, u \in transfers : t.id = u.id => t = u

\* Rows are taken in ascending order.
RowsAscend ==
  \A c \in Clients : \A a \in Held(c), b \in Wanted(c) \ Held(c) : a < b

\* The account rows and keys are locked, read, checked and written so that no
\* transaction acts on a value another one changed: the inductive invariant.
Isolation ==
  /\ LocksOwned /\ HeldKeysFresh /\ ReadsFresh /\ ChecksStand /\ RowsMatch /\ RowsAscend

-----------------------------------------------------------------------------
\* The use case implements the atomic, at-most-once payments of Payments.
Abstract == INSTANCE Payments WITH applied <- {t.key : t \in transfers}
ImplementsPayments == Abstract!Spec
=============================================================================
