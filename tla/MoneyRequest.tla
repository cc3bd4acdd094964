---------------------------- MODULE MoneyRequest ----------------------------
(***************************************************************************)
(* Money requests (MoneyRequestService): a requester asks a payer for an   *)
(* amount, and the payer accepts, the payer rejects, the requester cancels *)
(* or the request lapses.                                                  *)
(*                                                                         *)
(* Accepting is a money command behind the PIN (module PinGate): one       *)
(* transaction checks the PIN, locks the request row, moves the money      *)
(* through the transfer use case and latches the request, and rolls all of *)
(* it back on any refusal.  The transfer is one step here: TransferTxn     *)
(* shows it to be atomic.  The clock is read before each wait for a row,   *)
(* so a call decides by a time that may be past.                           *)
(***************************************************************************)
EXTENDS PinGate, Sums

CONSTANTS
  Requests,
  None,
  Requester,        \* request -> the user asking; one account per user
  Payer,            \* request -> the user asked
  Amount,           \* request -> amount_minor
  Keys,             \* idempotency keys of accepting calls
  Opening,          \* user -> balance at the start
  Expiry,           \* money_request_expiry, in ticks of the clock
  Bannable          \* bound: the users whose account may be closed

ASSUME RequestAssumption ==
  /\ IsFiniteSet(Requests) /\ None \notin Requests
  /\ Requester \in [Requests -> Users] /\ Payer \in [Requests -> Users]
  /\ \A r \in Requests : Requester[r] # Payer[r]
  /\ Amount \in [Requests -> Nat \ {0}] /\ Opening \in [Users -> Nat]
  /\ Expiry \in Nat \ {0} /\ Bannable \subseteq Users

VARIABLES
  request,          \* money_requests.status, committed
  expires,          \* money_requests.expires_at
  rowLock,          \* the transaction holding each request row FOR UPDATE
  target,           \* the request each accepting call is about
  key,              \* the idempotency key of each accepting call
  now,              \* the clock as accept read it
  balance,          \* the balance of each user's account
  closed,           \* the users whose account is not ACTIVE
  idem,             \* idempotency_keys: (payer, key) -> the request it paid
  transfers,        \* transfers with a money_request_id: how many per request
  sweeps            \* MONEY_REQUEST_EXPIRY rows in scheduled_tasks

committed == <<request, expires, balance, closed, idem, transfers, sweeps>>
vars == <<clock, failed, lockedUntil, userLock, wrongs, pc, rightPin,
          began, seen, request, expires, rowLock, target, key, now, balance,
          closed, idem, transfers, sweeps>>

Statuses == {"none", "PENDING", "ACCEPTED", "REJECTED", "CANCELLED", "EXPIRED"}

Init ==
  /\ GateInit
  /\ request = [r \in Requests |-> "none"]
  /\ expires = [r \in Requests |-> 0]
  /\ rowLock = [r \in Requests |-> Nobody]
  /\ target = [c \in Clients |-> None]
  /\ key = [c \in Clients |-> None]
  /\ now = [c \in Clients |-> 0]
  /\ balance = Opening
  /\ closed = {}
  /\ idem = [k \in Users \X Keys |-> None]
  /\ transfers = [r \in Requests |-> 0]
  /\ sweeps = 0

\* The accepting call is over: its request row is released and its inputs gone.
AcceptEnds(c) ==
  /\ rowLock' = [r \in Requests |-> IF rowLock[r] = c THEN Nobody ELSE rowLock[r]]
  /\ target' = [target EXCEPT ![c] = None]
  /\ key' = [key EXCEPT ![c] = None]
  /\ now' = [now EXCEPT ![c] = 0]

Lapsed(r, t) == expires[r] <= t

-----------------------------------------------------------------------------
(* Creating, rejecting and cancelling: no PIN, one short transaction each. *)

InsertRequest(r) ==
  /\ request' = [request EXCEPT ![r] = "PENDING"]
  /\ expires' = [expires EXCEPT ![r] = clock + Expiry]

\* create: both accounts must be ACTIVE.
Create(r) ==
  /\ request[r] = "none"
  /\ {Requester[r], Payer[r]} \cap closed = {}
  /\ InsertRequest(r)
  /\ UNCHANGED <<clock, gateVars, callVars, rowLock, target, key, now, balance,
                 closed, idem, transfers, sweeps>>

\* Mutant: the UPDATE has no status predicate.
MarkTerminalAnyStatus(r, status) ==
  /\ request[r] # "none"
  /\ request' = [request EXCEPT ![r] = status]

\* mark_terminal: the conditional UPDATE; with any other status the call ends
\* in StateConflictError and changes nothing.
MarkTerminal(r, status) ==
  /\ request[r] = "PENDING"
  /\ request' = [request EXCEPT ![r] = status]

\* _terminate: the row is locked first.  A lapsed request that is still PENDING
\* may be rejected or cancelled.
Terminate(r, status) ==
  /\ rowLock[r] = Nobody
  /\ MarkTerminal(r, status)
  /\ UNCHANGED <<clock, gateVars, callVars, expires, rowLock, target, key, now,
                 balance, closed, idem, transfers, sweeps>>

Reject(r) == Terminate(r, "REJECTED")
Cancel(r) == Terminate(r, "CANCELLED")

-----------------------------------------------------------------------------
(* Accepting. *)

\* The payer presses Accept and types a PIN.  The screen makes up a new key at
\* every press; another client may send an old one again.
PressAccept(c, r, k, right) ==
  /\ request[r] # "none"
  /\ Payer[r] = Caller[c]
  /\ CallBegins(c, right)
  /\ target' = [target EXCEPT ![c] = r]
  /\ key' = [key EXCEPT ![c] = k]
  /\ UNCHANGED <<clock, committed, rowLock, now>>

\* verify_pin lets the call pass, counts a wrong PIN later, or refuses it; accept
\* reads the clock again before it waits for the request row.
CheckPin(c) ==
  /\ LockUser(c)
  /\ now' = [now EXCEPT ![c] = IF rightPin[c] THEN clock ELSE 0]
  /\ UNCHANGED <<clock, committed, rowLock, target, key>>

PinRefused(c) ==
  /\ CountWrongPin(c) \/ PinLocked(c)
  /\ AcceptEnds(c)
  /\ UNCHANGED <<clock, committed>>

\* The request row is free, PENDING, and not lapsed at the time read.
LockRequest(c) ==
  /\ pc[c] = "lock"
  /\ rowLock[target[c]] = Nobody
  /\ request[target[c]] = "PENDING" /\ ~Lapsed(target[c], now[c])
  /\ rowLock' = [rowLock EXCEPT ![target[c]] = c]
  /\ pc' = [pc EXCEPT ![c] = "decide"]
  /\ UNCHANGED <<clock, committed, gateVars, rightPin, began, seen, target, key, now>>

\* The request was handled by someone else, or has lapsed: the mark EXPIRED that
\* accept writes is rolled back by the StateConflictError it raises.
RequestRefused(c) ==
  /\ pc[c] = "lock"
  /\ rowLock[target[c]] = Nobody
  /\ request[target[c]] # "PENDING" \/ Lapsed(target[c], now[c])
  /\ PinRollsBack(c)
  /\ AcceptEnds(c)
  /\ UNCHANGED <<clock, committed>>

\* Mutant: the transfer does not look at the balance.
PayableUnchecked(c, r) ==
  /\ idem[<<Caller[c], key[c]>>] = None
  /\ {Requester[r], Payer[r]} \cap closed = {}

\* What TransferUseCase.execute decides.
Payable(c, r) ==
  /\ idem[<<Caller[c], key[c]>>] = None
  /\ {Requester[r], Payer[r]} \cap closed = {}
  /\ balance[Payer[r]] >= Amount[r]

Pay(r) ==
  balance' = [balance EXCEPT ![Payer[r]] = @ - Amount[r],
                             ![Requester[r]] = @ + Amount[r]]

\* mark_accepted: the conditional UPDATE, with its transfer.
MarkAccepted(r) ==
  /\ request[r] = "PENDING"
  /\ request' = [request EXCEPT ![r] = "ACCEPTED"]
  /\ transfers' = [transfers EXCEPT ![r] = @ + 1]

\* The transfer, mark_accepted and the PIN's reset commit together.  The row is
\* locked, so mark_accepted's predicate on the status always holds here.
Accept(c) ==
  /\ pc[c] = "decide"
  /\ Payable(c, target[c])
  /\ Pay(target[c])
  /\ idem' = [idem EXCEPT ![<<Caller[c], key[c]>>] = target[c]]
  /\ MarkAccepted(target[c])
  /\ PinCommits(c)
  /\ AcceptEnds(c)
  /\ UNCHANGED <<clock, expires, closed, sweeps>>

\* The transfer is refused (funds, a closed account, a key that paid another
\* request) and the exception rolls everything back.
TransferRefused(c) ==
  /\ pc[c] = "decide"
  /\ ~Payable(c, target[c])
  /\ PinRollsBack(c)
  /\ AcceptEnds(c)
  /\ UNCHANGED <<clock, committed>>

\* A timeout, a lost connection, a killed process, a deadlock: PostgreSQL rolls
\* the open transaction back.
Abort(c) ==
  /\ pc[c] # "idle"
  /\ PinRollsBack(c)
  /\ AcceptEnds(c)
  /\ UNCHANGED <<clock, committed>>

-----------------------------------------------------------------------------
(* The rest of the system. *)

\* A ban in SafePay closes the user and the account: the UPDATE of the user row
\* waits for a call that holds it.
CloseAccount(u) ==
  /\ u \notin closed
  /\ userLock[u] = Nobody
  /\ closed' = closed \cup {u}
  /\ UNCHANGED <<clock, gateVars, callVars, request, expires, rowLock, target, key,
                 now, balance, idem, transfers, sweeps>>

\* The scheduler worker's handler for MONEY_REQUEST_EXPIRY.  It needs a row in
\* scheduled_tasks, and no code inserts one.
ExpireDue ==
  /\ sweeps > 0
  /\ sweeps' = sweeps - 1
  /\ LET due == {r \in Requests : request[r] = "PENDING" /\ Lapsed(r, clock)}
     IN  /\ \A r \in due : rowLock[r] = Nobody
         /\ request' = [r \in Requests |-> IF r \in due THEN "EXPIRED" ELSE request[r]]
  /\ UNCHANGED <<clock, gateVars, callVars, expires, rowLock, target, key, now,
                 balance, closed, idem, transfers>>

Tick ==
  /\ clock < LastTick
  /\ clock' = clock + 1
  /\ UNCHANGED <<committed, gateVars, callVars, rowLock, target, key, now>>

CallStep(c) ==
  CheckPin(c) \/ PinRefused(c) \/ LockRequest(c) \/ RequestRefused(c)
    \/ Accept(c) \/ TransferRefused(c)

Next ==
  \/ \E r \in Requests : Create(r) \/ Reject(r) \/ Cancel(r)
  \/ \E c \in Clients, r \in Requests, k \in Keys, right \in BOOLEAN :
       PressAccept(c, r, k, right)
  \/ \E c \in Clients : CallStep(c) \/ Abort(c)
  \/ \E u \in Bannable : CloseAccount(u)
  \/ Tick

Spec == Init /\ [][Next]_vars

\* Time passes, a call that is in the server goes on, and the scheduler worker
\* polls for as long as it runs.
WorkerSpec ==
  /\ Init /\ [][Next \/ ExpireDue]_vars
  /\ WF_vars(Tick) /\ WF_vars(ExpireDue)
  /\ \A c \in Clients : WF_vars(CallStep(c))

-----------------------------------------------------------------------------
TypeOK ==
  /\ GateTypeOK
  /\ request \in [Requests -> Statuses]
  /\ expires \in [Requests -> Nat]
  /\ rowLock \in [Requests -> Clients \cup {Nobody}]
  /\ target \in [Clients -> Requests \cup {None}]
  /\ key \in [Clients -> Keys \cup {None}]
  /\ now \in [Clients -> Ticks]
  /\ balance \in [Users -> Nat]
  /\ closed \subseteq Users
  /\ idem \in [Users \X Keys -> Requests \cup {None}]
  /\ transfers \in [Requests -> Nat]
  /\ sweeps \in Nat

AcceptedBy(u) == {r \in Requests : Payer[r] = u /\ request[r] = "ACCEPTED"}
AcceptedFor(u) == {r \in Requests : Requester[r] = u /\ request[r] = "ACCEPTED"}

\* A request is paid by exactly one transfer when it is ACCEPTED and by none
\* otherwise, and the balances are what the accepted requests moved: whatever
\* two accepting devices, a rejection, a cancellation and a retry under a new
\* key do to each other, accept pays once or not at all.
PaidOnceIffAccepted ==
  /\ \A r \in Requests : transfers[r] = IF request[r] = "ACCEPTED" THEN 1 ELSE 0
  /\ \A u \in Users :
       balance[u] = Opening[u]
                      + NatSum(AcceptedFor(u), Amount) - NatSum(AcceptedBy(u), Amount)

\* README: the payer approves, declines, "or let it expire": a request that is
\* pending after its expiry does not stay PENDING for ever.
RequestsExpire ==
  \A r \in Requests :
    (request[r] = "PENDING" /\ Lapsed(r, clock)) ~> (request[r] # "PENDING")
=============================================================================
