------------------------------- MODULE PinGate -------------------------------
(***************************************************************************)
(* The PIN check in front of every money command: AuthService.verify_pin   *)
(* inside the transaction run_pin_protected opens.                         *)
(*                                                                         *)
(* A call reads the clock, waits for its user's row FOR UPDATE, and judges *)
(* the PIN on what the row says.  A wrong PIN is counted in a transaction  *)
(* that commits although it answers with an error; a right one clears the  *)
(* counter in the transaction of the command it lets through, so the       *)
(* counter is cleared only when that command commits.  The row stays       *)
(* locked to the end of the transaction, whichever way it ends.            *)
(***************************************************************************)
EXTENDS Integers

CONSTANTS
  Clients,          \* API calls in flight
  Nobody,           \* the owner of a free row
  Users,
  Caller,           \* client -> the user its calls act for
  MaxFailures,      \* pin_max_attempts
  Lockout,          \* pin_lockout_seconds, in ticks of the clock
  LastTick          \* bound: the clock shows 0 .. LastTick

ASSUME GateAssumption ==
  /\ Nobody \notin Clients
  /\ Caller \in [Clients -> Users]
  /\ MaxFailures \in Nat \ {0} /\ Lockout \in Nat \ {0} /\ LastTick \in Nat

VARIABLES
  clock,
  failed,           \* users.pin_failed_attempts, committed
  lockedUntil,      \* users.pin_locked_until, committed; 0 for NULL
  userLock,         \* the transaction holding each user row FOR UPDATE
  pc,               \* where each call stands
  rightPin,         \* whether each call carries the user's PIN
  began,            \* the clock as verify_pin read it
  seen,             \* pin_failed_attempts as verify_pin read it
  wrongs            \* history: wrong PINs answered since the last command that
                    \* committed with the right one

gateVars == <<failed, lockedUntil, userLock, wrongs>>
callVars == <<pc, rightPin, began, seen>>

Ticks == 0 .. LastTick
Stages == {"idle", "pin", "wrong", "lock", "decide"}

GateInit ==
  /\ clock = 0
  /\ failed = [u \in Users |-> 0]
  /\ lockedUntil = [u \in Users |-> 0]
  /\ userLock = [u \in Users |-> Nobody]
  /\ pc = [c \in Clients |-> "idle"]
  /\ rightPin = [c \in Clients |-> FALSE]
  /\ began = [c \in Clients |-> 0]
  /\ seen = [c \in Clients |-> 0]
  /\ wrongs = [u \in Users |-> 0]

\* The call answers: its transaction is over and releases the user row.
CallEnds(c) ==
  /\ userLock' = [u \in Users |-> IF userLock[u] = c THEN Nobody ELSE userLock[u]]
  /\ pc' = [pc EXCEPT ![c] = "idle"]
  /\ rightPin' = [rightPin EXCEPT ![c] = FALSE]
  /\ began' = [began EXCEPT ![c] = 0]
  /\ seen' = [seen EXCEPT ![c] = 0]

\* The handler starts: verify_pin reads the clock before it waits for the row.
CallBegins(c, right) ==
  /\ pc[c] = "idle"
  /\ pc' = [pc EXCEPT ![c] = "pin"]
  /\ rightPin' = [rightPin EXCEPT ![c] = right]
  /\ began' = [began EXCEPT ![c] = clock]
  /\ seen' = [seen EXCEPT ![c] = 0]
  /\ UNCHANGED gateVars

\* What verify_pin's comparison with the clock it read says.
LockedOut(c) == lockedUntil[Caller[c]] > began[c]

\* Mutant: the row is read without FOR UPDATE.
LockUserPlainRead(c) ==
  /\ pc[c] = "pin"
  /\ ~LockedOut(c)
  /\ userLock' = userLock
  /\ seen' = [seen EXCEPT ![c] = failed[Caller[c]]]
  /\ pc' = [pc EXCEPT ![c] = IF rightPin[c] THEN "lock" ELSE "wrong"]
  /\ UNCHANGED <<failed, lockedUntil, wrongs, rightPin, began>>

\* The user row is free, the call is not locked out, and the PIN is compared.
LockUser(c) ==
  /\ pc[c] = "pin"
  /\ userLock[Caller[c]] = Nobody
  /\ ~LockedOut(c)
  /\ userLock' = [userLock EXCEPT ![Caller[c]] = c]
  /\ seen' = [seen EXCEPT ![c] = failed[Caller[c]]]
  /\ pc' = [pc EXCEPT ![c] = IF rightPin[c] THEN "lock" ELSE "wrong"]
  /\ UNCHANGED <<failed, lockedUntil, wrongs, rightPin, began>>

\* The user row is free and says the user is locked out: PinLockedError, which
\* neither compares the PIN nor counts it.
PinLocked(c) ==
  /\ pc[c] = "pin"
  /\ userLock[Caller[c]] = Nobody
  /\ LockedOut(c)
  /\ CallEnds(c)
  /\ UNCHANGED <<failed, lockedUntil, wrongs>>

\* record_pin_failure and reset_pin_failures.
RecordPinFailure(u, n, until) ==
  /\ failed' = [failed EXCEPT ![u] = n]
  /\ lockedUntil' = [lockedUntil EXCEPT ![u] = until]

ResetPinFailures(u) ==
  /\ failed' = [failed EXCEPT ![u] = 0]
  /\ lockedUntil' = [lockedUntil EXCEPT ![u] = 0]

\* A wrong PIN: the count is written and committed, and the call answers with
\* the error run_pin_protected carried out of the transaction.
CountWrongPin(c) ==
  /\ pc[c] = "wrong"
  /\ RecordPinFailure(Caller[c], seen[c] + 1,
       IF seen[c] + 1 >= MaxFailures THEN began[c] + Lockout ELSE 0)
  /\ wrongs' = [wrongs EXCEPT ![Caller[c]] = @ + 1]
  /\ CallEnds(c)

\* The command commits, and with it what verify_pin wrote.
PinCommits(c) ==
  /\ ResetPinFailures(Caller[c])
  /\ wrongs' = [wrongs EXCEPT ![Caller[c]] = 0]
  /\ CallEnds(c)

\* Mutant: the reset is kept although the command is rolled back.
PinKeptOnRollback(c) ==
  /\ ResetPinFailures(Caller[c])
  /\ CallEnds(c)
  /\ UNCHANGED wrongs

\* The command raises, or the transaction dies: everything is rolled back.
PinRollsBack(c) ==
  /\ CallEnds(c)
  /\ UNCHANGED <<failed, lockedUntil, wrongs>>

-----------------------------------------------------------------------------
GateTypeOK ==
  /\ clock \in Ticks
  /\ failed \in [Users -> Nat] /\ wrongs \in [Users -> Nat]
  /\ lockedUntil \in [Users -> Nat]
  /\ userLock \in [Users -> Clients \cup {Nobody}]
  /\ pc \in [Clients -> Stages]
  /\ rightPin \in [Clients -> BOOLEAN]
  /\ began \in [Clients -> Ticks]
  /\ seen \in [Clients -> Nat]

\* However calls overlap and whichever of them fail, the counter in the user's
\* row is the number of wrong PINs answered since the last money command of
\* the user that committed: no failure is lost to a concurrent one
\* (verify_pin's row lock), and a right PIN whose command is refused clears
\* nothing (its reset is rolled back with the command).
PinFailuresCounted ==
  \A u \in Users :
    /\ failed[u] = wrongs[u]
    /\ (lockedUntil[u] # 0) <=> (failed[u] >= MaxFailures)

\* The lockout paces guessing: between two successful commands a user's PIN is
\* compared and found wrong at most pin_max_attempts times, and once more for
\* every lockout period that has passed since, however many calls run at once
\* and however long they waited for the row.
WrongPinsPaced ==
  \A u \in Users : wrongs[u] <= MaxFailures + (clock \div Lockout)
=============================================================================
