-------------------------- MODULE MoneyRequestProofs --------------------------
(***************************************************************************)
(* Money requests are paid once and the PIN lockout holds, for any users,  *)
(* requests, keys, calls and any length of the lockout.                    *)
(***************************************************************************)
EXTENDS MoneyRequest, SumsProofs

\* The calls that have their user's row locked.
Past == {"wrong", "lock", "decide"}

\* A user row is locked by a call of that user that is past the PIN's row lock,
\* and such a call sees the row as it is.
UserRowsHeld ==
  \A c \in Clients :
    /\ \A u \in Users : userLock[u] = c => u = Caller[c] /\ pc[c] \in Past
    /\ pc[c] \in Past => userLock[Caller[c]] = c
    /\ pc[c] = "wrong" =>
         seen[c] = failed[Caller[c]] /\ lockedUntil[Caller[c]] <= began[c]

\* A request row is locked by a call about that request which is about to pay,
\* and as long as it is locked the request is PENDING.
RequestRowsHeld ==
  /\ \A c \in Clients :
       /\ pc[c] # "idle" =>
            target[c] \in Requests /\ key[c] \in Keys /\ Payer[target[c]] = Caller[c]
       /\ pc[c] = "decide" =>
            rowLock[target[c]] = c /\ request[target[c]] = "PENDING"
  /\ \A r \in Requests : rowLock[r] # Nobody =>
       pc[rowLock[r]] = "decide" /\ target[rowLock[r]] = r

\* No call and no lockout is ahead of the clock, and every failure after the first
\* lockout took a lockout of its own.
LockoutsPassed ==
  /\ \A c \in Clients : began[c] <= clock
  /\ \A u \in Users :
       /\ lockedUntil[u] <= clock + Lockout
       /\ failed[u] >= MaxFailures =>
            lockedUntil[u] >= (failed[u] - MaxFailures + 1) * Lockout

RequestInv ==
  TypeOK /\ UserRowsHeld /\ RequestRowsHeld /\ PinFailuresCounted /\ LockoutsPassed

-----------------------------------------------------------------------------
\* The ends of a call that leave nothing behind.
RolledBack(c) ==
  /\ pc[c] # "idle"
  /\ CallEnds(c) /\ AcceptEnds(c)
  /\ UNCHANGED <<clock, committed, failed, lockedUntil, wrongs>>

\* The end of a call with a wrong PIN.
WrongPin(c) == CountWrongPin(c) /\ AcceptEnds(c) /\ UNCHANGED <<clock, committed>>

\* The steps of the system, with those that leave nothing behind in one.
LEMMA Steps ==
  ASSUME [Next]_vars
  PROVE  \/ \E r \in Requests : Create(r)
         \/ \E r \in Requests : \E s \in {"REJECTED", "CANCELLED"} : Terminate(r, s)
         \/ \E c \in Clients, r \in Requests, k \in Keys, right \in BOOLEAN :
              PressAccept(c, r, k, right)
         \/ \E c \in Clients :
              CheckPin(c) \/ WrongPin(c) \/ LockRequest(c) \/ Accept(c) \/ RolledBack(c)
         \/ \E u \in Users : CloseAccount(u)
         \/ Tick
         \/ UNCHANGED vars
<1>1. ASSUME NEW c \in Clients, CallStep(c)
      PROVE  CheckPin(c) \/ WrongPin(c) \/ LockRequest(c) \/ Accept(c) \/ RolledBack(c)
  BY Zenon, <1>1 DEF CallStep, PinRefused, WrongPin, PinLocked, RequestRefused,
     TransferRefused, PinRollsBack, RolledBack
<1>2. ASSUME NEW c \in Clients, Abort(c) PROVE RolledBack(c)
  BY Zenon, <1>2 DEF Abort, PinRollsBack, RolledBack
<1>3. ASSUME NEW u \in Bannable, CloseAccount(u) PROVE \E v \in Users : CloseAccount(v)
  BY Zenon, <1>3, RequestAssumption
<1>4. ASSUME NEW r \in Requests, Reject(r) \/ Cancel(r)
      PROVE  \E s \in {"REJECTED", "CANCELLED"} : Terminate(r, s)
  BY Zenon, <1>4 DEF Reject, Cancel
<1>. QED  BY <1>1, <1>2, <1>3, <1>4, Zenon DEF Next

\* The end of a call leaves well-formed call state behind.
LEMMA CallEndsType ==
  ASSUME GateTypeOK, NEW c \in Clients, CallEnds(c)
  PROVE  /\ userLock' \in [Users -> Clients \cup {Nobody}]
         /\ pc' \in [Clients -> Stages]
         /\ rightPin' \in [Clients -> BOOLEAN]
         /\ began' \in [Clients -> Ticks]
         /\ seen' \in [Clients -> Nat]
BY GateAssumption DEF CallEnds, GateTypeOK, Stages, Ticks

\* So does the end of the accepting part of it.
LEMMA AcceptEndsType ==
  ASSUME TypeOK, NEW c \in Clients, AcceptEnds(c)
  PROVE  /\ rowLock' \in [Requests -> Clients \cup {Nobody}]
         /\ target' \in [Clients -> Requests \cup {None}]
         /\ key' \in [Clients -> Keys \cup {None}]
         /\ now' \in [Clients -> Ticks]
BY GateAssumption DEF AcceptEnds, TypeOK, Ticks

\* The end of a call releases its user's row; what it wrote there nobody else has
\* read.
LEMMA CallEndsRows ==
  ASSUME GateTypeOK, UserRowsHeld, NEW c \in Clients, CallEnds(c),
         \A u \in Users : userLock[u] # c =>
           failed'[u] = failed[u] /\ lockedUntil'[u] = lockedUntil[u]
  PROVE  UserRowsHeld'
<1> SUFFICES ASSUME NEW d \in Clients
             PROVE  /\ \A u \in Users : userLock'[u] = d => u = Caller[d] /\ pc'[d] \in Past
                    /\ pc'[d] \in Past => userLock'[Caller[d]] = d
                    /\ pc'[d] = "wrong" =>
                         /\ seen'[d] = failed'[Caller[d]]
                         /\ lockedUntil'[Caller[d]] <= began'[d]
  BY Zenon DEF UserRowsHeld
<1>1. Caller[d] \in Users /\ d # Nobody
  BY Zenon, GateAssumption
<1>2. CASE d = c
  BY Zenon, <1>1, <1>2 DEF CallEnds, GateTypeOK, Past
<1>3. CASE d # c
  <2>1. /\ pc'[d] = pc[d] /\ seen'[d] = seen[d] /\ began'[d] = began[d]
        /\ \A u \in Users : userLock'[u] = d <=> userLock[u] = d
    BY Zenon, <1>1, <1>3 DEF CallEnds, GateTypeOK
  <2>2. pc[d] = "wrong" => userLock[Caller[d]] # c
    BY Zenon, <1>3 DEF UserRowsHeld, Past
  <2>. QED  BY Zenon, <1>1, <2>1, <2>2 DEF UserRowsHeld
<1>. QED  BY Zenon, <1>2, <1>3

\* Every step leaves well-formed state behind; a payment no negative balance.
LEMMA TypeKept ==
  ASSUME TypeOK, RequestRowsHeld, [Next]_vars
  PROVE  TypeOK'
<1> USE DEF gateVars, callVars, committed
<1>1. ASSUME NEW r \in Requests, Create(r) PROVE TypeOK'
  BY <1>1, GateAssumption, RequestAssumption
     DEF Create, InsertRequest, TypeOK, GateTypeOK, Stages, Ticks, Statuses
<1>2. ASSUME NEW r \in Requests, NEW s \in {"REJECTED", "CANCELLED"},
             Terminate(r, s) PROVE TypeOK'
  BY Zenon, <1>2, GateAssumption, RequestAssumption
     DEF Terminate, MarkTerminal, TypeOK, GateTypeOK, Stages, Ticks, Statuses
<1>3. ASSUME NEW c \in Clients, NEW r \in Requests, NEW k \in Keys,
             NEW right \in BOOLEAN, PressAccept(c, r, k, right) PROVE TypeOK'
  BY Zenon, <1>3, GateAssumption, RequestAssumption
     DEF PressAccept, CallBegins, TypeOK, GateTypeOK, Stages, Ticks, Statuses
<1>4. ASSUME NEW c \in Clients, CheckPin(c) PROVE TypeOK'
  <2>1. Caller[c] \in Users
    BY Zenon, GateAssumption
  <2>2. userLock' \in [Users -> Clients \cup {Nobody}] /\ seen' \in [Clients -> Nat]
    BY Zenon, <1>4, <2>1 DEF CheckPin, LockUser, TypeOK, GateTypeOK
  <2>3. pc' \in [Clients -> Stages]
    BY Zenon, <1>4 DEF CheckPin, LockUser, TypeOK, GateTypeOK, Stages
  <2>4. now' \in [Clients -> Ticks]
    BY <1>4, GateAssumption DEF CheckPin, TypeOK, GateTypeOK, Ticks
  <2>. QED  BY Zenon, <1>4, <2>2, <2>3, <2>4 DEF CheckPin, LockUser, TypeOK, GateTypeOK
<1>5. ASSUME NEW c \in Clients, WrongPin(c) PROVE TypeOK'
  <2>1. Caller[c] \in Users
    BY GateAssumption
  <2>2. /\ failed' \in [Users -> Nat] /\ wrongs' \in [Users -> Nat]
        /\ lockedUntil' \in [Users -> Nat]
    BY <1>5, <2>1, GateAssumption
       DEF WrongPin, CountWrongPin, RecordPinFailure, TypeOK, GateTypeOK, Ticks
  <2>3. GateTypeOK'
    BY Zenon, <1>5, <2>2, CallEndsType DEF WrongPin, CountWrongPin, TypeOK, GateTypeOK
  <2>. QED  BY Zenon, <1>5, <2>3, AcceptEndsType DEF WrongPin, TypeOK
<1>6. ASSUME NEW c \in Clients, LockRequest(c) PROVE TypeOK'
  BY Zenon, <1>6, GateAssumption, RequestAssumption
     DEF LockRequest, TypeOK, GateTypeOK, Stages, Ticks, Statuses
<1>7. ASSUME NEW c \in Clients, Accept(c) PROVE TypeOK'
  <2> DEFINE r == target[c]
  <2>1. r \in Requests /\ key[c] \in Keys /\ Caller[c] \in Users
    BY Zenon, <1>7, GateAssumption DEF Accept, RequestRowsHeld
  <2>2. balance' \in [Users -> Nat]
    <3>1. /\ Payer[r] \in Users /\ Requester[r] \in Users /\ Payer[r] # Requester[r]
          /\ Amount[r] \in Nat
      BY Zenon, <2>1, RequestAssumption
    <3>2. balance[Payer[r]] >= Amount[r]
      BY Zenon, <1>7 DEF Accept, Payable
    <3>. QED  BY <1>7, <3>1, <3>2 DEF Accept, Pay, TypeOK
  <2>3. idem' \in [Users \X Keys -> Requests \cup {None}]
    BY Zenon, <1>7, <2>1 DEF Accept, TypeOK
  <2>4. request' \in [Requests -> Statuses] /\ transfers' \in [Requests -> Nat]
    BY <1>7, <2>1 DEF Accept, MarkAccepted, TypeOK, Statuses
  <2>5. GateTypeOK'
    BY Zenon, <1>7, <2>1, CallEndsType
       DEF Accept, PinCommits, ResetPinFailures, TypeOK, GateTypeOK
  <2>6. /\ rowLock' \in [Requests -> Clients \cup {Nobody}]
        /\ target' \in [Clients -> Requests \cup {None}]
        /\ key' \in [Clients -> Keys \cup {None}] /\ now' \in [Clients -> Ticks]
    BY Zenon, <1>7, AcceptEndsType DEF Accept
  <2>. QED  BY Zenon, <1>7, <2>2, <2>3, <2>4, <2>5, <2>6 DEF Accept, TypeOK
<1>8. ASSUME NEW c \in Clients, RolledBack(c) PROVE TypeOK'
  BY <1>8, GateAssumption, RequestAssumption
     DEF RolledBack, CallEnds, AcceptEnds, TypeOK, GateTypeOK, Stages, Ticks,
         Statuses
<1>9. ASSUME NEW u \in Users, CloseAccount(u) PROVE TypeOK'
  BY Zenon, <1>9, GateAssumption, RequestAssumption
     DEF CloseAccount, TypeOK, GateTypeOK, Stages, Ticks, Statuses
<1>10. CASE Tick
  BY <1>10, GateAssumption, RequestAssumption
     DEF Tick, TypeOK, GateTypeOK, Stages, Ticks, Statuses
<1>11. CASE UNCHANGED vars
  BY Zenon, <1>11 DEF vars, TypeOK, GateTypeOK, Stages, Ticks, Statuses
<1>. QED
  BY Steps, <1>1, <1>2, <1>3, <1>4, <1>5, <1>6, <1>7, <1>8, <1>9, <1>10, <1>11, Zenon

\* The user's row is read and written by one call at a time.
LEMMA UserRowsKept ==
  ASSUME TypeOK, UserRowsHeld, [Next]_vars
  PROVE  UserRowsHeld'
<1> USE DEF gateVars, callVars, committed
<1>1. ASSUME NEW r \in Requests, Create(r) PROVE UserRowsHeld'
  BY Zenon, <1>1, GateAssumption
     DEF Create, InsertRequest, TypeOK, GateTypeOK, Stages, UserRowsHeld, Past
<1>2. ASSUME NEW r \in Requests, NEW s \in {"REJECTED", "CANCELLED"},
             Terminate(r, s) PROVE UserRowsHeld'
  BY Zenon, <1>2, GateAssumption
     DEF Terminate, MarkTerminal, TypeOK, GateTypeOK, Stages, UserRowsHeld, Past
<1>3. ASSUME NEW c \in Clients, NEW r \in Requests, NEW k \in Keys,
             NEW right \in BOOLEAN, PressAccept(c, r, k, right) PROVE UserRowsHeld'
  BY <1>3, GateAssumption
     DEF PressAccept, CallBegins, TypeOK, GateTypeOK, Stages, UserRowsHeld, Past
<1>4. ASSUME NEW c \in Clients, CheckPin(c) PROVE UserRowsHeld'
  <2> SUFFICES ASSUME NEW d \in Clients
               PROVE  /\ \A u \in Users : userLock'[u] = d => u = Caller[d] /\ pc'[d] \in Past
                      /\ pc'[d] \in Past => userLock'[Caller[d]] = d
                      /\ pc'[d] = "wrong" =>
                           /\ seen'[d] = failed'[Caller[d]]
                           /\ lockedUntil'[Caller[d]] <= began'[d]
    BY Zenon DEF UserRowsHeld
  <2>1. Caller[d] \in Users /\ Caller[c] \in Users /\ d # Nobody
    BY Zenon, GateAssumption
  <2>2. CASE d = c
    BY <1>4, <2>1, <2>2
       DEF CheckPin, LockUser, LockedOut, TypeOK, GateTypeOK, Ticks, UserRowsHeld,
           Past
  <2>3. CASE d # c
    BY <1>4, <2>1, <2>3 DEF CheckPin, LockUser, TypeOK, GateTypeOK, UserRowsHeld, Past
  <2>. QED  BY Zenon, <2>2, <2>3
<1>5. ASSUME NEW c \in Clients, WrongPin(c) PROVE UserRowsHeld'
  <2>1. \A u \in Users : userLock[u] # c =>
          failed'[u] = failed[u] /\ lockedUntil'[u] = lockedUntil[u]
    BY Zenon, <1>5, GateAssumption
       DEF WrongPin, CountWrongPin, RecordPinFailure, TypeOK, GateTypeOK,
           UserRowsHeld, Past
  <2>2. CallEnds(c)
    BY Zenon, <1>5 DEF WrongPin, CountWrongPin
  <2>. QED  BY Zenon, <2>1, <2>2, CallEndsRows DEF TypeOK
<1>6. ASSUME NEW c \in Clients, LockRequest(c) PROVE UserRowsHeld'
  BY <1>6, GateAssumption
     DEF LockRequest, TypeOK, GateTypeOK, Stages, UserRowsHeld, Past
<1>7. ASSUME NEW c \in Clients, Accept(c) PROVE UserRowsHeld'
  <2>1. \A u \in Users : userLock[u] # c =>
          failed'[u] = failed[u] /\ lockedUntil'[u] = lockedUntil[u]
    BY Zenon, <1>7, GateAssumption
       DEF Accept, PinCommits, ResetPinFailures, TypeOK, GateTypeOK, UserRowsHeld,
           Past
  <2>2. CallEnds(c)
    BY Zenon, <1>7 DEF Accept, PinCommits
  <2>. QED  BY <2>1, <2>2, CallEndsRows DEF TypeOK
<1>8. ASSUME NEW c \in Clients, RolledBack(c) PROVE UserRowsHeld'
  <2>1. \A u \in Users : userLock[u] # c =>
          failed'[u] = failed[u] /\ lockedUntil'[u] = lockedUntil[u]
    BY Zenon, <1>8, GateAssumption DEF RolledBack, TypeOK, GateTypeOK, UserRowsHeld, Past
  <2>2. CallEnds(c)
    BY Zenon, <1>8 DEF RolledBack
  <2>. QED  BY <2>1, <2>2, CallEndsRows DEF TypeOK
<1>9. ASSUME NEW u \in Users, CloseAccount(u) PROVE UserRowsHeld'
  BY Zenon, <1>9, GateAssumption
     DEF CloseAccount, TypeOK, GateTypeOK, Stages, UserRowsHeld, Past
<1>10. CASE Tick
  BY Zenon, <1>10, GateAssumption DEF Tick, TypeOK, GateTypeOK, Stages, UserRowsHeld, Past
<1>11. CASE UNCHANGED vars
  BY Zenon, <1>11 DEF vars, TypeOK, GateTypeOK, Stages, UserRowsHeld, Past
<1>. QED
  BY Steps, <1>1, <1>2, <1>3, <1>4, <1>5, <1>6, <1>7, <1>8, <1>9, <1>10, <1>11, Zenon

\* Nobody changes a request while a call is about to pay it.
LEMMA RequestRowsKept ==
  ASSUME TypeOK, RequestRowsHeld, [Next]_vars
  PROVE  RequestRowsHeld'
<1> USE DEF gateVars, callVars, committed
<1>1. ASSUME NEW r \in Requests, Create(r) PROVE RequestRowsHeld'
  BY Zenon, <1>1, GateAssumption, RequestAssumption
     DEF Create, InsertRequest, TypeOK, GateTypeOK, Stages, RequestRowsHeld
<1>2. ASSUME NEW r \in Requests, NEW s \in {"REJECTED", "CANCELLED"},
             Terminate(r, s) PROVE RequestRowsHeld'
  BY <1>2, GateAssumption, RequestAssumption
     DEF Terminate, MarkTerminal, TypeOK, GateTypeOK, Stages, RequestRowsHeld
<1>3. ASSUME NEW c \in Clients, NEW r \in Requests, NEW k \in Keys,
             NEW right \in BOOLEAN, PressAccept(c, r, k, right) PROVE RequestRowsHeld'
  BY <1>3, GateAssumption, RequestAssumption
     DEF PressAccept, CallBegins, TypeOK, GateTypeOK, Stages, RequestRowsHeld
<1>4. ASSUME NEW c \in Clients, CheckPin(c) PROVE RequestRowsHeld'
  BY SMTT(20), <1>4, GateAssumption, RequestAssumption
     DEF CheckPin, LockUser, LockedOut, TypeOK, GateTypeOK, Stages, RequestRowsHeld
<1>5. ASSUME NEW c \in Clients, WrongPin(c) PROVE RequestRowsHeld'
  BY SMTT(20), <1>5, GateAssumption, RequestAssumption
     DEF WrongPin, CountWrongPin, RecordPinFailure, CallEnds, AcceptEnds, TypeOK,
         GateTypeOK, Stages, RequestRowsHeld
<1>6. ASSUME NEW c \in Clients, LockRequest(c) PROVE RequestRowsHeld'
  BY SMTT(20), <1>6, GateAssumption, RequestAssumption
     DEF LockRequest, TypeOK, GateTypeOK, Stages, RequestRowsHeld
<1>7. ASSUME NEW c \in Clients, Accept(c) PROVE RequestRowsHeld'
  BY <1>7, GateAssumption, RequestAssumption
     DEF Accept, MarkAccepted, PinCommits, ResetPinFailures, CallEnds, AcceptEnds,
         TypeOK, GateTypeOK, Stages, RequestRowsHeld
<1>8. ASSUME NEW c \in Clients, RolledBack(c) PROVE RequestRowsHeld'
  BY <1>8, GateAssumption, RequestAssumption
     DEF RolledBack, CallEnds, AcceptEnds, TypeOK, GateTypeOK, Stages,
         RequestRowsHeld
<1>9. ASSUME NEW u \in Users, CloseAccount(u) PROVE RequestRowsHeld'
  BY Zenon, <1>9, GateAssumption, RequestAssumption
     DEF CloseAccount, TypeOK, GateTypeOK, Stages, RequestRowsHeld
<1>10. CASE Tick
  BY Zenon, <1>10, GateAssumption, RequestAssumption
     DEF Tick, TypeOK, GateTypeOK, Stages, RequestRowsHeld
<1>11. CASE UNCHANGED vars
  BY Zenon, <1>11 DEF vars, TypeOK, GateTypeOK, Stages, RequestRowsHeld
<1>. QED
  BY Steps, <1>1, <1>2, <1>3, <1>4, <1>5, <1>6, <1>7, <1>8, <1>9, <1>10, <1>11, Zenon

\* The counter follows the wrong PINs answered.
LEMMA CountersKept ==
  ASSUME TypeOK, UserRowsHeld, PinFailuresCounted, [Next]_vars
  PROVE  PinFailuresCounted'
<1> USE DEF gateVars, callVars, committed
<1>1. ASSUME NEW r \in Requests, Create(r) PROVE PinFailuresCounted'
  BY Zenon, <1>1, GateAssumption
     DEF Create, InsertRequest, TypeOK, GateTypeOK, UserRowsHeld, Past,
         PinFailuresCounted
<1>2. ASSUME NEW r \in Requests, NEW s \in {"REJECTED", "CANCELLED"},
             Terminate(r, s) PROVE PinFailuresCounted'
  BY Zenon, <1>2, GateAssumption
     DEF Terminate, MarkTerminal, TypeOK, GateTypeOK, UserRowsHeld, Past,
         PinFailuresCounted
<1>3. ASSUME NEW c \in Clients, NEW r \in Requests, NEW k \in Keys,
             NEW right \in BOOLEAN, PressAccept(c, r, k, right) PROVE PinFailuresCounted'
  BY Zenon, <1>3, GateAssumption
     DEF PressAccept, CallBegins, TypeOK, GateTypeOK, UserRowsHeld, Past,
         PinFailuresCounted
<1>4. ASSUME NEW c \in Clients, CheckPin(c) PROVE PinFailuresCounted'
  BY Zenon, <1>4, GateAssumption
     DEF CheckPin, LockUser, LockedOut, TypeOK, GateTypeOK, UserRowsHeld, Past,
         PinFailuresCounted
<1>5. ASSUME NEW c \in Clients, WrongPin(c) PROVE PinFailuresCounted'
  <2> DEFINE n == failed[Caller[c]] + 1
  <2>1. Caller[c] \in Users /\ seen[c] = failed[Caller[c]]
    BY Zenon, <1>5, GateAssumption DEF WrongPin, CountWrongPin, UserRowsHeld
  <2>2. /\ failed' = [failed EXCEPT ![Caller[c]] = n]
        /\ wrongs' = [wrongs EXCEPT ![Caller[c]] = @ + 1]
        /\ lockedUntil' = [lockedUntil EXCEPT ![Caller[c]] =
                             IF n >= MaxFailures THEN began[c] + Lockout ELSE 0]
    BY Zenon, <1>5, <2>1 DEF WrongPin, CountWrongPin, RecordPinFailure
  <2>3. began[c] + Lockout # 0 /\ failed \in [Users -> Nat] /\ wrongs \in [Users -> Nat]
    BY GateAssumption DEF TypeOK, GateTypeOK, Ticks
  <2>. QED  BY Zenon, <2>1, <2>2, <2>3 DEF PinFailuresCounted, TypeOK, GateTypeOK
<1>6. ASSUME NEW c \in Clients, LockRequest(c) PROVE PinFailuresCounted'
  BY Zenon, <1>6, GateAssumption
     DEF LockRequest, TypeOK, GateTypeOK, UserRowsHeld, Past, PinFailuresCounted
<1>7. ASSUME NEW c \in Clients, Accept(c) PROVE PinFailuresCounted'
  BY SMTT(20), <1>7, GateAssumption
     DEF Accept, MarkAccepted, PinCommits, ResetPinFailures, CallEnds, AcceptEnds,
         TypeOK, GateTypeOK, UserRowsHeld, Past, PinFailuresCounted
<1>8. ASSUME NEW c \in Clients, RolledBack(c) PROVE PinFailuresCounted'
  BY Zenon, <1>8, GateAssumption
     DEF RolledBack, CallEnds, AcceptEnds, TypeOK, GateTypeOK, UserRowsHeld, Past,
         PinFailuresCounted
<1>9. ASSUME NEW u \in Users, CloseAccount(u) PROVE PinFailuresCounted'
  BY Zenon, <1>9, GateAssumption
     DEF CloseAccount, TypeOK, GateTypeOK, UserRowsHeld, Past, PinFailuresCounted
<1>10. CASE Tick
  BY Zenon, <1>10, GateAssumption
     DEF Tick, TypeOK, GateTypeOK, UserRowsHeld, Past, PinFailuresCounted
<1>11. CASE UNCHANGED vars
  BY Zenon, <1>11 DEF vars, TypeOK, GateTypeOK, UserRowsHeld, Past, PinFailuresCounted
<1>. QED
  BY Steps, <1>1, <1>2, <1>3, <1>4, <1>5, <1>6, <1>7, <1>8, <1>9, <1>10, <1>11, Zenon

\* A failure beyond the limit starts after the lockout before it.
LEMMA LockoutsKept ==
  ASSUME TypeOK, UserRowsHeld, PinFailuresCounted, LockoutsPassed, [Next]_vars
  PROVE  LockoutsPassed'
<1> USE DEF gateVars, callVars, committed
<1>1. ASSUME NEW r \in Requests, Create(r) PROVE LockoutsPassed'
  BY Zenon, <1>1, GateAssumption
     DEF Create, InsertRequest, TypeOK, GateTypeOK, Ticks, UserRowsHeld, Past,
         LockoutsPassed
<1>2. ASSUME NEW r \in Requests, NEW s \in {"REJECTED", "CANCELLED"},
             Terminate(r, s) PROVE LockoutsPassed'
  BY Zenon, <1>2, GateAssumption
     DEF Terminate, MarkTerminal, TypeOK, GateTypeOK, Ticks, UserRowsHeld, Past,
         LockoutsPassed
<1>3. ASSUME NEW c \in Clients, NEW r \in Requests, NEW k \in Keys,
             NEW right \in BOOLEAN, PressAccept(c, r, k, right) PROVE LockoutsPassed'
  BY SMTT(20), <1>3, GateAssumption
     DEF PressAccept, CallBegins, TypeOK, GateTypeOK, Ticks, UserRowsHeld, Past,
         LockoutsPassed
<1>4. ASSUME NEW c \in Clients, CheckPin(c) PROVE LockoutsPassed'
  BY Zenon, <1>4, GateAssumption
     DEF CheckPin, LockUser, LockedOut, TypeOK, GateTypeOK, Ticks, UserRowsHeld,
         Past, LockoutsPassed
<1>5. ASSUME NEW c \in Clients, WrongPin(c) PROVE LockoutsPassed'
  BY SMTT(20), <1>5, GateAssumption
     DEF WrongPin, CountWrongPin, RecordPinFailure, CallEnds, AcceptEnds, TypeOK,
         GateTypeOK, Ticks, UserRowsHeld, Past, LockoutsPassed
<1>6. ASSUME NEW c \in Clients, LockRequest(c) PROVE LockoutsPassed'
  BY Zenon, <1>6, GateAssumption
     DEF LockRequest, TypeOK, GateTypeOK, Ticks, UserRowsHeld, Past, LockoutsPassed
<1>7. ASSUME NEW c \in Clients, Accept(c) PROVE LockoutsPassed'
  BY <1>7, GateAssumption
     DEF Accept, MarkAccepted, PinCommits, ResetPinFailures, CallEnds, AcceptEnds,
         TypeOK, GateTypeOK, Ticks, UserRowsHeld, Past, LockoutsPassed
<1>8. ASSUME NEW c \in Clients, RolledBack(c) PROVE LockoutsPassed'
  BY <1>8, GateAssumption
     DEF RolledBack, CallEnds, AcceptEnds, TypeOK, GateTypeOK, Ticks, UserRowsHeld,
         Past, LockoutsPassed
<1>9. ASSUME NEW u \in Users, CloseAccount(u) PROVE LockoutsPassed'
  BY Zenon, <1>9, GateAssumption
     DEF CloseAccount, TypeOK, GateTypeOK, Ticks, UserRowsHeld, Past, LockoutsPassed
<1>10. CASE Tick
  BY <1>10, GateAssumption
     DEF Tick, TypeOK, GateTypeOK, Ticks, UserRowsHeld, Past, LockoutsPassed
<1>11. CASE UNCHANGED vars
  BY Zenon, <1>11 DEF vars, TypeOK, GateTypeOK, Ticks, UserRowsHeld, Past, LockoutsPassed
<1>. QED
  BY Steps, <1>1, <1>2, <1>3, <1>4, <1>5, <1>6, <1>7, <1>8, <1>9, <1>10, <1>11, Zenon

\* Sets of requests are finite, and what they are worth is a natural.
LEMMA WorthType ==
  ASSUME NEW S \in SUBSET Requests
  PROVE  IsFiniteSet(S) /\ NatSum(S, Amount) \in Nat
<1>1. IsFiniteSet(S)
  BY Zenon, RequestAssumption, FS_Subset
<1>. QED  BY Zenon, <1>1, NatSumPartType, RequestAssumption

\* What a set is worth with one more request.
LEMMA WorthAdd ==
  ASSUME NEW S \in SUBSET Requests, NEW r \in Requests, r \notin S
  PROVE  NatSum(S \cup {r}, Amount) = NatSum(S, Amount) + Amount[r]
<1>1. IsFiniteSet(S) /\ IsFiniteSet({r}) /\ S \cap {r} = {}
  BY Zenon, WorthType
<1>2. \A a \in S \cup {r} : Amount[a] \in Nat
  BY Zenon, RequestAssumption
<1>3. NatSum(S \cup {r}, Amount) = NatSum(S, Amount) + NatSum({r}, Amount)
  BY <1>1, <1>2, NatSumUnion
<1>4. NatSum({r}, Amount) = Amount[r]
  BY Zenon, <1>2, NatSumSingle
<1>. QED  BY Zenon, <1>3, <1>4

\* Steps that accept nothing move nothing.
LEMMA NothingAccepted ==
  ASSUME PaidOnceIffAccepted, UNCHANGED <<balance, transfers>>,
         \A r \in Requests : request'[r] = "ACCEPTED" <=> request[r] = "ACCEPTED"
  PROVE  PaidOnceIffAccepted'
<1>1. \A u \in Users : AcceptedFor(u)' = AcceptedFor(u) /\ AcceptedBy(u)' = AcceptedBy(u)
  BY Zenon DEF AcceptedFor, AcceptedBy
<1>2. \A r \in Requests : transfers'[r] = IF request'[r] = "ACCEPTED" THEN 1 ELSE 0
  BY Zenon DEF PaidOnceIffAccepted
<1>3. \A u \in Users :
        balance'[u] = Opening[u] + NatSum(AcceptedFor(u)', Amount)
                                 - NatSum(AcceptedBy(u)', Amount)
  BY Zenon, <1>1 DEF PaidOnceIffAccepted
<1>. QED  BY Zenon, <1>2, <1>3 DEF PaidOnceIffAccepted

\* Accepting pays the request it accepts, once.
LEMMA AcceptPays ==
  ASSUME TypeOK, RequestRowsHeld, PaidOnceIffAccepted, NEW c \in Clients, Accept(c)
  PROVE  PaidOnceIffAccepted'
<1> DEFINE r == target[c]
<1>1. /\ r \in Requests /\ request[r] = "PENDING"
      /\ request' = [request EXCEPT ![r] = "ACCEPTED"]
      /\ transfers' = [transfers EXCEPT ![r] = @ + 1]
  BY Zenon DEF Accept, MarkAccepted, RequestRowsHeld
<1>2. /\ Payer[r] \in Users /\ Requester[r] \in Users /\ Payer[r] # Requester[r]
      /\ Amount[r] \in Nat
  BY Zenon, <1>1, RequestAssumption
<1>3. balance' = [balance EXCEPT ![Payer[r]] = @ - Amount[r], ![Requester[r]] = @ + Amount[r]]
  BY Zenon DEF Accept, Pay
<1> HIDE DEF r
<1>4. \A q \in Requests : transfers'[q] = IF request'[q] = "ACCEPTED" THEN 1 ELSE 0
  BY <1>1 DEF TypeOK, PaidOnceIffAccepted
<1>5. ASSUME NEW u \in Users
      PROVE  balance'[u] = Opening[u] + NatSum(AcceptedFor(u)', Amount)
                                      - NatSum(AcceptedBy(u)', Amount)
  <2> DEFINE For == AcceptedFor(u)
             By == AcceptedBy(u)
  <2>1. /\ For \in SUBSET Requests /\ By \in SUBSET Requests
        /\ r \notin For /\ r \notin By
    BY Zenon, <1>1 DEF AcceptedFor, AcceptedBy
  <2>2. /\ AcceptedFor(u)' = IF u = Requester[r] THEN For \cup {r} ELSE For
        /\ AcceptedBy(u)' = IF u = Payer[r] THEN By \cup {r} ELSE By
    BY Zenon, <1>1 DEF AcceptedFor, AcceptedBy, TypeOK
  <2>3. /\ NatSum(For, Amount) \in Nat /\ NatSum(By, Amount) \in Nat
        /\ NatSum(For \cup {r}, Amount) = NatSum(For, Amount) + Amount[r]
        /\ NatSum(By \cup {r}, Amount) = NatSum(By, Amount) + Amount[r]
    BY Zenon, <1>1, <2>1, WorthType, WorthAdd
  <2>4. balance[u] = Opening[u] + NatSum(For, Amount) - NatSum(By, Amount)
    BY Zenon DEF PaidOnceIffAccepted
  <2>5. Opening[u] \in Nat /\ balance[u] \in Nat
    BY Zenon, RequestAssumption DEF TypeOK
  <2>6. balance'[u] = IF u = Payer[r] THEN balance[u] - Amount[r]
                      ELSE IF u = Requester[r] THEN balance[u] + Amount[r]
                      ELSE balance[u]
    BY Zenon, <1>2, <1>3 DEF TypeOK
  <2> HIDE DEF For, By
  <2>7. CASE u = Payer[r]
    BY SMTT(20), <1>2, <2>2, <2>3, <2>4, <2>5, <2>6, <2>7
  <2>8. CASE u = Requester[r]
    BY SMTT(20), <1>2, <2>2, <2>3, <2>4, <2>5, <2>6, <2>8
  <2>9. CASE u # Payer[r] /\ u # Requester[r]
    BY Zenon, <2>2, <2>4, <2>6, <2>9
  <2>. QED  BY Zenon, <2>7, <2>8, <2>9
<1>. QED  BY Zenon, <1>4, <1>5 DEF PaidOnceIffAccepted

\* No step pays a request without accepting it, or accepts it without paying.
LEMMA PaymentsKept ==
  ASSUME TypeOK, RequestRowsHeld, PaidOnceIffAccepted, [Next]_vars
  PROVE  PaidOnceIffAccepted'
<1> USE DEF gateVars, callVars, committed
<1>1. ASSUME NEW r \in Requests, Create(r) PROVE PaidOnceIffAccepted'
  <2>1. \A q \in Requests : request'[q] = "ACCEPTED" <=> request[q] = "ACCEPTED"
    BY Zenon, <1>1 DEF Create, InsertRequest, TypeOK
  <2>2. UNCHANGED <<balance, transfers>>
    BY Zenon, <1>1 DEF Create
  <2>. QED  BY Zenon, <2>1, <2>2, NothingAccepted
<1>2. ASSUME NEW r \in Requests, NEW s \in {"REJECTED", "CANCELLED"},
             Terminate(r, s) PROVE PaidOnceIffAccepted'
  <2>1. \A q \in Requests : request'[q] = "ACCEPTED" <=> request[q] = "ACCEPTED"
    BY Zenon, <1>2 DEF Terminate, MarkTerminal, TypeOK
  <2>2. UNCHANGED <<balance, transfers>>
    BY Zenon, <1>2 DEF Terminate
  <2>. QED  BY Zenon, <2>1, <2>2, NothingAccepted
<1>3. ASSUME NEW c \in Clients, NEW r \in Requests, NEW k \in Keys,
             NEW right \in BOOLEAN, PressAccept(c, r, k, right) PROVE PaidOnceIffAccepted'
  <2>1. \A q \in Requests : request'[q] = "ACCEPTED" <=> request[q] = "ACCEPTED"
    BY Zenon, <1>3 DEF PressAccept, TypeOK
  <2>2. UNCHANGED <<balance, transfers>>
    BY Zenon, <1>3 DEF PressAccept
  <2>. QED  BY Zenon, <2>1, <2>2, NothingAccepted
<1>4. ASSUME NEW c \in Clients, CheckPin(c) PROVE PaidOnceIffAccepted'
  <2>1. \A q \in Requests : request'[q] = "ACCEPTED" <=> request[q] = "ACCEPTED"
    BY Zenon, <1>4 DEF CheckPin, TypeOK
  <2>2. UNCHANGED <<balance, transfers>>
    BY Zenon, <1>4 DEF CheckPin
  <2>. QED  BY Zenon, <2>1, <2>2, NothingAccepted
<1>5. ASSUME NEW c \in Clients, WrongPin(c) PROVE PaidOnceIffAccepted'
  <2>1. \A q \in Requests : request'[q] = "ACCEPTED" <=> request[q] = "ACCEPTED"
    BY Zenon, <1>5 DEF WrongPin, TypeOK
  <2>2. UNCHANGED <<balance, transfers>>
    BY Zenon, <1>5 DEF WrongPin
  <2>. QED  BY <2>1, <2>2, NothingAccepted
<1>6. ASSUME NEW c \in Clients, LockRequest(c) PROVE PaidOnceIffAccepted'
  <2>1. \A q \in Requests : request'[q] = "ACCEPTED" <=> request[q] = "ACCEPTED"
    BY Zenon, <1>6 DEF LockRequest, TypeOK
  <2>2. UNCHANGED <<balance, transfers>>
    BY Zenon, <1>6 DEF LockRequest
  <2>. QED  BY <2>1, <2>2, NothingAccepted
<1>7. ASSUME NEW c \in Clients, Accept(c) PROVE PaidOnceIffAccepted'
  BY Zenon, <1>7, AcceptPays
<1>8. ASSUME NEW c \in Clients, RolledBack(c) PROVE PaidOnceIffAccepted'
  <2>1. \A q \in Requests : request'[q] = "ACCEPTED" <=> request[q] = "ACCEPTED"
    BY Zenon, <1>8 DEF RolledBack, TypeOK
  <2>2. UNCHANGED <<balance, transfers>>
    BY Zenon, <1>8 DEF RolledBack
  <2>. QED  BY <2>1, <2>2, NothingAccepted
<1>9. ASSUME NEW u \in Users, CloseAccount(u) PROVE PaidOnceIffAccepted'
  <2>1. \A q \in Requests : request'[q] = "ACCEPTED" <=> request[q] = "ACCEPTED"
    BY Zenon, <1>9 DEF CloseAccount, TypeOK
  <2>2. UNCHANGED <<balance, transfers>>
    BY Zenon, <1>9 DEF CloseAccount
  <2>. QED  BY <2>1, <2>2, NothingAccepted
<1>10. CASE Tick
  <2>1. \A q \in Requests : request'[q] = "ACCEPTED" <=> request[q] = "ACCEPTED"
    BY Zenon, <1>10 DEF Tick, TypeOK
  <2>2. UNCHANGED <<balance, transfers>>
    BY Zenon, <1>10 DEF Tick
  <2>. QED  BY Zenon, <2>1, <2>2, NothingAccepted
<1>11. CASE UNCHANGED vars
  BY Zenon, <1>11, NothingAccepted DEF vars
<1>. QED
  BY Steps, <1>1, <1>2, <1>3, <1>4, <1>5, <1>6, <1>7, <1>8, <1>9, <1>10, <1>11, Zenon

-----------------------------------------------------------------------------
\* What accepting calls rely on is true at all times: a locked user row is as it
\* was read, and a locked request is PENDING.
THEOREM RequestInvariant == Spec => []RequestInv
<1>1. Init => RequestInv
  <2> SUFFICES ASSUME Init PROVE RequestInv
    BY Zenon
  <2>1. GateTypeOK
    BY GateAssumption DEF Init, GateInit, GateTypeOK, Ticks, Stages
  <2>2. TypeOK
    <3>1. now \in [Clients -> Ticks]
      BY GateAssumption DEF Init, Ticks
    <3>. QED  BY Zenon, <2>1, <3>1, RequestAssumption DEF Init, TypeOK, Statuses
  <2>3. UserRowsHeld
    BY Zenon, GateAssumption DEF Init, GateInit, UserRowsHeld, Past
  <2>4. RequestRowsHeld
    BY Zenon DEF Init, GateInit, RequestRowsHeld
  <2>5. PinFailuresCounted /\ LockoutsPassed
    BY GateAssumption DEF Init, GateInit, PinFailuresCounted, LockoutsPassed
  <2>. QED  BY Zenon, <2>2, <2>3, <2>4, <2>5 DEF RequestInv
<1>2. RequestInv /\ [Next]_vars => RequestInv'
  BY TypeKept, UserRowsKept, RequestRowsKept, CountersKept, LockoutsKept, Zenon
     DEF RequestInv
<1>. QED  BY <1>1, <1>2, PTL DEF Spec

\* Types, with balances that are never negative.
THEOREM RequestTypes == Spec => []TypeOK
<1>1. RequestInv => TypeOK
  BY Zenon DEF RequestInv
<1>. QED  BY <1>1, RequestInvariant, PTL

\* accept pays a request once or not at all, whatever other devices, a rejection, a
\* cancellation or a retry under a new key do meanwhile.
THEOREM PaidOnce == Spec => []PaidOnceIffAccepted
<1>1. Init => PaidOnceIffAccepted
  <2> SUFFICES ASSUME Init PROVE PaidOnceIffAccepted
    OBVIOUS
  <2>1. \A u \in Users : AcceptedFor(u) = {} /\ AcceptedBy(u) = {}
    BY Zenon DEF Init, AcceptedFor, AcceptedBy
  <2>2. NatSum({}, Amount) = 0
    BY Zenon, NatSumEmpty
  <2>3. \A r \in Requests : transfers[r] = IF request[r] = "ACCEPTED" THEN 1 ELSE 0
    BY Zenon DEF Init
  <2>4. ASSUME NEW u \in Users
        PROVE  balance[u] = Opening[u] + NatSum(AcceptedFor(u), Amount)
                                       - NatSum(AcceptedBy(u), Amount)
    <3>1. balance[u] = Opening[u] /\ Opening[u] \in Nat
      BY Zenon, RequestAssumption DEF Init
    <3>. QED  BY <2>1, <2>2, <3>1
  <2>. QED  BY Zenon, <2>3, <2>4 DEF PaidOnceIffAccepted
<1>2. RequestInv /\ PaidOnceIffAccepted /\ [Next]_vars => PaidOnceIffAccepted'
  BY Zenon, PaymentsKept DEF RequestInv
<1>. QED  BY <1>1, <1>2, RequestInvariant, PTL DEF Spec

\* verify_pin loses no failure to a concurrent call and forgives none for a command
\* that is rolled back.
THEOREM FailuresCounted == Spec => []PinFailuresCounted
<1>1. RequestInv => PinFailuresCounted
  BY Zenon DEF RequestInv
<1>. QED  BY <1>1, RequestInvariant, PTL

\* The quotient of naturals is a natural.
LEMMA QuotientType ==
  ASSUME NEW t \in Nat, NEW p \in Nat \ {0}
  PROVE  t \div p \in Nat
OBVIOUS

\* A natural number of periods that fits into a time is at most their quotient.
LEMMA FitsPeriods ==
  ASSUME NEW n \in Nat, NEW t \in Nat, NEW p \in Nat \ {0}, n * p <= t
  PROVE  n <= t \div p
<1> DEFINE q == t \div p
<1>1. q \in Nat /\ t < (q + 1) * p
  OBVIOUS
<1> HIDE DEF q
<1>2. ASSUME n > q PROVE FALSE
  <2>1. PICK k \in Nat : n = (q + 1) + k
    <3>1. n - (q + 1) \in Nat /\ n = (q + 1) + (n - (q + 1))
      BY <1>1, <1>2
    <3>. QED  BY Zenon, <3>1
  <2>2. n * p = (q + 1) * p + k * p /\ k * p \in Nat /\ (q + 1) * p \in Nat
    BY <1>1, <2>1
  <2>. QED  BY <1>1, <2>2
<1>3. n <= q
  BY <1>1, <1>2
<1>. QED  BY Zenon, <1>3 DEF q

\* The lockout paces guessing for any pin_max_attempts and any length of the lockout.
THEOREM GuessingPaced == Spec => []WrongPinsPaced
<1>1. RequestInv => WrongPinsPaced
  <2> SUFFICES ASSUME RequestInv, NEW u \in Users
               PROVE  wrongs[u] <= MaxFailures + (clock \div Lockout)
    BY Zenon DEF WrongPinsPaced
  <2>1. /\ clock \in Nat /\ failed[u] \in Nat /\ wrongs[u] = failed[u]
        /\ lockedUntil[u] \in Nat /\ lockedUntil[u] <= clock + Lockout
        /\ failed[u] >= MaxFailures =>
             lockedUntil[u] >= (failed[u] - MaxFailures + 1) * Lockout
    BY GateAssumption
       DEF RequestInv, TypeOK, GateTypeOK, Ticks, PinFailuresCounted, LockoutsPassed
  <2> DEFINE q == clock \div Lockout
  <2>2. q \in Nat /\ \A n \in Nat : n * Lockout <= clock => n <= q
    <3>1. clock \in Nat /\ Lockout \in Nat \ {0}
      BY Zenon, <2>1, GateAssumption
    <3>2. q \in Nat
      BY <3>1, QuotientType, Zenon
    <3>. QED  BY <3>1, <3>2, FitsPeriods, Zenon
  <2>3. MaxFailures \in Nat /\ Lockout \in Nat
    BY Zenon, GateAssumption
  <2> HIDE DEF q
  <2>4. CASE failed[u] < MaxFailures
    <3>1. wrongs[u] <= MaxFailures + q
      BY <2>1, <2>2, <2>3, <2>4
    <3>. QED  BY Zenon, <3>1 DEF q
  <2>5. CASE failed[u] >= MaxFailures
    <3> DEFINE n == failed[u] - MaxFailures
    <3>1. n \in Nat /\ failed[u] = n + MaxFailures
      BY <2>1, <2>3, <2>5
    <3>2. (n + 1) * Lockout <= clock + Lockout
      BY <2>1, <2>3, <2>5
    <3> HIDE DEF n
    <3>3. n * Lockout <= clock
      <4>1. (n + 1) * Lockout = n * Lockout + Lockout /\ n * Lockout \in Nat
        BY <2>3, <3>1
      <4>. QED  BY <2>1, <2>3, <3>2, <4>1
    <3>4. n <= q
      BY Zenon, <2>2, <3>1, <3>3
    <3>5. wrongs[u] <= MaxFailures + q
      BY <2>1, <2>2, <2>3, <3>1, <3>4
    <3>. QED  BY <3>5 DEF q
  <2>. QED  BY <2>1, <2>3, <2>4, <2>5
<1>. QED  BY <1>1, RequestInvariant, PTL
=============================================================================
