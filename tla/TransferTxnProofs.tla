-------------------------- MODULE TransferTxnProofs --------------------------
(***************************************************************************)
(* Proofs about TransferTxn, for any number of clients, accounts, keys and *)
(* days and any commands: types, the isolation of the transfers that run   *)
(* at once, and the safety of the use case that follows from it.           *)
(***************************************************************************)
EXTENDS TransferTxn, SumsProofs, WellFoundedInduction

\* What the assumptions say of one client's command.
LEMMA CommandType ==
  ASSUME NEW c \in Clients
  PROVE  /\ Command[c].sender \in Accounts /\ Command[c].receiver \in Accounts
         /\ Command[c].amount \in Nat \ {0}
         /\ IdemKey(c) \in IdemKeys
         /\ Fingerprint(c) \in Payloads
         /\ Wanted(c) \subseteq Accounts
         /\ c # Nobody
BY Zenon, CommandAssumption, ClientsAssumption DEF Commands, IdemKey, IdemKeys, Fingerprint,
   Payloads, Wanted

\* The row lock_for_update asks for next is the smallest of the missing ones.
LEMMA NextRowIsSmallest ==
  ASSUME NEW c \in Clients, Wanted(c) \ Held(c) # {}
  PROVE  /\ NextRow(c) \in Wanted(c) \ Held(c)
         /\ \A b \in Wanted(c) \ Held(c) : NextRow(c) <= b
<1> DEFINE M == Wanted(c) \ Held(c)
<1>1. \E a \in M : \A b \in M : a <= b
  <2>1. \A a \in M : a \in Nat
    BY CommandType, AccountsAssumption, Zenon
  <2>2. M \subseteq {Command[c].sender, Command[c].receiver}
    BY Zenon DEF Wanted
  <2>. HIDE DEF M
  <2>. QED  BY <2>1, <2>2, M # {} DEF M
<1>2. NextRow(c) = CHOOSE a \in M : \A b \in M : a <= b
  BY Zenon DEF NextRow
<1>. HIDE DEF M
<1>3. NextRow(c) \in M /\ \A b \in M : NextRow(c) <= b
  BY Zenon, <1>1, <1>2
<1>. QED  BY Zenon, <1>3 DEF M

\* The variables keep their types.
LEMMA TypeInductive == TypeOK /\ [Next]_vars => TypeOK'
<1> SUFFICES ASSUME TypeOK, [Next]_vars PROVE TypeOK'
  BY Zenon
<1> USE DEF TypeOK
<1>1. ASSUME NEW c \in Clients, Submit(c) PROVE TypeOK'
  BY Zenon, <1>1 DEF Submit, committed, locks, NoReply, Results
<1>2. ASSUME NEW c \in Clients, NEW result \in Results, NEW id \in Nat, Ends(c, result, id)
      PROVE  /\ pc' \in [Clients -> {"idle", "reserve", "lock", "write"}]
             /\ reply' \in [Clients -> [result : Results, transfer : Nat]]
             /\ seen' \in [Clients -> [Accounts -> [balance : Int, status : Statuses]]]
             /\ started' \in [Clients -> Days]
             /\ keyLock' \in [IdemKeys -> Clients \cup {Nobody}]
             /\ rowLock' \in [Accounts -> Clients \cup {Nobody}]
  <2>1. Unread \in [Accounts -> [balance : Int, status : Statuses]]
    BY DEF Unread, Statuses
  <2>2. 0 \in Days
    BY BoundsAssumption DEF Days
  <2>. QED  BY Zenon, <1>2, <2>1, <2>2 DEF Ends
<1>3. ASSUME NEW c \in Clients, NEW result \in Results, Rollback(c, result) PROVE TypeOK'
  BY Zenon, <1>2, <1>3 DEF Rollback, committed
<1>4. ASSUME NEW c \in Clients, ReserveProceed(c) PROVE TypeOK'
  BY Zenon, <1>4, CommandType DEF ReserveProceed, committed
<1>5. ASSUME NEW c \in Clients, ReserveReplay(c) PROVE TypeOK'
  <2>1. idem[IdemKey(c)].transfer \in Nat /\ "replayed" \in Results
    BY Zenon, CommandType DEF Results
  <2>. QED  BY Zenon, <1>2, <1>5, <2>1 DEF ReserveReplay, committed
<1>6. ASSUME NEW c \in Clients, ReserveMismatch(c) PROVE TypeOK'
  BY Zenon, <1>3, <1>6 DEF ReserveMismatch, Results
<1>7. ASSUME NEW c \in Clients, LockRow(c) PROVE TypeOK'
  <2>1. NextRow(c) \in Accounts
    BY Zenon, <1>7, NextRowIsSmallest, CommandType DEF LockRow
  <2>. DEFINE a == NextRow(c)
  <2>2. a \in Accounts /\ balance[a] \in Int /\ status[a] \in Statuses
    BY Zenon, <2>1
  <2>3. /\ rowLock' = [rowLock EXCEPT ![a] = c]
        /\ seen' = [seen EXCEPT ![c][a] = [balance |-> balance[a], status |-> status[a]]]
        /\ UNCHANGED <<committed, keyLock, pc, started, reply, today>>
    BY Zenon, <1>7 DEF LockRow
  <2>. HIDE DEF a
  <2>4. rowLock' \in [Accounts -> Clients \cup {Nobody}]
    BY Zenon, <2>2, <2>3
  <2>5. seen' \in [Clients -> [Accounts -> [balance : Int, status : Statuses]]]
    BY Zenon, <2>2, <2>3
  <2>. QED  BY Zenon, <2>3, <2>4, <2>5 DEF committed
<1>8. ASSUME NEW c \in Clients, Accept(c) PROVE TypeOK'
  BY Zenon, <1>8 DEF Accept, committed, locks
<1>9. ASSUME NEW c \in Clients, Reject(c) PROVE TypeOK'
  BY Zenon, <1>3, <1>9 DEF Reject, Results
<1>10. ASSUME NEW c \in Clients, Commit(c) PROVE TypeOK'
  <2>1. "created" \in Results /\ lastId + 1 \in Nat \ {0}
    BY DEF Results
  <2>2. Ends(c, "created", lastId + 1)
    BY Zenon, <1>10 DEF Commit
  <2>3. Transfer(c, lastId + 1) \in [id : Nat \ {0}, key : IdemKeys, sender : Accounts,
                                     receiver : Accounts, amount : Nat \ {0}, day : Days]
    BY Zenon, <2>1, CommandType DEF Transfer
  <2>4. balance' \in [Accounts -> Int] /\ ledger' \in [Accounts -> Int]
    BY <1>10, CommandType DEF Commit, PersistBalance, Post
  <2>5. idem' \in [IdemKeys -> [fingerprint : Payloads, transfer : Nat]]
    BY Zenon, <1>10, <2>1, CommandType DEF Commit
  <2>. QED  BY Zenon, <1>2, <1>10, <2>1, <2>2, <2>3, <2>4, <2>5 DEF Commit
<1>11. ASSUME NEW c \in Clients, Fail(c) PROVE TypeOK'
  BY Zenon, <1>3, <1>11 DEF Fail, Results
<1>12. ASSUME NEW a \in Accounts, CloseAccount(a) PROVE TypeOK'
  BY Zenon, <1>12 DEF CloseAccount, locks, local, Statuses
<1>13. CASE Midnight
  BY <1>13, BoundsAssumption DEF Midnight, committed, locks, local, Days
<1>14. CASE UNCHANGED vars
  BY Zenon, <1>14 DEF vars
<1>. HIDE DEF TypeOK
<1>. QED
  BY Zenon, <1>1, <1>4, <1>5, <1>6, <1>7, <1>8, <1>9, <1>10, <1>11, <1>12, <1>13, <1>14
  DEF Next, Step

\* The initial state has the types.
LEMMA TypeInitially == Init => TypeOK
BY OpeningAssumption, BoundsAssumption, AccountsAssumption
DEF Init, TypeOK, Statuses, Unread, NoReply, Results, NoRow, Payloads, Days, IdemKeys

\* Type correctness of the transfer use case.
THEOREM TypeCorrect == Spec => []TypeOK
BY TypeInitially, TypeInductive, PTL DEF Spec

-----------------------------------------------------------------------------
(* Isolation is inductive.                                                 *)

\* The end of a transaction that changes no committed row keeps Isolation.
LEMMA EndKeepsIsolation ==
  ASSUME TypeOK, Isolation, NEW c \in Clients, NEW result, NEW id,
         Ends(c, result, id), UNCHANGED <<committed, today>>
  PROVE  Isolation'
<1>a. /\ pc \in [Clients -> {"idle", "reserve", "lock", "write"}]
      /\ keyLock \in [IdemKeys -> Clients \cup {Nobody}]
      /\ rowLock \in [Accounts -> Clients \cup {Nobody}]
      /\ seen \in [Clients -> [Accounts -> [balance : Int, status : Statuses]]]
      /\ started \in [Clients -> Days]
  BY Zenon DEF TypeOK
<1>c. LocksOwned /\ HeldKeysFresh /\ ReadsFresh /\ ChecksStand /\ RowsMatch /\ RowsAscend
  BY Zenon DEF Isolation
<1>1. /\ pc' = [pc EXCEPT ![c] = "idle"]
      /\ seen' = [seen EXCEPT ![c] = Unread]
      /\ started' = [started EXCEPT ![c] = 0]
      /\ keyLock' = [k \in IdemKeys |-> IF keyLock[k] = c THEN Nobody ELSE keyLock[k]]
      /\ rowLock' = [a \in Accounts |-> IF rowLock[a] = c THEN Nobody ELSE rowLock[a]]
      /\ UNCHANGED <<balance, status, ledger, transfers, lastId, idem>>
  BY Zenon DEF Ends, committed
<1>2. \A d \in Clients : d # Nobody
  BY Zenon, ClientsAssumption
<1>3. \A d \in Clients \ {c} : Held(d)' = Held(d)
  BY Zenon, <1>a, <1>1, <1>2 DEF Held
<1>4. LocksOwned'
  BY <1>a, <1>c, <1>1, <1>2 DEF LocksOwned, Wanted, IdemKey
<1>5. HeldKeysFresh'
  BY Zenon, <1>a, <1>c, <1>1 DEF HeldKeysFresh
<1>6. ReadsFresh'
  BY Zenon, <1>a, <1>c, <1>1, <1>2 DEF ReadsFresh
<1>7. ChecksStand'
  <2> SUFFICES ASSUME NEW d \in Clients, pc'[d] = "write"
               PROVE  /\ Command[d].sender # Command[d].receiver
                      /\ Wanted(d) \subseteq Held(d)'
                      /\ Revalidated(d)'
    BY Zenon DEF ChecksStand, Wanted
  <2>1. d # c /\ pc[d] = "write" /\ seen'[d] = seen[d] /\ started'[d] = started[d]
    BY Zenon, <1>a, <1>1
  <2>2. Revalidated(d)' <=> Revalidated(d)
    BY Zenon, <1>1, <2>1 DEF Revalidated, Authorized, WithinLimits, CanAfford, SentSince, Wanted
  <2>. QED  BY Zenon, <1>c, <1>3, <2>1, <2>2 DEF ChecksStand
<1>8. RowsMatch'
  BY Zenon, <1>c, <1>1 DEF RowsMatch
<1>9. RowsAscend'
  <2>1. Held(c)' = {}
    BY Zenon, <1>a, <1>1, <1>2 DEF Held
  <2>. QED  BY Zenon, <1>c, <1>3, <2>1 DEF RowsAscend, Wanted
<1>. QED  BY Zenon, <1>4, <1>5, <1>6, <1>7, <1>8, <1>9 DEF Isolation

\* The commit of a transfer keeps Isolation.
LEMMA CommitKeepsIsolation ==
  ASSUME TypeOK, Isolation, NEW c \in Clients, Commit(c)
  PROVE  Isolation'
<1>a. /\ pc \in [Clients -> {"idle", "reserve", "lock", "write"}]
      /\ keyLock \in [IdemKeys -> Clients \cup {Nobody}]
      /\ rowLock \in [Accounts -> Clients \cup {Nobody}]
      /\ seen \in [Clients -> [Accounts -> [balance : Int, status : Statuses]]]
      /\ started \in [Clients -> Days]
  BY Zenon DEF TypeOK
<1>b. /\ balance \in [Accounts -> Int]
      /\ idem \in [IdemKeys -> [fingerprint : Payloads, transfer : Nat]]
      /\ lastId \in Nat
      /\ transfers \subseteq [id : Nat \ {0}, key : IdemKeys, sender : Accounts,
                              receiver : Accounts, amount : Nat \ {0}, day : Days]
  BY Zenon DEF TypeOK
<1>c. LocksOwned /\ HeldKeysFresh /\ ReadsFresh /\ ChecksStand /\ RowsMatch /\ RowsAscend
  BY Zenon DEF Isolation
<1> DEFINE new == Transfer(c, lastId + 1)
<1>1. /\ pc[c] = "write"
      /\ pc' = [pc EXCEPT ![c] = "idle"]
      /\ seen' = [seen EXCEPT ![c] = Unread]
      /\ started' = [started EXCEPT ![c] = 0]
  BY Zenon DEF Commit, Ends
<1>l. /\ keyLock' = [k \in IdemKeys |-> IF keyLock[k] = c THEN Nobody ELSE keyLock[k]]
      /\ rowLock' = [a \in Accounts |-> IF rowLock[a] = c THEN Nobody ELSE rowLock[a]]
  BY Zenon DEF Commit, Ends
<1>p. balance' = PersistBalance(c) /\ status' = status
  BY Zenon DEF Commit
<1>t. transfers' = transfers \cup {new} /\ lastId' = lastId + 1
  BY Zenon DEF Commit
<1>i. idem' = [idem EXCEPT ![IdemKey(c)] =
                 [fingerprint |-> Fingerprint(c), transfer |-> lastId + 1]]
  BY Zenon DEF Commit
<1> HIDE DEF new
<1>2. \A d \in Clients : d # Nobody
  BY Zenon, ClientsAssumption
<1>3. \A d \in Clients \ {c} : Held(d)' = Held(d)
  BY Zenon, <1>a, <1>l, <1>2 DEF Held
<1>4. Wanted(c) \subseteq Held(c) /\ Command[c].sender # Command[c].receiver
  BY Zenon, <1>c, <1>1 DEF ChecksStand
<1>5. \A a \in Accounts \ Wanted(c) : balance'[a] = balance[a]
  BY Zenon, <1>b, <1>p, CommandType DEF PersistBalance, Wanted
<1>6. keyLock[IdemKey(c)] = c /\ idem[IdemKey(c)] = NoRow
  BY Zenon, <1>c, <1>1, <1>2, CommandType DEF LocksOwned, HeldKeysFresh
<1>7. LocksOwned'
  BY <1>a, <1>c, <1>1, <1>l, <1>2 DEF LocksOwned, Wanted, IdemKey
<1>8. HeldKeysFresh'
  BY Zenon, <1>a, <1>b, <1>c, <1>l, <1>i, <1>6, CommandType DEF HeldKeysFresh
<1>9. ReadsFresh'
  <2> SUFFICES ASSUME NEW a \in Accounts, NEW d \in Clients, rowLock'[a] = d
               PROVE  seen'[d][a] = [balance |-> balance'[a], status |-> status'[a]]
    BY Zenon DEF ReadsFresh
  <2>1. d # c /\ rowLock[a] = d
    BY Zenon, <1>a, <1>l, <1>2
  <2>2. a \notin Wanted(c)
    BY Zenon, <1>4, <2>1 DEF Held
  <2>. QED  BY <1>a, <1>c, <1>1, <1>p, <1>5, <2>1, <2>2, Zenon DEF ReadsFresh
<1>10. ChecksStand'
  <2> SUFFICES ASSUME NEW d \in Clients, pc'[d] = "write"
               PROVE  /\ Command[d].sender # Command[d].receiver
                      /\ Wanted(d) \subseteq Held(d)'
                      /\ Revalidated(d)'
    BY Zenon DEF ChecksStand, Wanted
  <2>1. d # c /\ pc[d] = "write" /\ seen'[d] = seen[d] /\ started'[d] = started[d]
    BY Zenon, <1>a, <1>1
  <2>2. Wanted(d) \subseteq Held(d) /\ Revalidated(d) /\ Command[d].sender # Command[d].receiver
    BY Zenon, <1>c, <2>1 DEF ChecksStand
  <2>3. Command[c].sender # Command[d].sender
    BY Zenon, <1>4, <2>1, <2>2, CommandType DEF Wanted, Held
  <2>4. SentSince(Command[d].sender, started[d])' = SentSince(Command[d].sender, started[d])
    <3>1. {t \in transfers' : t.sender = Command[d].sender /\ t.day >= started[d]}
            = {t \in transfers : t.sender = Command[d].sender /\ t.day >= started[d]}
      BY <1>t, <2>3 DEF Transfer, new
    <3>. QED  BY <2>1, <3>1, Zenon DEF SentSince
  <2>5. Revalidated(d)'
    BY <1>p, <2>1, <2>2, <2>4, Zenon DEF Revalidated, Authorized, WithinLimits, CanAfford, Wanted
  <2>. QED  BY Zenon, <1>3, <2>1, <2>2, <2>5
<1>11. RowsMatch'
  <2>0. /\ \A t \in transfers : t.id \in Nat \ {0} /\ t.id <= lastId /\ t.key \in IdemKeys
        /\ \A t \in transfers : idem[t.key].transfer = t.id
        /\ \A t, u \in transfers : t.id = u.id => t = u
        /\ lastId \in Nat
    BY Zenon, <1>b, <1>c DEF RowsMatch
  <2>1. \A t \in transfers : t.key # IdemKey(c)
    <3>1. idem[IdemKey(c)].transfer = 0
      BY <1>6 DEF NoRow
    <3>. QED  BY Zenon, <2>0, <3>1
  <2>2. /\ new.id = lastId + 1 /\ new.key = IdemKey(c)
        /\ <<new.sender, new.receiver, new.amount>> = Fingerprint(c)
    BY Zenon DEF Transfer, Fingerprint, new
  <2>3. idem'[IdemKey(c)] = [fingerprint |-> Fingerprint(c), transfer |-> lastId + 1]
    BY Zenon, <1>b, <1>i, CommandType
  <2>4. \A k \in IdemKeys \ {IdemKey(c)} : idem'[k] = idem[k]
    BY Zenon, <1>b, <1>i
  <2>5. \A t \in transfers' :
          /\ t.id <= lastId'
          /\ idem'[t.key].transfer = t.id
          /\ idem'[t.key].fingerprint = <<t.sender, t.receiver, t.amount>>
    <3>1. \A t \in transfers : t.id <= lastId' /\ idem'[t.key] = idem[t.key]
      BY <1>t, <2>0, <2>1, <2>4
    <3>2. \A t \in transfers :
            /\ idem[t.key].transfer = t.id
            /\ idem[t.key].fingerprint = <<t.sender, t.receiver, t.amount>>
      BY Zenon, <1>c DEF RowsMatch
    <3>3. /\ new.id <= lastId'
          /\ idem'[new.key].transfer = new.id
          /\ idem'[new.key].fingerprint = <<new.sender, new.receiver, new.amount>>
      BY <1>t, <2>0, <2>2, <2>3
    <3>. QED  BY Zenon, <1>t, <3>1, <3>2, <3>3
  <2>6. \A k \in IdemKeys : idem'[k] # NoRow =>
          \E t \in transfers' : t.key = k /\ t.id = idem'[k].transfer
    BY <1>c, <1>t, <2>2, <2>3, <2>4 DEF RowsMatch
  <2>7. \A t, u \in transfers' : t.id = u.id => t = u
    <3>1. \A t, u \in transfers : t.id = u.id => t = u
      BY Zenon, <1>c DEF RowsMatch
    <3>2. \A t \in transfers : t.id # new.id
      BY <2>0, <2>2
    <3>. QED  BY Zenon, <1>t, <3>1, <3>2
  <2>. QED  BY Zenon, <2>5, <2>6, <2>7 DEF RowsMatch, NoRow
<1>12. RowsAscend'
  <2>1. Held(c)' = {}
    BY Zenon, <1>a, <1>l, <1>2 DEF Held
  <2>. QED  BY Zenon, <1>c, <1>3, <2>1 DEF RowsAscend, Wanted
<1>. QED  BY Zenon, <1>7, <1>8, <1>9, <1>10, <1>11, <1>12 DEF Isolation

-----------------------------------------------------------------------------
(* Isolation is inductive: the transfers that run at once, each reading    *)
(* and writing only the rows it has locked, do not disturb one another.    *)

\* A row lock read keeps Isolation.
LEMMA LockRowKeepsIsolation ==
  ASSUME TypeOK, Isolation, NEW c \in Clients, LockRow(c)
  PROVE  Isolation'
<1>a. /\ pc \in [Clients -> {"idle", "reserve", "lock", "write"}]
      /\ keyLock \in [IdemKeys -> Clients \cup {Nobody}]
      /\ rowLock \in [Accounts -> Clients \cup {Nobody}]
      /\ seen \in [Clients -> [Accounts -> [balance : Int, status : Statuses]]]
      /\ started \in [Clients -> Days]
  BY DEF TypeOK
<1>c. LocksOwned /\ HeldKeysFresh /\ ReadsFresh /\ ChecksStand /\ RowsMatch /\ RowsAscend
  BY DEF Isolation
<1> DEFINE r == NextRow(c)
<1>1. /\ r \in Wanted(c) \ Held(c) /\ \A b \in Wanted(c) \ Held(c) : r <= b
      /\ r \in Accounts
  BY Zenon, NextRowIsSmallest, CommandType DEF LockRow
<1>2. /\ pc[c] = "lock" /\ rowLock[r] = Nobody
      /\ rowLock' = [rowLock EXCEPT ![r] = c]
      /\ seen' = [seen EXCEPT ![c][r] = [balance |-> balance[r], status |-> status[r]]]
      /\ UNCHANGED <<balance, status, transfers, lastId, idem, keyLock, pc, started>>
  BY Zenon DEF LockRow, committed
<1> HIDE DEF r
<1>3. \A d \in Clients : d # Nobody
  BY ClientsAssumption
<1>4. /\ \A d \in Clients \ {c} : Held(d)' = Held(d)
      /\ Held(c)' = Held(c) \cup {r}
  BY SMTT(20), <1>a, <1>1, <1>2, <1>3 DEF Held
<1>5. LocksOwned'
  BY <1>a, <1>c, <1>1, <1>2, <1>3 DEF LocksOwned, Wanted, IdemKey
<1>6. HeldKeysFresh'
  BY Zenon, <1>c, <1>2 DEF HeldKeysFresh
<1>7. ReadsFresh'
  BY Zenon, <1>a, <1>c, <1>1, <1>2, <1>3 DEF ReadsFresh
<1>8. ChecksStand'
  <2> SUFFICES ASSUME NEW d \in Clients, pc'[d] = "write"
               PROVE  /\ Command[d].sender # Command[d].receiver
                      /\ Wanted(d) \subseteq Held(d)'
                      /\ Revalidated(d)'
    BY Zenon DEF ChecksStand, Wanted
  <2>1. d # c /\ pc[d] = "write" /\ seen'[d] = seen[d] /\ started'[d] = started[d]
    BY Zenon, <1>a, <1>2
  <2>2. Revalidated(d)' <=> Revalidated(d)
    BY Zenon, <1>2, <2>1 DEF Revalidated, Authorized, WithinLimits, CanAfford, SentSince, Wanted
  <2>. QED  BY Zenon, <1>c, <1>4, <2>1, <2>2 DEF ChecksStand
<1>9. RowsMatch'
  BY Zenon, <1>c, <1>2 DEF RowsMatch
<1>10. RowsAscend'
  <2>1. \A d \in Clients : Held(d) \subseteq Nat /\ Wanted(d) \subseteq Nat
    BY AccountsAssumption, CommandType, Zenon DEF Held
  <2> SUFFICES ASSUME NEW d \in Clients, NEW a \in Held(d)', NEW b \in Wanted(d) \ Held(d)'
               PROVE  a < b
    BY Zenon DEF RowsAscend, Wanted
  <2>2. CASE d = c /\ a = r
    <3>1. b \in Wanted(c) \ Held(c) /\ b # r
      BY Zenon, <1>4, <2>2
    <3>2. r <= b /\ r \in Nat /\ b \in Nat
      BY Zenon, <1>1, <2>1, <3>1
    <3>. QED  BY <2>2, <3>1, <3>2
  <2>3. CASE ~(d = c /\ a = r)
    BY <1>c, <1>4, <2>3 DEF RowsAscend
  <2>. QED  BY Zenon, <2>2, <2>3
<1>. QED  BY <1>5, <1>6, <1>7, <1>8, <1>9, <1>10 DEF Isolation

\* What the checks of a client depend on.
LEMMA RevalidatedStays ==
  ASSUME NEW d \in Clients, UNCHANGED transfers,
         seen'[d] = seen[d], started'[d] = started[d]
  PROVE  Revalidated(d)' <=> Revalidated(d)
BY Zenon DEF Revalidated, Authorized, WithinLimits, CanAfford, SentSince, Wanted

\* The checks stand as long as the transactions about to write stay as they are.
LEMMA ChecksStay ==
  ASSUME ChecksStand, UNCHANGED <<transfers, rowLock>>,
         \A d \in Clients : pc'[d] = "write" =>
           pc[d] = "write" /\ seen'[d] = seen[d] /\ started'[d] = started[d]
  PROVE  ChecksStand'
<1> SUFFICES ASSUME NEW d \in Clients, pc'[d] = "write"
             PROVE  /\ Command[d].sender # Command[d].receiver
                    /\ Wanted(d) \subseteq Held(d)'
                    /\ Revalidated(d)'
  BY Zenon DEF ChecksStand, Wanted
<1>1. Revalidated(d)' <=> Revalidated(d)
  BY Zenon, RevalidatedStays
<1>2. Held(d)' = Held(d)
  BY Zenon DEF Held
<1>. QED  BY Zenon, <1>1, <1>2 DEF ChecksStand

\* Rows that stay as they are keep what is said of rows.
LEMMA RowsStay ==
  /\ HeldKeysFresh /\ UNCHANGED <<keyLock, idem>> => HeldKeysFresh'
  /\ ReadsFresh /\ UNCHANGED <<rowLock, seen, balance, status>> => ReadsFresh'
  /\ RowsMatch /\ UNCHANGED <<transfers, lastId, idem>> => RowsMatch'
  /\ RowsAscend /\ UNCHANGED rowLock => RowsAscend'
<1>1. HeldKeysFresh /\ UNCHANGED <<keyLock, idem>> => HeldKeysFresh'
  BY Zenon DEF HeldKeysFresh
<1>2. ReadsFresh /\ UNCHANGED <<rowLock, seen, balance, status>> => ReadsFresh'
  BY Zenon DEF ReadsFresh
<1>3. RowsMatch /\ UNCHANGED <<transfers, lastId, idem>> => RowsMatch'
  BY Zenon DEF RowsMatch
<1>4. RowsAscend /\ UNCHANGED rowLock => RowsAscend'
  BY Zenon DEF RowsAscend, Held, Wanted
<1>. QED  BY Zenon, <1>1, <1>2, <1>3, <1>4

\* Every step keeps Isolation.
LEMMA IsolationInductive == TypeOK /\ Isolation /\ [Next]_vars => Isolation'
<1> SUFFICES ASSUME TypeOK, Isolation, [Next]_vars PROVE Isolation'
  BY Zenon
<1>0. /\ \A c \in Clients : c # Nobody
      /\ pc \in [Clients -> {"idle", "reserve", "lock", "write"}]
      /\ started \in [Clients -> Days]
      /\ status \in [Accounts -> Statuses]
      /\ keyLock \in [IdemKeys -> Clients \cup {Nobody}]
      /\ LocksOwned /\ HeldKeysFresh /\ ReadsFresh /\ ChecksStand /\ RowsMatch /\ RowsAscend
  BY Zenon, ClientsAssumption DEF TypeOK, Isolation
<1>1. ASSUME NEW c \in Clients, Submit(c) PROVE Isolation'
  <2>1. /\ pc[c] = "idle" /\ pc' = [pc EXCEPT ![c] = "reserve"]
        /\ started' = [started EXCEPT ![c] = today]
        /\ UNCHANGED <<balance, status, transfers, lastId, idem, keyLock, rowLock, seen>>
    BY Zenon, <1>1 DEF Submit, committed, locks
  <2>2. LocksOwned'
    BY <1>0, <2>1 DEF LocksOwned, Wanted, IdemKey
  <2>3. HeldKeysFresh' /\ ReadsFresh' /\ RowsMatch' /\ RowsAscend'
    BY Zenon, <1>0, <2>1, RowsStay
  <2>4. \A d \in Clients : pc'[d] = "write" =>
          pc[d] = "write" /\ seen'[d] = seen[d] /\ started'[d] = started[d]
    BY Zenon, <1>0, <2>1
  <2>5. ChecksStand'
    BY Zenon, <1>0, <2>1, <2>4, ChecksStay
  <2>. QED  BY Zenon, <2>2, <2>3, <2>5 DEF Isolation
<1>2. ASSUME NEW c \in Clients, ReserveProceed(c) PROVE Isolation'
  <2>1. /\ pc[c] = "reserve" /\ pc' = [pc EXCEPT ![c] = "lock"]
        /\ keyLock[IdemKey(c)] = Nobody /\ idem[IdemKey(c)] = NoRow
        /\ keyLock' = [keyLock EXCEPT ![IdemKey(c)] = c]
        /\ UNCHANGED <<balance, status, transfers, lastId, idem, rowLock, seen, started>>
    BY Zenon, <1>2 DEF ReserveProceed, KeyFree, committed
  <2>2. IdemKey(c) \in IdemKeys
    BY Zenon, CommandType
  <2>3. LocksOwned'
    <3>1. ASSUME NEW k \in IdemKeys, NEW d \in Clients
          PROVE  keyLock'[k] = d <=> pc'[d] \in {"lock", "write"} /\ k = IdemKey(d)
      <4>1. CASE k = IdemKey(c)
        <5>1. ~(pc[d] \in {"lock", "write"} /\ k = IdemKey(d))
          BY Zenon, <1>0, <2>1, <4>1 DEF LocksOwned
        <5>. QED  BY Zenon, <1>0, <2>1, <2>2, <4>1, <5>1
      <4>2. CASE k # IdemKey(c)
        BY SMTT(20), <1>0, <2>1, <2>2, <4>2 DEF LocksOwned
      <4>. QED  BY Zenon, <4>1, <4>2
    <3>2. \A a \in Accounts, d \in Clients :
            rowLock'[a] = d => pc'[d] \in {"lock", "write"} /\ a \in Wanted(d)
      BY <1>0, <2>1 DEF LocksOwned
    <3>. QED  BY Zenon, <3>1, <3>2 DEF LocksOwned, IdemKey, Wanted
  <2>4. HeldKeysFresh'
    BY Zenon, <1>0, <2>1, <2>2 DEF HeldKeysFresh
  <2>5. ReadsFresh' /\ RowsMatch' /\ RowsAscend'
    BY Zenon, <1>0, <2>1, RowsStay
  <2>6. \A d \in Clients : pc'[d] = "write" =>
          pc[d] = "write" /\ seen'[d] = seen[d] /\ started'[d] = started[d]
    BY Zenon, <1>0, <2>1
  <2>7. ChecksStand'
    BY Zenon, <1>0, <2>1, <2>6, ChecksStay
  <2>. QED  BY Zenon, <2>3, <2>4, <2>5, <2>7 DEF Isolation
<1>3. ASSUME NEW c \in Clients, ReserveReplay(c) PROVE Isolation'
  BY Zenon, <1>3, EndKeepsIsolation DEF ReserveReplay
<1>4. ASSUME NEW c \in Clients, NEW result, Rollback(c, result) PROVE Isolation'
  BY Zenon, <1>4, EndKeepsIsolation DEF Rollback
<1>5. ASSUME NEW c \in Clients, ReserveMismatch(c) \/ Reject(c) \/ Fail(c) PROVE Isolation'
  BY Zenon, <1>4, <1>5 DEF ReserveMismatch, Reject, Fail
<1>6. ASSUME NEW c \in Clients, LockRow(c) PROVE Isolation'
  BY Zenon, <1>6, LockRowKeepsIsolation
<1>7. ASSUME NEW c \in Clients, Accept(c) PROVE Isolation'
  <2>1. /\ pc[c] = "lock" /\ pc' = [pc EXCEPT ![c] = "write"]
        /\ Command[c].sender # Command[c].receiver
        /\ Wanted(c) \subseteq Held(c) /\ Revalidated(c)
        /\ UNCHANGED <<balance, status, transfers, lastId, idem, keyLock, rowLock, seen, started>>
    BY Zenon, <1>7 DEF Accept, committed, locks
  <2>2. LocksOwned'
    BY SMTT(20), <1>0, <2>1 DEF LocksOwned, Wanted, IdemKey
  <2>3. HeldKeysFresh' /\ ReadsFresh' /\ RowsMatch' /\ RowsAscend'
    BY ZenonT(30), <1>0, <2>1, RowsStay
  <2>4. ChecksStand'
    <3> SUFFICES ASSUME NEW d \in Clients, pc'[d] = "write"
                 PROVE  /\ Command[d].sender # Command[d].receiver
                        /\ Wanted(d) \subseteq Held(d)'
                        /\ Revalidated(d)'
      BY Zenon DEF ChecksStand, Wanted
    <3>1. d = c \/ pc[d] = "write"
      BY Zenon, <1>0, <2>1
    <3>2. Revalidated(d)' <=> Revalidated(d)
      BY Zenon, <2>1, RevalidatedStays
    <3>3. Held(d)' = Held(d)
      BY Zenon, <2>1 DEF Held
    <3>. QED  BY Zenon, <1>0, <2>1, <3>1, <3>2, <3>3 DEF ChecksStand
  <2>. QED  BY <2>2, <2>3, <2>4 DEF Isolation
<1>8. ASSUME NEW c \in Clients, Commit(c) PROVE Isolation'
  BY <1>8, CommitKeepsIsolation
<1>9. ASSUME NEW a \in Accounts, CloseAccount(a) PROVE Isolation'
  <2>1. /\ rowLock[a] = Nobody
        /\ status' = [status EXCEPT ![a] = "CLOSED"]
        /\ UNCHANGED <<balance, transfers, lastId, idem, keyLock, rowLock, seen, started, pc>>
    BY Zenon, <1>9 DEF CloseAccount, locks, local
  <2>2. LocksOwned'
    BY Zenon, <1>0, <2>1 DEF LocksOwned, Wanted, IdemKey
  <2>3. HeldKeysFresh' /\ RowsMatch' /\ RowsAscend'
    BY Zenon, <1>0, <2>1, RowsStay
  <2>4. ReadsFresh'
    BY Zenon, <1>0, <2>1 DEF ReadsFresh
  <2>5. ChecksStand'
    BY Zenon, <1>0, <2>1, ChecksStay
  <2>. QED  BY Zenon, <2>2, <2>3, <2>4, <2>5 DEF Isolation
<1>10. CASE Midnight \/ UNCHANGED vars
  <2>1. UNCHANGED <<balance, status, transfers, lastId, idem, keyLock, rowLock, seen, started, pc>>
    BY Zenon, <1>10 DEF Midnight, vars, committed, locks, local
  <2>2. LocksOwned'
    BY <1>0, <2>1 DEF LocksOwned, Wanted, IdemKey
  <2>3. HeldKeysFresh' /\ ReadsFresh' /\ RowsMatch' /\ RowsAscend'
    BY Zenon, <1>0, <2>1, RowsStay
  <2>4. ChecksStand'
    BY Zenon, <1>0, <2>1, ChecksStay
  <2>. QED  BY Zenon, <2>2, <2>3, <2>4 DEF Isolation
<1>. QED
  BY Zenon, <1>1, <1>2, <1>3, <1>5, <1>6, <1>7, <1>8, <1>9, <1>10 DEF Next, Step

\* Nothing is locked or written at the start.
LEMMA IsolationInitially == Init => Isolation
<1> SUFFICES ASSUME Init PROVE Isolation
  BY Zenon
<1>1. \A c \in Clients : c # Nobody
  BY Zenon, ClientsAssumption
<1>2. LocksOwned /\ HeldKeysFresh
  BY Zenon, <1>1 DEF Init, LocksOwned, HeldKeysFresh
<1>3. ReadsFresh /\ ChecksStand
  BY Zenon, <1>1 DEF Init, ReadsFresh, ChecksStand
<1>4. RowsMatch
  BY Zenon DEF Init, RowsMatch
<1>5. RowsAscend
  BY Zenon, <1>1 DEF Init, RowsAscend, Held
<1>. QED  BY Zenon, <1>2, <1>3, <1>4, <1>5 DEF Isolation

\* The isolation the row locks and the idempotency rows give: every decision of
\* execute still stands when its transaction writes.
THEOREM TransfersIsolated == Spec => []Isolation
<1>1. Init => TypeOK /\ Isolation
  BY Zenon, TypeInitially, IsolationInitially
<1>2. TypeOK /\ Isolation /\ [Next]_vars => TypeOK' /\ Isolation'
  BY Zenon, TypeInductive, IsolationInductive
<1>. QED  BY <1>1, <1>2, PTL DEF Spec

\* A finite set of naturals that is not empty has a greatest element.
LEMMA FiniteMaximum ==
  ASSUME NEW S \in SUBSET Nat, IsFiniteSet(S), S # {}
  PROVE  \E m \in S : \A a \in S : a <= m
<1> DEFINE Above(a) == {b \in S : b > a}
           T == {Above(a) : a \in S}
<1>1. IsWellFoundedOn(StrictSubsetOrdering(S), SUBSET S)
  BY FS_StrictSubsetOrderingWellFounded, FS_FiniteSubsetsOfFinite, Zenon
<1>2. T \subseteq SUBSET S /\ T # {}
  BY Zenon
<1>3. PICK X \in T : \A Y \in T : <<Y, X>> \notin StrictSubsetOrdering(S)
  <2> HIDE DEF T
  <2>. QED  BY <1>1, <1>2, WFMin, Zenon
<1>4. PICK m \in S : X = Above(m)
  BY Zenon
<1>5. ASSUME NEW a \in S, a > m PROVE FALSE
  <2>1. Above(a) \subseteq X /\ a \in X /\ a \notin Above(a)
    <3>1. a \in Nat /\ m \in Nat /\ \A b \in S : b \in Nat
      BY Zenon
    <3>2. \A b \in S : b > a => b > m
      BY <1>5, <3>1
    <3>3. ~(a > a)
      BY <3>1
    <3>. QED  BY <1>4, <1>5, <3>2, <3>3, Zenon
  <2>2. Above(a) \in T /\ Above(a) \in SUBSET S /\ X \in SUBSET S
    BY Zenon, <1>2
  <2> HIDE DEF Above, T
  <2>3. <<Above(a), X>> \in StrictSubsetOrdering(S)
    BY <2>1, <2>2, Zenon DEF StrictSubsetOrdering
  <2>. QED  BY Zenon, <1>3, <2>2, <2>3
<1>. QED  BY <1>5

\* Transfers never wait for one another in a circle: what the ascending lock
\* order of lock_for_update is for.
THEOREM DeadlockFree == Spec => []NoWaitCycle
<1>1. TypeOK /\ Isolation => NoWaitCycle
  <2> SUFFICES ASSUME TypeOK, Isolation, NEW S \in SUBSET Clients, S # {},
                      \A c \in S : \E d \in S : WaitsFor(c, d)
               PROVE  FALSE
    BY Zenon DEF NoWaitCycle
  <2> DEFINE L == {c \in S : pc[c] = "lock"}
             R == {NextRow(c) : c \in L}
  <2>1. ASSUME NEW c \in S, NEW d \in S, WaitsFor(c, d) PROVE d \in L
    <3>1. pc[d] \in {"reserve", "lock"}
      BY Zenon DEF WaitsFor
    <3>2. pc[d] \in {"lock", "write"}
      <4>1. CASE pc[c] = "reserve" /\ keyLock[IdemKey(c)] = d
        BY Zenon, <4>1, CommandType DEF Isolation, LocksOwned
      <4>2. CASE Wanted(c) \ Held(c) # {} /\ rowLock[NextRow(c)] = d
        BY Zenon, <4>2, NextRowIsSmallest, CommandType DEF Isolation, LocksOwned
      <4>. QED  BY Zenon, <2>1, <4>1, <4>2 DEF WaitsFor
    <3>. QED  BY Zenon, <3>1, <3>2
  <2>2. L # {}
    BY Zenon, <2>1
  <2>3. ASSUME NEW c \in L
        PROVE  /\ NextRow(c) \in Wanted(c) \ Held(c) /\ NextRow(c) \in Accounts
               /\ \E d \in L : NextRow(c) \in Held(d)
    <3>1. PICK d \in S : WaitsFor(c, d)
      BY Zenon
    <3>2. Wanted(c) \ Held(c) # {} /\ rowLock[NextRow(c)] = d
      BY Zenon, <2>3, <3>1 DEF WaitsFor
    <3>3. NextRow(c) \in Wanted(c) \ Held(c) /\ NextRow(c) \in Accounts
      BY Zenon, <3>2, NextRowIsSmallest, CommandType
    <3>. QED  BY Zenon, <2>1, <3>1, <3>2, <3>3 DEF Held
  <2>4. R \subseteq Accounts /\ R # {}
    BY <2>2, <2>3
  <2>5. R \in SUBSET Nat /\ IsFiniteSet(R)
    BY <2>4, AccountsAssumption, FS_Subset, Zenon
  <2>6. PICK m \in R : \A a \in R : a <= m
    <3> HIDE DEF R
    <3>. QED  BY Zenon, <2>4, <2>5, FiniteMaximum
  <2>7. PICK c \in L : m = NextRow(c)
    BY Zenon
  <2>8. PICK d \in L : m \in Held(d)
    BY Zenon, <2>3, <2>7
  <2>9. m < NextRow(d)
    BY Zenon, <2>3, <2>8 DEF Isolation, RowsAscend
  <2>10. NextRow(d) \in R /\ m \in Nat /\ NextRow(d) \in Nat
    BY Zenon, <2>5
  <2>. QED  BY <2>6, <2>9, <2>10
<1>. QED  BY <1>1, TypeCorrect, TransfersIsolated, PTL

-----------------------------------------------------------------------------
(* The safety theorems of the transfer use case, from its isolation.       *)

\* Only a commit changes balances, ledger and transfers.
LEMMA OnlyCommitWrites ==
  ASSUME [Next]_vars, \A c \in Clients : ~Commit(c)
  PROVE  UNCHANGED <<balance, ledger, transfers, lastId, idem>>
BY Zenon DEF Next, Step, Submit, ReserveProceed, ReserveReplay, ReserveMismatch, LockRow, Accept,
   Reject, Fail, Rollback, CloseAccount, Midnight, committed, vars

\* A commit moves the amount from one active account that can pay for it to
\* another active account.
LEMMA CommitMoves ==
  ASSUME TypeOK, Isolation, NEW c \in Clients, Commit(c)
  PROVE  LET s == Command[c].sender  r == Command[c].receiver  m == Command[c].amount IN
         /\ s # r
         /\ s = Issuance \/ balance[s] >= m
         /\ status[s] = "ACTIVE" /\ status[r] = "ACTIVE"
         /\ balance' = [balance EXCEPT ![s] = @ - m, ![r] = @ + m]
         /\ ledger' = [ledger EXCEPT ![s] = @ - m, ![r] = @ + m]
<1> DEFINE s == Command[c].sender  r == Command[c].receiver  m == Command[c].amount
<1>1. s \in Accounts /\ r \in Accounts /\ m \in Nat
  BY Zenon, CommandType
<1>2. s # r /\ rowLock[s] = c /\ rowLock[r] = c /\ Revalidated(c)
  BY ZenonT(30) DEF Isolation, ChecksStand, Commit, Wanted, Held
<1>3. /\ seen[c][s] = [balance |-> balance[s], status |-> status[s]]
      /\ seen[c][r] = [balance |-> balance[r], status |-> status[r]]
  BY ZenonT(30), <1>1, <1>2 DEF Isolation, ReadsFresh
<1>4. s = Issuance \/ balance[s] >= m
  BY SMTT(20), <1>2, <1>3 DEF Revalidated, CanAfford
<1>5. status[s] = "ACTIVE" /\ status[r] = "ACTIVE"
  BY SMTT(30), <1>2, <1>3 DEF Revalidated, Wanted
<1>6. balance' = [balance EXCEPT ![s] = @ - m, ![r] = @ + m]
  BY SMTT(30), <1>1, <1>2, <1>3 DEF Commit, PersistBalance, TypeOK
<1>7. ledger' = [ledger EXCEPT ![s] = @ - m, ![r] = @ + m]
  BY Zenon DEF Commit, Post
<1>. QED  BY ZenonT(30), <1>2, <1>4, <1>5, <1>6, <1>7

\* No update is lost: absolute balances and incremental ledger agree for ever.
THEOREM NoLostUpdate == Spec => []BalanceIsLedger
<1>1. Init => BalanceIsLedger
  BY Zenon DEF Init, BalanceIsLedger
<1>2. TypeOK /\ Isolation /\ BalanceIsLedger /\ [Next]_vars => BalanceIsLedger'
  <2> SUFFICES ASSUME TypeOK, Isolation, BalanceIsLedger, [Next]_vars PROVE BalanceIsLedger'
    BY Zenon
  <2>1. ASSUME NEW c \in Clients, Commit(c) PROVE BalanceIsLedger'
    BY Zenon, <2>1, CommitMoves DEF BalanceIsLedger
  <2>2. CASE \A c \in Clients : ~Commit(c)
    BY Zenon, <2>2, OnlyCommitWrites DEF BalanceIsLedger
  <2>. QED  BY Zenon, <2>1, <2>2
<1>. QED  BY <1>1, <1>2, TypeCorrect, TransfersIsolated, PTL DEF Spec

\* The total of all balances never changes.
THEOREM Conservation == Spec => []MoneyConserved
<1>1. Init => MoneyConserved
  BY Zenon DEF Init, MoneyConserved
<1>2. TypeOK /\ TypeOK' /\ Isolation /\ MoneyConserved /\ [Next]_vars => MoneyConserved'
  <2> SUFFICES ASSUME TypeOK, TypeOK', Isolation, MoneyConserved, [Next]_vars
               PROVE  MoneyConserved'
    BY Zenon
  <2>1. ASSUME NEW c \in Clients, Commit(c) PROVE MoneyConserved'
    <3> DEFINE s == Command[c].sender  r == Command[c].receiver  m == Command[c].amount
               g == balance'
    <3>1. s \in Accounts /\ r \in Accounts /\ m \in Int /\ s # r
      BY <2>1, CommandType, CommitMoves
    <3>2. balance \in [Accounts -> Int] /\ g \in [Accounts -> Int] /\ IsFiniteSet(Accounts)
      BY Zenon, AccountsAssumption DEF TypeOK
    <3>3. /\ g[s] = balance[s] - m /\ g[r] = balance[r] + m
          /\ \A a \in Accounts \ {s, r} : g[a] = balance[a]
      BY Zenon, <2>1, <3>1, <3>2, CommitMoves
    <3> HIDE DEF s, r, m, g
    <3>4. Sum(Accounts, g) = Sum(Accounts, balance)
      BY <3>1, <3>2, <3>3, SumTransfer
    <3>. QED  BY Zenon, <3>4 DEF MoneyConserved, g
  <2>2. CASE \A c \in Clients : ~Commit(c)
    BY Zenon, <2>2, OnlyCommitWrites DEF MoneyConserved
  <2>. QED  BY Zenon, <2>1, <2>2
<1>. QED  BY <1>1, <1>2, TypeCorrect, TransfersIsolated, PTL DEF Spec

\* No account but the issuance account is ever overdrawn.
THEOREM NoOverdraft == Spec => []NeverOverdrawn
<1>1. Init => NeverOverdrawn
  BY Zenon, OpeningAssumption DEF Init, NeverOverdrawn
<1>2. TypeOK /\ Isolation /\ NeverOverdrawn /\ [Next]_vars => NeverOverdrawn'
  <2> SUFFICES ASSUME TypeOK, Isolation, NeverOverdrawn, [Next]_vars PROVE NeverOverdrawn'
    OBVIOUS
  <2>1. ASSUME NEW c \in Clients, Commit(c) PROVE NeverOverdrawn'
    <3> DEFINE s == Command[c].sender  r == Command[c].receiver  m == Command[c].amount
    <3>1. /\ s \in Accounts /\ r \in Accounts /\ m \in Nat /\ s # r
          /\ s = Issuance \/ balance[s] >= m
          /\ balance' = [balance EXCEPT ![s] = @ - m, ![r] = @ + m]
      BY Zenon, <2>1, CommitMoves, CommandType
    <3> HIDE DEF s, r, m
    <3>2. ASSUME NEW a \in Accounts \ {Issuance} PROVE balance'[a] >= 0
      <4>1. balance \in [Accounts -> Int] /\ balance[a] >= 0
        BY Zenon DEF NeverOverdrawn, TypeOK
      <4>2. balance'[a] = balance[a] \/ balance'[a] = balance[a] + m
              \/ (a = s /\ balance'[a] = balance[a] - m)
        BY Zenon, <3>1, <4>1
      <4>3. balance[a] \in Int
        BY Zenon, <4>1
      <4>. QED  BY <3>1, <4>1, <4>2, <4>3
    <3>. QED  BY Zenon, <3>2 DEF NeverOverdrawn
  <2>2. CASE \A c \in Clients : ~Commit(c)
    BY Zenon, <2>2, OnlyCommitWrites DEF NeverOverdrawn
  <2>. QED  BY <2>1, <2>2
<1>. QED  BY <1>1, <1>2, TypeCorrect, TransfersIsolated, PTL DEF Spec

\* A key produces at most one transfer, however often it is submitted.
THEOREM AtMostOnce == Spec => []OneTransferPerKey
<1>1. TypeOK /\ Isolation => OneTransferPerKey
  BY DEF TypeOK, Isolation, RowsMatch, OneTransferPerKey
<1>. QED  BY <1>1, TypeCorrect, TransfersIsolated, PTL

\* A balance of a closed account never moves.
THEOREM ClosedStayPut == Spec => ClosedAccountsFrozen
<1>1. TypeOK /\ Isolation /\ [Next]_vars =>
        [\A a \in Accounts : status[a] = "CLOSED" => balance'[a] = balance[a]]_vars
  <2> SUFFICES ASSUME TypeOK, Isolation, [Next]_vars,
                      NEW a \in Accounts, status[a] = "CLOSED"
               PROVE  balance'[a] = balance[a]
    BY Zenon
  <2>1. ASSUME NEW c \in Clients, Commit(c) PROVE balance'[a] = balance[a]
    BY <2>1, CommitMoves, CommandType, Zenon DEF TypeOK
  <2>2. CASE \A c \in Clients : ~Commit(c)
    BY Zenon, <2>2, OnlyCommitWrites
  <2>. QED  BY Zenon, <2>1, <2>2
<1>. QED  BY <1>1, TypeCorrect, TransfersIsolated, PTL DEF Spec, ClosedAccountsFrozen

\* A positive answer names the transfer of its key and payload.
THEOREM Truthful == Spec => []RepliesTruthful
<1>1. Init => RepliesTruthful
  BY SMTT(20) DEF Init, RepliesTruthful, NoReply
<1>2. TypeOK /\ Isolation /\ RepliesTruthful /\ [Next]_vars => RepliesTruthful'
  <2> SUFFICES ASSUME TypeOK, Isolation, RepliesTruthful, [Next]_vars,
                      NEW d \in Clients, reply'[d].result \in {"created", "replayed"}
               PROVE  \E t \in transfers' :
                        /\ t.id = reply'[d].transfer
                        /\ t.key = IdemKey(d)
                        /\ <<t.sender, t.receiver, t.amount>> = Fingerprint(d)
    BY Zenon DEF RepliesTruthful, IdemKey, Fingerprint
  <2>t. reply \in [Clients -> [result : Results, transfer : Nat]]
    BY Zenon DEF TypeOK
  <2>1. transfers \subseteq transfers'
    <3>1. ASSUME NEW c \in Clients, Commit(c) PROVE transfers \subseteq transfers'
      BY Zenon, <3>1 DEF Commit
    <3>. QED  BY Zenon, <3>1, OnlyCommitWrites
  <2>2. CASE reply'[d] = reply[d]
    BY Zenon, <2>1, <2>2 DEF RepliesTruthful
  <2>3. CASE ReserveReplay(d)
    <3>1. /\ reply'[d].transfer = idem[IdemKey(d)].transfer
          /\ idem[IdemKey(d)] # NoRow
          /\ idem[IdemKey(d)].fingerprint = Fingerprint(d)
      BY Zenon, <2>t, <2>3 DEF ReserveReplay, Ends
    <3>2. PICK t \in transfers : t.key = IdemKey(d) /\ t.id = idem[IdemKey(d)].transfer
      BY Zenon, <3>1, CommandType DEF Isolation, RowsMatch
    <3>3. idem[t.key].fingerprint = <<t.sender, t.receiver, t.amount>>
      BY Zenon DEF Isolation, RowsMatch
    <3>. QED  BY Zenon, <2>1, <3>1, <3>2, <3>3
  <2>4. CASE Commit(d)
    <3>1. /\ reply'[d].transfer = lastId + 1
          /\ Transfer(d, lastId + 1) \in transfers'
      BY ZenonT(30), <2>t, <2>4 DEF Commit, Ends
    <3>. QED  BY <3>1, Zenon DEF Transfer, IdemKey, Fingerprint
  <2>5. ASSUME NEW c \in Clients, NEW result, NEW id, Ends(c, result, id), c # d
        PROVE  reply'[d] = reply[d]
    BY ZenonT(30), <2>t, <2>5 DEF Ends
  <2>6. ASSUME NEW c \in Clients, NEW result, result \notin {"created", "replayed"},
               Rollback(c, result)
        PROVE  reply'[d] = reply[d]
    BY Zenon, <2>t, <2>6 DEF Rollback, Ends
  <2>7. ASSUME NEW c \in Clients, ReserveMismatch(c) \/ Reject(c) \/ Fail(c)
        PROVE  reply'[d] = reply[d]
    BY <2>6, <2>7, Zenon DEF ReserveMismatch, Reject, Fail
  <2>8. ASSUME NEW c \in Clients, ReserveReplay(c) \/ Commit(c), c # d
        PROVE  reply'[d] = reply[d]
    BY Zenon, <2>5, <2>8 DEF ReserveReplay, Commit
  <2>9. ASSUME NEW c \in Clients, Submit(c) PROVE reply'[d] = reply[d]
    BY Zenon, <2>t, <2>9 DEF Submit, NoReply
  <2>10. ASSUME NEW c \in Clients, ReserveProceed(c) \/ LockRow(c) \/ Accept(c)
         PROVE  reply'[d] = reply[d]
    BY Zenon, <2>10 DEF ReserveProceed, LockRow, Accept
  <2>11. CASE Midnight \/ (\E a \in Accounts : CloseAccount(a)) \/ UNCHANGED vars
    BY Zenon, <2>11, <2>2 DEF Midnight, CloseAccount, vars, local
  <2>. QED
    BY Zenon, <2>2, <2>3, <2>4, <2>7, <2>8, <2>9, <2>10, <2>11 DEF Next, Step
<1>. QED  BY <1>1, <1>2, TypeCorrect, TransfersIsolated, PTL DEF Spec

\* The use case implements the atomic, at-most-once payments of Payments.
THEOREM Refinement == Spec => ImplementsPayments
<1> DEFINE applied == {t.key : t \in transfers}
<1>1. Init => Abstract!Init
  BY Zenon DEF Init, Abstract!Init
<1>2. TypeOK /\ Isolation /\ [Next]_vars => [Abstract!Next]_<<balance, applied>>
  <2> SUFFICES ASSUME TypeOK, Isolation, [Next]_vars
               PROVE  Abstract!Next \/ UNCHANGED <<balance, applied>>
    BY Zenon
  <2>1. ASSUME NEW c \in Clients, Commit(c) PROVE Abstract!Pay(c)
    <3>1. Abstract!Key(c) = IdemKey(c)
      BY Zenon DEF Abstract!Key, IdemKey
    <3>2. IdemKey(c) \notin applied
      <4>1. idem[IdemKey(c)].transfer = 0
        BY <2>1, CommandType, ClientsAssumption
        DEF Isolation, LocksOwned, HeldKeysFresh, Commit, NoRow
      <4>. QED  BY SMTT(20), <4>1 DEF Isolation, RowsMatch, TypeOK
    <3>3. applied' = applied \cup {IdemKey(c)}
      <4>1. transfers' = transfers \cup {Transfer(c, lastId + 1)}
        BY Zenon, <2>1 DEF Commit
      <4>2. Transfer(c, lastId + 1).key = IdemKey(c)
        BY Zenon DEF Transfer
      <4>. QED  BY Zenon, <4>1, <4>2
    <3>. QED  BY Zenon, <2>1, <3>1, <3>2, <3>3, CommitMoves DEF Abstract!Pay
  <2>2. CASE \A c \in Clients : ~Commit(c)
    BY Zenon, <2>2, OnlyCommitWrites
  <2>. QED  BY Zenon, <2>1, <2>2 DEF Abstract!Next
<1>. QED
  BY <1>1, <1>2, TypeCorrect, TransfersIsolated, PTL DEF Spec, ImplementsPayments, Abstract!Spec

\* What one account sends on one day stays within the daily limit, whatever
\* the order of clock readings, lock waits and commits.
THEOREM DailyLimitKept == Spec => []DailyLimitHeld
<1> DEFINE Sent(a, d) == {t \in transfers : t.sender = a /\ t.day = d}
           Since(a, d) == {t \in transfers : t.sender = a /\ t.day >= d}
           Amounts(S) == [t \in S |-> t.amount]
           Kept == IsFiniteSet(transfers) /\ DailyLimitHeld
<1> HIDE DEF Sent, Since, Amounts
<1>1. Init => Kept
  <2>2. Init => transfers = {} /\ IsFiniteSet(transfers)
    BY Zenon, FS_EmptySet DEF Init
  <2>3. ASSUME Init, NEW a, NEW d PROVE NatSum(Sent(a, d), Amounts(Sent(a, d))) <= DailyLimit
    <3>1. Sent(a, d) = {}
      BY Zenon, <2>2, <2>3 DEF Sent
    <3>. QED  BY <3>1, NatSumEmpty, BoundsAssumption
  <2>. QED  BY Zenon, <2>2, <2>3 DEF DailyLimitHeld, Sent, Amounts
<1>2. TypeOK /\ Isolation /\ Kept /\ [Next]_vars => Kept'
  <2> SUFFICES ASSUME TypeOK, Isolation, Kept, [Next]_vars PROVE Kept'
    BY Zenon
  <2>1. ASSUME NEW c \in Clients, Commit(c) PROVE Kept'
    <3> DEFINE new == Transfer(c, lastId + 1)
    <3>1. /\ transfers' = transfers \cup {new}
          /\ new.id = lastId + 1 /\ new.sender = Command[c].sender
          /\ new.amount = Command[c].amount /\ new.day = started[c]
      BY ZenonT(30), <2>1 DEF Commit, Transfer, new
    <3> HIDE DEF new
    <3>2. new \notin transfers
      BY SMTT(30), <3>1 DEF TypeOK, Isolation, RowsMatch
    <3>3. IsFiniteSet(transfers')
      BY Zenon, <3>1, FS_AddElement
    <3>4. ASSUME NEW a \in Accounts \ {Issuance}, NEW d \in Days
          PROVE  NatSum(Sent(a, d)', Amounts(Sent(a, d)')) <= DailyLimit
      <4>1. NatSum(Sent(a, d), Amounts(Sent(a, d))) <= DailyLimit
        BY Zenon DEF DailyLimitHeld, Sent, Amounts
      <4>2. CASE a # new.sender \/ d # new.day
        <5>1. Sent(a, d)' = Sent(a, d)
          BY Zenon, <3>1, <4>2 DEF Sent
        <5>. QED  BY Zenon, <4>1, <5>1
      <4>3. CASE a = new.sender /\ d = new.day
        <5> DEFINE S == Sent(a, d)  T == S \cup {new}  W == Since(a, d)
                   fS == Amounts(S)  fT == Amounts(T)  fW == Amounts(W)
        <5>1. Sent(a, d)' = T /\ Amounts(Sent(a, d)') = fT
          BY Zenon, <3>1, <4>3 DEF Sent, Amounts
        <5>2. new \notin S /\ IsFiniteSet(S) /\ S \subseteq W /\ IsFiniteSet(W)
          <6>1. S \subseteq transfers /\ W \subseteq transfers
            BY Zenon DEF Sent, Since
          <6>2. S \subseteq W
            BY DEF TypeOK, Days, Sent, Since
          <6>. QED  BY Zenon, <3>2, <6>1, <6>2, FS_Subset
        <5>3. /\ fS \in [S -> Nat] /\ fW \in [W -> Nat]
              /\ \A b \in S : fS[b] = fW[b]
          <6>1. \A b \in W : b.amount \in Nat
            BY Zenon DEF Since, TypeOK
          <6> HIDE DEF S, W
          <6>. QED  BY Zenon, <5>2, <6>1 DEF Amounts
        <5>4. new.amount \in Nat /\ Issuance # Command[c].sender
          BY Zenon, <3>1, <4>3, CommandType
        <5>5. SentSince(Command[c].sender, started[c]) + new.amount <= DailyLimit
          <6>1. Revalidated(c)
            BY Zenon, <2>1 DEF Isolation, ChecksStand, Commit
          <6>2. Command[c].kind # "SIGNUP_GRANT"
            BY Zenon, <5>4, CommandAssumption
          <6>. QED  BY Zenon, <3>1, <6>1, <6>2 DEF Revalidated, WithinLimits
        <5>6. SentSince(Command[c].sender, started[c]) = NatSum(W, fW)
          BY Zenon, <3>1, <4>3 DEF SentSince, Since, Amounts
        <5>7. fT \in [T -> Nat] /\ fT[new] = new.amount /\ \A b \in S : fT[b] = fS[b]
          <6>1. \A b \in S : b.amount \in Nat
            BY Zenon DEF Sent, TypeOK
          <6> HIDE DEF S
          <6>. QED  BY Zenon, <5>4, <6>1 DEF Amounts
        <5> HIDE DEF S, W, fS, fT, fW
        <5>8. NatSum(T, fT) = NatSum(S, fS) + new.amount
          BY <5>2, <5>3, <5>7, NatSumAdd
        <5>9. NatSum(S, fS) <= NatSum(W, fW)
          BY Zenon, <5>2, <5>3, NatSumSubset
        <5>10. NatSum(S, fS) \in Nat /\ NatSum(W, fW) \in Nat
          BY Zenon, <5>2, <5>3, NatSumType
        <5>11. NatSum(T, fT) <= DailyLimit
          <6> HIDE DEF T
          <6>. QED  BY SMTT(20), <5>4, <5>5, <5>6, <5>8, <5>9, <5>10, BoundsAssumption
        <5>. QED  BY Zenon, <5>1, <5>11
      <4>. QED  BY Zenon, <4>2, <4>3
    <3>. QED  BY Zenon, <3>3, <3>4 DEF DailyLimitHeld, Sent, Amounts
  <2>2. CASE \A c \in Clients : ~Commit(c)
    BY Zenon, <2>2, OnlyCommitWrites DEF DailyLimitHeld
  <2>. QED  BY Zenon, <2>1, <2>2
<1>. QED  BY <1>1, <1>2, TypeCorrect, TransfersIsolated, PTL DEF Spec
=============================================================================
