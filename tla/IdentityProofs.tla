---------------------------- MODULE IdentityProofs ----------------------------
(***************************************************************************)
(* Registration and sessions, for any number of clients, users, numbers    *)
(* and sessions.                                                           *)
(***************************************************************************)
EXTENDS Identity, FiniteSetTheorems, TLAPS

\* Session ids are given out in order.
IssuedInOrder == Issued = 1 .. Cardinality(Issued)

\* A session was rotated from an issued session, or from none.
ParentsIssued == \A t \in Issued : parent[t] \in Issued \cup {0}

\* What client c holds in its open transaction: a registration has a new user and a
\* number nobody has, a login a registered user, a refresh an issued session and its user.
Holds(c) ==
  /\ pc[c] = "idle" => user[c] = Nobody /\ number[c] = Nobody /\ session[c] = 0
  /\ pc[c] = "register" => /\ user[c] \in UserIds \ Registered
                           /\ number[c] \in Phones /\ \A u \in Registered : phone[u] # number[c]
                           /\ session[c] = 0
  /\ pc[c] = "login" => user[c] \in Registered /\ number[c] = Nobody /\ session[c] = 0
  /\ pc[c] = "refresh" => /\ session[c] \in Issued /\ user[c] = owner[session[c]]
                          /\ number[c] = Nobody

\* Two open registrations are about different users and different numbers.
Apart(c, d) ==
  pc[c] = "register" /\ pc[d] = "register" => user[c] # user[d] /\ number[c] # number[d]

\* Only registered users are active, and only issued sessions are revoked.
OnlyKnown == active \subseteq Registered /\ revoked \subseteq Issued

ClientsRight ==
  /\ \A c \in Clients : Holds(c)
  /\ \A c, d \in Clients : c # d => Apart(c, d)

\* The inductive invariant.
IdentityInv ==
  /\ IdentityTypeOK
  /\ IssuedInOrder
  /\ ParentsIssued
  /\ OnlyKnown
  /\ ClientsRight
  /\ RegisteredOnceAndWhole
  /\ TokensMintNothingLater

-----------------------------------------------------------------------------
(* What the steps change.                                                  *)

\* There are finitely many sessions, users and clients.
LEMMA Finite ==
  /\ IsFiniteSet(SessionIds) /\ IsFiniteSet(Issued) /\ IsFiniteSet(Registered)
  /\ IsFiniteSet(Clients)
  /\ 0 \notin SessionIds
<1>1. IsFiniteSet(SessionIds) /\ 0 \notin SessionIds
  BY IdentityAssumption, FS_Interval DEF SessionIds
<1>2. Issued \subseteq SessionIds /\ Registered \subseteq UserIds
  BY Zenon DEF Issued, Registered
<1>. QED  BY Zenon, <1>1, <1>2, FS_Subset, IdentityAssumption

\* A new session (_start_session, or the successor of a refresh) has a new id, and is a
\* successor of the session it was rotated from and of no other.
LEMMA SessionAdded ==
  ASSUME IdentityTypeOK, IssuedInOrder, NEW u \in UserIds, NEW from, InsertSession(u, from)
  PROVE  /\ NextId \in SessionIds /\ NextId \notin Issued
         /\ Issued' = Issued \cup {NextId} /\ IssuedInOrder'
         /\ owner' \in [SessionIds -> UserIds \cup {Nobody}]
         /\ owner'[NextId] = u /\ parent'[NextId] = from
         /\ \A s \in Issued : owner'[s] = owner[s] /\ parent'[s] = parent[s]
         /\ \A s : Successors(s)' = IF s = from THEN Successors(s) \cup {NextId}
                                                ELSE Successors(s)
<1>1. /\ owner \in [SessionIds -> UserIds \cup {Nobody}] /\ Nobody \notin UserIds
      /\ parent \in [SessionIds -> SessionIds \cup {0}]
  BY Zenon, IdentityAssumption DEF IdentityTypeOK
<1> DEFINE n == Cardinality(Issued)
<1>2. n \in Nat
  BY Zenon, Finite, FS_CardinalityType
<1>3. Issued = 1 .. n /\ NextId = n + 1
  BY Zenon DEF IssuedInOrder, NextId
<1>4. /\ NextId \in SessionIds
      /\ owner' = [owner EXCEPT ![NextId] = u]
      /\ parent' = [parent EXCEPT ![NextId] = from]
  BY Zenon DEF InsertSession
<1> HIDE DEF n
<1>5. NextId \notin Issued
  BY <1>2, <1>3
<1> HIDE DEF NextId
<1>6. Issued' = Issued \cup {NextId}
  BY Zenon, <1>1, <1>4 DEF Issued
<1>7. IssuedInOrder'
  <2>1. Cardinality(Issued \cup {NextId}) = n + 1
    BY Zenon, <1>5, Finite, FS_AddElement DEF n
  <2>2. Issued \cup {NextId} = 1 .. n + 1
    BY <1>2, <1>3
  <2>. QED  BY Zenon, <1>6, <2>1, <2>2 DEF IssuedInOrder
<1>8. /\ owner'[NextId] = u /\ parent'[NextId] = from
      /\ owner' \in [SessionIds -> UserIds \cup {Nobody}]
  BY Zenon, <1>1, <1>4
<1>9. \A s \in Issued : owner'[s] = owner[s] /\ parent'[s] = parent[s]
  BY Zenon, <1>1, <1>4, <1>5 DEF Issued
<1>10. ASSUME NEW s
       PROVE  Successors(s)' = IF s = from THEN Successors(s) \cup {NextId} ELSE Successors(s)
  <2>1. Successors(s)' = {t \in Issued' : parent'[t] = s}
    BY Zenon DEF Successors
  <2>2. Successors(s) = {t \in Issued : parent[t] = s}
    BY Zenon DEF Successors
  <2>. QED  BY Zenon, <1>5, <1>6, <1>8, <1>9, <2>1, <2>2
<1>. QED  BY Zenon, <1>4, <1>5, <1>6, <1>7, <1>8, <1>9, <1>10

\* Without a new session, who succeeds whom stays as it is.
LEMMA SessionsKept ==
  ASSUME UNCHANGED <<owner, parent>>
  PROVE  /\ Issued' = Issued /\ \A s : Successors(s)' = Successors(s)
         /\ IssuedInOrder' <=> IssuedInOrder
         /\ ParentsIssued' <=> ParentsIssued
BY Zenon DEF Issued, Successors, IssuedInOrder, ParentsIssued

\* A commit finds the user of its transaction, and the session it read if it is a refresh.
LEMMA CommitKnows ==
  ASSUME IdentityInv, NEW c \in Clients, pc[c] # "idle"
  PROVE  /\ user[c] \in UserIds
         /\ pc[c] = "register" => /\ user[c] \notin Registered /\ number[c] \in Phones
                                  /\ number[c] # Nobody
         /\ pc[c] = "refresh" => session[c] \in Issued /\ user[c] = owner[session[c]]
         /\ pc[c] # "register" => user[c] \in Registered
<1>1. Holds(c) /\ pc[c] \in {"idle", "register", "login", "refresh"}
  BY Zenon DEF IdentityInv, ClientsRight, IdentityTypeOK
<1>2. /\ \A s \in Issued : owner[s] \in Registered
      /\ Registered \subseteq UserIds /\ Nobody \notin Phones
  BY Zenon, IdentityAssumption DEF IdentityInv, RegisteredOnceAndWhole, Registered
<1>. QED  BY Zenon, <1>1, <1>2 DEF Holds

\* A step opens, commits or aborts one client's transaction, or belongs to no client.
LEMMA Steps ==
  ASSUME [Next]_vars
  PROVE  \/ \E c \in Clients :
              \/ \E u \in UserIds, p \in Phones : InsertUser(c, u, p)
              \/ \E u \in UserIds : LoginRead(c, u)
              \/ \E s \in SessionIds : RefreshRead(c, s)
              \/ CommitUser(c) \/ CommitLogin(c) \/ CommitRefresh(c) \/ Abort(c)
         \/ \E s \in SessionIds : Logout(s)
         \/ \E u \in UserIds : Ban(u)
         \/ /\ UNCHANGED <<userVars, owner, parent, rotatedTo, revoked, clientVars>>
            /\ \/ UNCHANGED <<lapsed, reused>>
               \/ \E s \in SessionIds : lapsed' \in {lapsed, lapsed \cup {s}}
                                        /\ reused' \in {reused, reused \cup {s}}
<1>1. ASSUME NEW c \in Clients, NEW s \in SessionIds, RefreshReused(c, s)
      PROVE  /\ UNCHANGED <<userVars, owner, parent, rotatedTo, revoked, clientVars>>
             /\ lapsed' = lapsed /\ reused' = reused \cup {s}
  BY Zenon, <1>1 DEF RefreshReused
<1>2. ASSUME NEW s \in SessionIds, Lapse(s)
      PROVE  /\ UNCHANGED <<userVars, owner, parent, rotatedTo, revoked, clientVars>>
             /\ lapsed' = lapsed \cup {s} /\ reused' = reused
  BY Zenon, <1>2 DEF Lapse
<1>3. ASSUME UNCHANGED vars
      PROVE  /\ UNCHANGED <<userVars, owner, parent, rotatedTo, revoked, clientVars>>
             /\ UNCHANGED <<lapsed, reused>>
  BY Zenon, <1>3 DEF vars, userVars, clientVars
<1>4. CASE Next
  BY Zenon, <1>1, <1>2, <1>4 DEF Next, Register, Login, Refresh
<1>. QED  BY Zenon, <1>3, <1>4

-----------------------------------------------------------------------------
(* The conjuncts, one by one.                                              *)

\* The types are kept.
LEMMA TypeInductive ==
  ASSUME IdentityInv, [Next]_vars
  PROVE  IdentityTypeOK'
<1> USE DEF userVars, sessionVars, clientVars
<1>1. /\ IdentityTypeOK /\ IssuedInOrder /\ OnlyKnown
      /\ \A s \in Issued : owner[s] \in Registered
      /\ Issued \subseteq SessionIds /\ Registered \subseteq UserIds
      /\ Grant \in Nat
  BY Zenon, IdentityAssumption
     DEF IdentityInv, RegisteredOnceAndWhole, Issued, Registered
<1>2. ASSUME NEW c \in Clients, NEW u \in UserIds, NEW p \in Phones, InsertUser(c, u, p)
      PROVE  IdentityTypeOK'
  BY Zenon, <1>1, <1>2 DEF InsertUser, Opens, IdentityTypeOK
<1>3. ASSUME NEW c \in Clients, NEW u \in UserIds, LoginRead(c, u)
      PROVE  IdentityTypeOK'
  BY Zenon, <1>1, <1>3 DEF LoginRead, Opens, IdentityTypeOK
<1>4. ASSUME NEW c \in Clients, NEW s \in SessionIds, RefreshRead(c, s)
      PROVE  IdentityTypeOK'
  <2>1. owner[s] \in UserIds
    BY Zenon, <1>1, <1>4 DEF RefreshRead
  <2>. QED  BY Zenon, <1>1, <1>4, <2>1 DEF RefreshRead, Opens, IdentityTypeOK
<1>5. ASSUME NEW c \in Clients, CommitUser(c)
      PROVE  IdentityTypeOK'
  <2>1. user[c] \in UserIds /\ number[c] \in Phones
    BY Zenon, <1>5, CommitKnows DEF CommitUser
  <2>2. owner' \in [SessionIds -> UserIds \cup {Nobody}]
    BY Zenon, <1>1, <1>5, <2>1, SessionAdded DEF CommitUser
  <2>3. parent' \in [SessionIds -> SessionIds \cup {0}]
    BY Zenon, <1>1, <1>5 DEF CommitUser, InsertSession, IdentityTypeOK
  <2>. QED  BY <1>1, <1>5, <2>1, <2>2, <2>3 DEF CommitUser, OpenAccount, Closes, IdentityTypeOK
<1>6. ASSUME NEW c \in Clients, CommitLogin(c)
      PROVE  IdentityTypeOK'
  <2>1. user[c] \in UserIds
    BY Zenon, <1>6, CommitKnows DEF CommitLogin
  <2>2. owner' \in [SessionIds -> UserIds \cup {Nobody}]
    BY Zenon, <1>1, <1>6, <2>1, SessionAdded DEF CommitLogin
  <2>3. parent' \in [SessionIds -> SessionIds \cup {0}]
    BY Zenon, <1>1, <1>6 DEF CommitLogin, InsertSession, IdentityTypeOK
  <2>. QED  BY Zenon, <1>1, <1>6, <2>1, <2>2, <2>3 DEF CommitLogin, Closes, IdentityTypeOK
<1>7. ASSUME NEW c \in Clients, CommitRefresh(c)
      PROVE  IdentityTypeOK'
  <2>1. user[c] \in UserIds /\ session[c] \in SessionIds
    BY Zenon, <1>1, <1>7, CommitKnows DEF CommitRefresh
  <2>2. owner' \in [SessionIds -> UserIds \cup {Nobody}] /\ NextId \in SessionIds
    BY Zenon, <1>1, <1>7, <2>1, SessionAdded DEF CommitRefresh
  <2>3. parent' \in [SessionIds -> SessionIds \cup {0}]
    BY Zenon, <1>1, <1>7, <2>1 DEF CommitRefresh, InsertSession, IdentityTypeOK
  <2>. QED  BY Zenon, <1>1, <1>7, <2>1, <2>2, <2>3
            DEF CommitRefresh, MarkRotated, Closes, IdentityTypeOK
<1>8. ASSUME NEW c \in Clients, Abort(c)
      PROVE  IdentityTypeOK'
  BY Zenon, <1>1, <1>8 DEF Abort, Closes, IdentityTypeOK
<1>9. ASSUME NEW s \in SessionIds, Logout(s)
      PROVE  IdentityTypeOK'
  BY Zenon, <1>1, <1>9 DEF Logout, IdentityTypeOK
<1>10. ASSUME NEW u \in UserIds, Ban(u)
       PROVE  IdentityTypeOK'
  BY Zenon, <1>1, <1>10 DEF Ban, IdentityTypeOK
<1>11. ASSUME UNCHANGED <<userVars, owner, parent, rotatedTo, revoked, clientVars>>,
              \/ UNCHANGED <<lapsed, reused>>
              \/ \E s \in SessionIds : lapsed' \in {lapsed, lapsed \cup {s}}
                                       /\ reused' \in {reused, reused \cup {s}}
       PROVE  IdentityTypeOK'
  BY Zenon, <1>1, <1>11 DEF IdentityTypeOK
<1>. QED  BY <1>2, <1>3, <1>4, <1>5, <1>6, <1>7, <1>8, <1>9, <1>10, <1>11, Steps, Zenon

\* A commit inserts one session for the user of its transaction.
LEMMA CommitInserts ==
  ASSUME IdentityInv, NEW c \in Clients, CommitUser(c) \/ CommitLogin(c) \/ CommitRefresh(c)
  PROVE  \E from \in Issued \cup {0} :
           /\ InsertSession(user[c], from) /\ user[c] \in UserIds
           /\ from = IF pc[c] = "refresh" THEN session[c] ELSE 0
BY Zenon, CommitKnows DEF CommitUser, CommitLogin, CommitRefresh

\* Ids are given out in order, successors point to sessions that exist, and a session
\* keeps its user.
LEMMA SessionsInductive ==
  ASSUME IdentityInv, [Next]_vars
  PROVE  /\ IssuedInOrder' /\ ParentsIssued' /\ Issued \subseteq Issued'
         /\ \A s \in Issued : owner'[s] = owner[s]
<1>1. IdentityTypeOK /\ IssuedInOrder /\ ParentsIssued
  BY Zenon DEF IdentityInv
<1>2. ASSUME NEW c \in Clients, CommitUser(c) \/ CommitLogin(c) \/ CommitRefresh(c)
      PROVE  /\ IssuedInOrder' /\ ParentsIssued' /\ Issued \subseteq Issued'
             /\ \A s \in Issued : owner'[s] = owner[s]
  <2>1. PICK from \in Issued \cup {0} : InsertSession(user[c], from) /\ user[c] \in UserIds
    BY Zenon, <1>2, CommitInserts
  <2>2. /\ Issued' = Issued \cup {NextId} /\ IssuedInOrder'
        /\ parent'[NextId] = from
        /\ \A s \in Issued : owner'[s] = owner[s] /\ parent'[s] = parent[s]
    BY Zenon, <1>1, <2>1, SessionAdded
  <2> HIDE DEF NextId
  <2>. QED  BY Zenon, <1>1, <2>1, <2>2 DEF ParentsIssued
<1>3. ASSUME UNCHANGED <<owner, parent>>
      PROVE  /\ IssuedInOrder' /\ ParentsIssued' /\ Issued \subseteq Issued'
             /\ \A s \in Issued : owner'[s] = owner[s]
  BY Zenon, <1>1, <1>3, SessionsKept
<1>. QED  BY Zenon, <1>2, <1>3, Steps
          DEF InsertUser, LoginRead, RefreshRead, Abort, Logout, Ban, sessionVars

\* Only registered users are active, and only issued sessions are revoked.
LEMMA KnownInductive ==
  ASSUME IdentityInv, [Next]_vars
  PROVE  OnlyKnown'
<1> USE DEF userVars, sessionVars, clientVars
<1>1. /\ OnlyKnown /\ IdentityTypeOK /\ Nobody \notin UserIds /\ Nobody \notin Phones
  BY Zenon, IdentityAssumption DEF IdentityInv
<1>2. Issued \subseteq Issued'
  BY Zenon, SessionsInductive
<1>3. ASSUME NEW c \in Clients, CommitUser(c)
      PROVE  OnlyKnown'
  <2>1. user[c] \in UserIds /\ number[c] # Nobody
    BY Zenon, <1>3, CommitKnows DEF CommitUser
  <2>2. Registered' = Registered \cup {user[c]}
    BY Zenon, <1>1, <1>3, <2>1 DEF CommitUser, Registered, IdentityTypeOK
  <2>. QED  BY Zenon, <1>1, <1>2, <1>3, <2>2 DEF CommitUser, OnlyKnown
<1>4. ASSUME UNCHANGED phone, active' \subseteq active, revoked' \subseteq revoked \cup Issued
      PROVE  OnlyKnown'
  BY Zenon, <1>1, <1>2, <1>4 DEF OnlyKnown, Registered
<1>5. ASSUME NEW c \in Clients, CommitRefresh(c)
      PROVE  revoked' \subseteq revoked \cup Issued
  BY Zenon, <1>5, CommitKnows DEF CommitRefresh, MarkRotated
<1>. QED  BY Zenon, <1>3, <1>4, <1>5, Steps
          DEF InsertUser, LoginRead, RefreshRead, CommitLogin, CommitRefresh, Abort, Logout, Ban

\* Registering one user: that user and that number are new.
LEMMA UserAdded ==
  ASSUME IdentityInv, NEW c \in Clients, CommitUser(c)
  PROVE  /\ user[c] \in UserIds \ Registered
         /\ Registered' = Registered \cup {user[c]}
         /\ phone'[user[c]] = number[c] /\ \A u \in Registered : phone'[u] = phone[u]
         /\ \A u \in Registered : phone[u] # number[c]
<1>1. /\ user[c] \in UserIds /\ user[c] \notin Registered
      /\ number[c] \in Phones /\ number[c] # Nobody
  BY Zenon, CommitKnows DEF CommitUser
<1>2. phone \in [UserIds -> Phones \cup {Nobody}]
  BY Zenon DEF IdentityInv, IdentityTypeOK
<1>3. phone' = [phone EXCEPT ![user[c]] = number[c]]
  BY Zenon DEF CommitUser
<1>4. \A u \in Registered : phone[u] # number[c]
  BY Zenon DEF IdentityInv, ClientsRight, Holds, CommitUser
<1>. QED  BY Zenon, <1>1, <1>2, <1>3, <1>4 DEF Registered

\* A client whose transaction is not the one that takes the step still holds what it held.
LEMMA OthersHold ==
  ASSUME IdentityInv, [Next]_vars, NEW d \in Clients,
         /\ pc'[d] = pc[d] /\ user'[d] = user[d]
         /\ number'[d] = number[d] /\ session'[d] = session[d],
         \/ UNCHANGED phone
         \/ \E c \in Clients \ {d} : CommitUser(c)
  PROVE  Holds(d)'
<1>1. Holds(d)
  BY Zenon DEF IdentityInv, ClientsRight
<1>2. Issued \subseteq Issued' /\ \A s \in Issued : owner'[s] = owner[s]
  BY Zenon, SessionsInductive
<1>3. CASE UNCHANGED phone
  BY Zenon, <1>1, <1>2, <1>3 DEF Holds, Registered
<1>4. ASSUME NEW c \in Clients \ {d}, CommitUser(c)
      PROVE  Holds(d)'
  <2>1. /\ user[c] \in UserIds \ Registered
        /\ Registered' = Registered \cup {user[c]}
        /\ phone'[user[c]] = number[c] /\ \A u \in Registered : phone'[u] = phone[u]
    BY Zenon, <1>4, UserAdded
  <2>2. pc[d] = "register" => user[d] # user[c] /\ number[d] # number[c]
    BY Zenon, <1>4 DEF IdentityInv, ClientsRight, Apart, CommitUser
  <2>. QED  BY Zenon, <1>1, <1>2, <2>1, <2>2 DEF Holds
<1>. QED  BY Zenon, <1>3, <1>4

\* What the clients hold stays right.
LEMMA ClientsInductive ==
  ASSUME IdentityInv, [Next]_vars
  PROVE  ClientsRight'
<1> USE DEF userVars, sessionVars, clientVars
<1>1. /\ \A c \in Clients : Holds(c)
      /\ \A c, d \in Clients : c # d => Apart(c, d)
  BY Zenon DEF IdentityInv, ClientsRight
<1>2. /\ pc \in [Clients -> {"idle", "register", "login", "refresh"}]
      /\ user \in [Clients -> UserIds \cup {Nobody}]
      /\ number \in [Clients -> Phones \cup {Nobody}]
      /\ session \in [Clients -> SessionIds \cup {0}]
  BY Zenon DEF IdentityInv, IdentityTypeOK
<1>3. Issued \subseteq Issued' /\ \A s \in Issued : owner'[s] = owner[s]
  BY Zenon, SessionsInductive
<1>4. ASSUME NEW c \in Clients, NEW st, NEW u, NEW p, NEW s,
             /\ pc' = [pc EXCEPT ![c] = st] /\ user' = [user EXCEPT ![c] = u]
             /\ number' = [number EXCEPT ![c] = p] /\ session' = [session EXCEPT ![c] = s],
             UNCHANGED phone \/ CommitUser(c),
             Holds(c)', \A d \in Clients \ {c} : Apart(c, d)' /\ Apart(d, c)'
      PROVE  ClientsRight'
  <2>1. \A d \in Clients \ {c} : /\ pc'[d] = pc[d] /\ user'[d] = user[d]
                                 /\ number'[d] = number[d] /\ session'[d] = session[d]
    BY Zenon, <1>2, <1>4
  <2>2. \A d \in Clients \ {c} : Holds(d)'
    BY Zenon, <1>4, <2>1, OthersHold
  <2>3. \A d, e \in Clients \ {c} : d # e => Apart(d, e)'
    BY <1>1, <2>1 DEF Apart
  <2>. QED  BY Zenon, <1>4, <2>2, <2>3 DEF ClientsRight
<1>5. ASSUME NEW c \in Clients, NEW u \in UserIds, NEW p \in Phones,
             InsertUser(c, u, p)
      PROVE  ClientsRight'
  <2>1. /\ pc' = [pc EXCEPT ![c] = "register"] /\ user' = [user EXCEPT ![c] = u]
        /\ number' = [number EXCEPT ![c] = p] /\ session' = [session EXCEPT ![c] = 0]
        /\ UNCHANGED phone
    BY Zenon, <1>5 DEF InsertUser, Opens
  <2>2. Holds(c)'
    BY Zenon, <1>2, <1>5, <2>1 DEF InsertUser, NumberFree, Holds, Registered
  <2>3. \A d \in Clients \ {c} : Apart(c, d)' /\ Apart(d, c)'
    BY Zenon, <1>2, <1>5, <2>1 DEF InsertUser, NumberFree, Apart
  <2>. QED  BY Zenon, <1>4, <2>1, <2>2, <2>3
<1>6. ASSUME NEW c \in Clients, NEW u \in UserIds, LoginRead(c, u)
      PROVE  ClientsRight'
  <2>1. /\ pc' = [pc EXCEPT ![c] = "login"] /\ user' = [user EXCEPT ![c] = u]
        /\ number' = [number EXCEPT ![c] = Nobody] /\ session' = [session EXCEPT ![c] = 0]
        /\ UNCHANGED phone
    BY Zenon, <1>6 DEF LoginRead, Opens
  <2>2. u \in Registered
    BY Zenon, <1>6 DEF LoginRead, IdentityInv, OnlyKnown
  <2>3. Holds(c)'
    BY Zenon, <1>2, <2>1, <2>2 DEF Holds, Registered
  <2>4. \A d \in Clients \ {c} : Apart(c, d)' /\ Apart(d, c)'
    BY Zenon, <1>2, <2>1 DEF Apart
  <2>. QED  BY Zenon, <1>4, <2>1, <2>3, <2>4
<1>7. ASSUME NEW c \in Clients, NEW s \in SessionIds, RefreshRead(c, s)
      PROVE  ClientsRight'
  <2>1. /\ pc' = [pc EXCEPT ![c] = "refresh"] /\ user' = [user EXCEPT ![c] = owner[s]]
        /\ number' = [number EXCEPT ![c] = Nobody] /\ session' = [session EXCEPT ![c] = s]
        /\ UNCHANGED phone /\ s \in Issued
    BY Zenon, <1>7 DEF RefreshRead, Opens
  <2>2. Holds(c)'
    BY Zenon, <1>2, <1>3, <2>1 DEF Holds
  <2>3. \A d \in Clients \ {c} : Apart(c, d)' /\ Apart(d, c)'
    BY Zenon, <1>2, <2>1 DEF Apart
  <2>. QED  BY Zenon, <1>4, <2>1, <2>2, <2>3
<1>8. ASSUME NEW c \in Clients,
             CommitUser(c) \/ CommitLogin(c) \/ CommitRefresh(c) \/ Abort(c)
      PROVE  ClientsRight'
  <2>1. /\ pc' = [pc EXCEPT ![c] = "idle"] /\ user' = [user EXCEPT ![c] = Nobody]
        /\ number' = [number EXCEPT ![c] = Nobody] /\ session' = [session EXCEPT ![c] = 0]
        /\ UNCHANGED phone \/ CommitUser(c)
    BY Zenon, <1>8 DEF CommitUser, CommitLogin, CommitRefresh, Abort, Closes
  <2>2. Holds(c)'
    BY Zenon, <1>2, <2>1 DEF Holds
  <2>3. \A d \in Clients \ {c} : Apart(c, d)' /\ Apart(d, c)'
    BY Zenon, <1>2, <2>1 DEF Apart
  <2>. QED  BY Zenon, <1>4, <2>1, <2>2, <2>3
<1>9. ASSUME UNCHANGED clientVars, UNCHANGED phone
      PROVE  ClientsRight'
  <2>1. \A d \in Clients : Holds(d)'
    BY Zenon, <1>9, OthersHold
  <2>2. \A d, e \in Clients : d # e => Apart(d, e)'
    BY Zenon, <1>1, <1>9 DEF Apart
  <2>. QED  BY Zenon, <2>1, <2>2 DEF ClientsRight
<1>. QED  BY Zenon, <1>5, <1>6, <1>7, <1>8, <1>9, Steps DEF Logout, Ban

\* Registration stays whole: the user, the account, the grant and the first session come
\* together.
LEMMA WholeInductive ==
  ASSUME IdentityInv, [Next]_vars
  PROVE  RegisteredOnceAndWhole'
<1> USE DEF userVars, sessionVars, clientVars
<1>1. /\ \A u, v \in Registered : phone[u] = phone[v] => u = v
      /\ \A u \in UserIds : balance[u] = IF u \in Registered THEN Grant ELSE 0
      /\ issued = Grant * Cardinality(Registered)
      /\ \A s \in Issued : owner[s] \in Registered
  BY Zenon DEF IdentityInv, RegisteredOnceAndWhole
<1>2. /\ IdentityTypeOK /\ IssuedInOrder /\ Grant \in Nat
      /\ Cardinality(Registered) \in Nat
  BY Zenon, IdentityAssumption, Finite, FS_CardinalityType DEF IdentityInv
<1>3. ASSUME NEW c \in Clients, CommitUser(c) \/ CommitLogin(c) \/ CommitRefresh(c)
      PROVE  \A s \in Issued' : owner'[s] \in Registered \cup {user[c]}
  <2>1. PICK from : InsertSession(user[c], from) /\ user[c] \in UserIds
    BY Zenon, <1>3, CommitInserts
  <2>2. /\ Issued' = Issued \cup {NextId} /\ owner'[NextId] = user[c]
        /\ \A s \in Issued : owner'[s] = owner[s]
    BY Zenon, <1>2, <2>1, SessionAdded
  <2> HIDE DEF NextId
  <2>. QED  BY Zenon, <1>1, <2>2
<1>4. ASSUME NEW c \in Clients, CommitUser(c)
      PROVE  RegisteredOnceAndWhole'
  <2>1. /\ user[c] \in UserIds \ Registered
        /\ Registered' = Registered \cup {user[c]}
        /\ phone'[user[c]] = number[c] /\ \A u \in Registered : phone'[u] = phone[u]
        /\ \A u \in Registered : phone[u] # number[c]
    BY Zenon, <1>4, UserAdded
  <2>2. \A u, v \in Registered' : phone'[u] = phone'[v] => u = v
    BY <1>1, <2>1
  <2>3. \A u \in UserIds : balance'[u] = IF u \in Registered' THEN Grant ELSE 0
    BY Zenon, <1>1, <1>2, <1>4, <2>1 DEF CommitUser, OpenAccount, IdentityTypeOK
  <2>4. issued' = Grant * Cardinality(Registered')
    <3> DEFINE n == Cardinality(Registered)
    <3>1. Cardinality(Registered') = n + 1
      BY Zenon, <2>1, Finite, FS_AddElement
    <3>2. issued' = Grant * n + Grant
      BY Zenon, <1>1, <1>4 DEF CommitUser, OpenAccount
    <3>3. n \in Nat
      BY Zenon, <1>2
    <3> HIDE DEF n
    <3>4. Grant * n + Grant = Grant * (n + 1)
      BY <1>2, <3>3
    <3>. QED  BY Zenon, <3>1, <3>2, <3>4
  <2>5. \A s \in Issued' : owner'[s] \in Registered'
    BY Zenon, <1>3, <1>4, <2>1
  <2>. QED  BY Zenon, <2>2, <2>3, <2>4, <2>5 DEF RegisteredOnceAndWhole
<1>5. ASSUME UNCHANGED <<phone, balance, issued>>, \A s \in Issued' : owner'[s] \in Registered
      PROVE  RegisteredOnceAndWhole'
  BY Zenon, <1>1, <1>5 DEF RegisteredOnceAndWhole, Registered
<1>6. ASSUME NEW c \in Clients, CommitLogin(c) \/ CommitRefresh(c)
      PROVE  RegisteredOnceAndWhole'
  <2>1. user[c] \in Registered
    BY Zenon, <1>6, CommitKnows DEF CommitLogin, CommitRefresh
  <2>2. UNCHANGED <<phone, balance, issued>>
    BY Zenon, <1>6 DEF CommitLogin, CommitRefresh
  <2>3. Registered \cup {user[c]} = Registered
    BY Zenon, <2>1
  <2>. QED  BY Zenon, <1>3, <1>5, <1>6, <2>2, <2>3
<1>7. ASSUME UNCHANGED <<phone, balance, issued, owner, parent>>
      PROVE  RegisteredOnceAndWhole'
  BY Zenon, <1>1, <1>5, <1>7, SessionsKept
<1>. QED  BY Zenon, <1>4, <1>6, <1>7, Steps
          DEF InsertUser, LoginRead, RefreshRead, Abort, Logout, Ban

\* The refreshes that hold session s.
Refreshing(s) == {c \in Clients : session[c] = s}

\* What TokensMintNothingLater says of one session.
MintsRight(s) ==
  /\ Successors(s) # {} => s \in revoked /\ rotatedTo[s] \in Successors(s)
  /\ \A t \in Successors(s) : owner[t] = owner[s]
  /\ Cardinality(Successors(s)) + Cardinality(Refreshing(s)) <= Cardinality(Clients)

\* It is what it says of each, before and after a step.
LEMMA MintsPointwise ==
  /\ TokensMintNothingLater <=> \A s \in Issued : MintsRight(s)
  /\ TokensMintNothingLater' <=> \A s \in Issued' : MintsRight(s)'
BY Zenon DEF TokensMintNothingLater, MintsRight, Refreshing

\* The two sets are finite, and no more refreshes hold a session than there are clients.
LEMMA CountTypes ==
  ASSUME NEW s
  PROVE  /\ Cardinality(Successors(s)) \in Nat /\ Cardinality(Refreshing(s)) \in Nat
         /\ IsFiniteSet(Successors(s)) /\ IsFiniteSet(Refreshing(s))
         /\ Cardinality(Refreshing(s)) <= Cardinality(Clients) /\ Cardinality(Clients) \in Nat
         /\ Cardinality(Refreshing(s)') <= Cardinality(Clients)
         /\ Cardinality(Refreshing(s)') \in Nat
<1>1. /\ Successors(s) \subseteq Issued
      /\ Refreshing(s) \subseteq Clients /\ Refreshing(s)' \subseteq Clients
  BY Zenon DEF Successors, Refreshing
<1>2. IsFiniteSet(Issued) /\ IsFiniteSet(Clients)
  BY Zenon, Finite
<1>3. IsFiniteSet(Successors(s)) /\ IsFiniteSet(Refreshing(s))
  BY Zenon, <1>1, <1>2, FS_Subset
<1>4. /\ Cardinality(Refreshing(s)) <= Cardinality(Clients)
      /\ Cardinality(Refreshing(s)') <= Cardinality(Clients)
      /\ IsFiniteSet(Refreshing(s)')
  BY Zenon, <1>1, <1>2, FS_Subset
<1>. QED  BY Zenon, <1>2, <1>3, <1>4, FS_CardinalityType

\* Old tokens mint nothing: only a refresh that read its session while it was live adds a
\* successor, and it gives up its place among those in flight for it.
LEMMA MintsInductive ==
  ASSUME IdentityInv, [Next]_vars
  PROVE  TokensMintNothingLater'
<1> USE DEF userVars, sessionVars, clientVars
<1>1. \A s \in Issued : MintsRight(s)
  BY Zenon, MintsPointwise DEF IdentityInv
<1>2. /\ IdentityTypeOK /\ IssuedInOrder /\ ParentsIssued /\ 0 \notin Issued
      /\ revoked \subseteq Issued /\ Issued \subseteq SessionIds
  BY Zenon, Finite DEF IdentityInv, OnlyKnown, Issued
<1>3. /\ session \in [Clients -> SessionIds \cup {0}]
      /\ rotatedTo \in [SessionIds -> SessionIds \cup {0}]
      /\ pc \in [Clients -> {"idle", "register", "login", "refresh"}]
  BY Zenon, <1>2 DEF IdentityTypeOK
<1>4. \A c \in Clients : session[c] \in Issued \cup {0}
  BY Zenon, <1>3 DEF IdentityInv, ClientsRight, Holds
<1>5. ASSUME UNCHANGED <<owner, parent, rotatedTo>>, revoked \subseteq revoked',
             NEW s \in Issued, Refreshing(s)' \subseteq Refreshing(s)
      PROVE  MintsRight(s)'
  <2>1. Successors(s)' = Successors(s)
    BY Zenon, <1>5, SessionsKept
  <2>2. Cardinality(Refreshing(s)') <= Cardinality(Refreshing(s))
    BY Zenon, <1>5, CountTypes, FS_Subset
  <2>3. Cardinality(Successors(s)') + Cardinality(Refreshing(s)') <= Cardinality(Clients)
    BY <1>1, <2>1, <2>2, CountTypes DEF MintsRight
  <2>. QED  BY <1>1, <1>5, <2>1, <2>3 DEF MintsRight
<1>6. ASSUME NEW c \in Clients, NEW t \in SessionIds, RefreshRead(c, t)
      PROVE  TokensMintNothingLater'
  <2>1. /\ t \in Issued /\ t \notin revoked
        /\ UNCHANGED <<owner, parent, rotatedTo, revoked>>
        /\ session' = [session EXCEPT ![c] = t] /\ pc[c] = "idle"
    BY Zenon, <1>6 DEF RefreshRead, Opens
  <2>2. Issued' = Issued /\ \A s : Successors(s)' = Successors(s)
    BY Zenon, <2>1, SessionsKept
  <2>3. MintsRight(t)'
    <3>1. Successors(t) = {}
      BY Zenon, <1>1, <2>1 DEF MintsRight
    <3>2. Cardinality(Successors(t)') = 0
      BY Zenon, <2>2, <3>1, FS_EmptySet
    <3>3. Cardinality(Successors(t)') + Cardinality(Refreshing(t)') <= Cardinality(Clients)
      BY <3>2, CountTypes
    <3>. QED  BY Zenon, <2>2, <3>1, <3>3 DEF MintsRight
  <2>4. ASSUME NEW s \in Issued, s # t PROVE MintsRight(s)'
    <3>1. Refreshing(s)' \subseteq Refreshing(s)
      BY Zenon, <1>3, <2>1, <2>4 DEF Refreshing
    <3>. QED  BY Zenon, <1>5, <2>1, <3>1
  <2>. QED  BY Zenon, <2>2, <2>3, <2>4, MintsPointwise
<1>7. ASSUME NEW c \in Clients, CommitUser(c) \/ CommitLogin(c) \/ CommitRefresh(c)
      PROVE  TokensMintNothingLater'
  <2>1. PICK from \in Issued \cup {0} :
          /\ InsertSession(user[c], from) /\ user[c] \in UserIds
          /\ from = IF pc[c] = "refresh" THEN session[c] ELSE 0
    BY Zenon, <1>7, CommitInserts
  <2>0. PICK n : n = NextId
    BY Zenon
  <2>2. /\ n \in SessionIds /\ n \notin Issued /\ Issued' = Issued \cup {n}
        /\ owner'[n] = user[c] /\ parent'[n] = from
        /\ \A s \in Issued : owner'[s] = owner[s] /\ parent'[s] = parent[s]
        /\ \A s : Successors(s)' = IF s = from THEN Successors(s) \cup {n} ELSE Successors(s)
    BY Zenon, <1>2, <2>0, <2>1, SessionAdded
  <2>3. /\ session' = [session EXCEPT ![c] = 0] /\ pc[c] # "idle"
        /\ pc[c] # "refresh" => UNCHANGED <<rotatedTo, revoked>>
        /\ pc[c] = "refresh" => /\ rotatedTo' = [rotatedTo EXCEPT ![session[c]] = n]
                                /\ revoked' = revoked \cup {session[c]}
    BY Zenon, <1>7, <2>0 DEF CommitUser, CommitLogin, CommitRefresh, MarkRotated, Closes
  <2>4. ASSUME NEW s \in Issued, s # from PROVE MintsRight(s)'
    <3>1. Successors(s)' = Successors(s) /\ \A t \in Successors(s) : t \in Issued
      BY Zenon, <2>2, <2>4 DEF Successors
    <3>2. Refreshing(s)' \subseteq Refreshing(s)
      BY Zenon, <1>2, <1>3, <2>3 DEF Refreshing
    <3>3. Cardinality(Refreshing(s)') <= Cardinality(Refreshing(s))
      BY Zenon, <3>2, CountTypes, FS_Subset
    <3>4. Cardinality(Successors(s)') + Cardinality(Refreshing(s)') <= Cardinality(Clients)
      BY <1>1, <3>1, <3>3, CountTypes DEF MintsRight
    <3>5. rotatedTo'[s] = rotatedTo[s] /\ revoked \subseteq revoked'
      BY Zenon, <1>2, <1>3, <2>1, <2>3, <2>4
    <3>. QED  BY Zenon, <1>1, <2>2, <3>1, <3>4, <3>5 DEF MintsRight
  <2>5. ASSUME from # 0 PROVE MintsRight(from)'
    <3>1. /\ pc[c] = "refresh" /\ session[c] = from /\ from \in Issued
          /\ user[c] = owner[from]
      BY Zenon, <1>7, <2>1, <2>3, <2>5, CommitKnows
    <3>2. Successors(from)' = Successors(from) \cup {n}
      BY Zenon, <2>2
    <3>3. /\ n \notin Successors(from) /\ \A t \in Successors(from) : t \in Issued
      BY Zenon, <2>2 DEF Successors
    <3>4. Cardinality(Successors(from)') = Cardinality(Successors(from)) + 1
      BY Zenon, <3>2, <3>3, CountTypes, FS_AddElement
    <3>5. Refreshing(from)' = Refreshing(from) \ {c} /\ c \in Refreshing(from)
      BY Zenon, <1>2, <1>3, <2>3, <3>1 DEF Refreshing
    <3>6. Cardinality(Refreshing(from)') = Cardinality(Refreshing(from)) - 1
      BY ZenonT(30), <3>5, CountTypes, FS_RemoveElement
    <3>7. Cardinality(Successors(from)') + Cardinality(Refreshing(from)') <= Cardinality(Clients)
      BY <1>1, <3>1, <3>4, <3>6, CountTypes DEF MintsRight
    <3>8. from \in revoked' /\ rotatedTo'[from] = n
      BY Zenon, <1>2, <1>3, <2>3, <3>1
    <3>9. \A t \in Successors(from)' : owner'[t] = owner'[from]
      BY Zenon, <1>1, <2>2, <3>1, <3>2, <3>3 DEF MintsRight
    <3>. QED  BY Zenon, <3>2, <3>7, <3>8, <3>9 DEF MintsRight
  <2>6. MintsRight(n)'
    <3>1. Successors(n)' = {}
      <4>1. n # 0 /\ n # from
        BY Zenon, <2>1, <2>2, Finite
      <4>2. Successors(n)' = Successors(n)
        BY Zenon, <2>2, <4>1
      <4>3. Successors(n) = {}
        BY <1>2, <2>2, <4>1 DEF Successors, ParentsIssued
      <4>. QED  BY Zenon, <4>2, <4>3
    <3>2. Cardinality(Successors(n)') = 0
      BY Zenon, <3>1, FS_EmptySet
    <3>3. Cardinality(Successors(n)') + Cardinality(Refreshing(n)') <= Cardinality(Clients)
      BY <3>2, CountTypes
    <3>. QED  BY Zenon, <3>1, <3>3 DEF MintsRight
  <2>7. ASSUME NEW s \in Issued' PROVE MintsRight(s)'
    <3>1. CASE s = n
      BY Zenon, <2>6, <3>1
    <3>2. CASE s = from
      <4>1. from # 0
        BY Zenon, <1>2, <2>2, <3>2, Finite
      <4>. QED  BY Zenon, <2>5, <3>2, <4>1
    <3>3. CASE s # n /\ s # from
      BY Zenon, <2>2, <2>4, <3>3
    <3>. QED  BY Zenon, <3>1, <3>2, <3>3
  <2>. QED  BY Zenon, <2>7, MintsPointwise
<1>8. ASSUME UNCHANGED <<owner, parent, rotatedTo>>, revoked \subseteq revoked',
             \A c \in Clients : session'[c] \in {session[c], 0}
      PROVE  TokensMintNothingLater'
  <2>1. Issued' = Issued
    BY Zenon, <1>8, SessionsKept
  <2>2. \A s \in Issued : Refreshing(s)' \subseteq Refreshing(s)
    BY Zenon, <1>2, <1>8 DEF Refreshing
  <2>. QED  BY Zenon, <1>5, <1>8, <2>1, <2>2, MintsPointwise
<1>9. ASSUME NEW c \in Clients,
             \/ \E u \in UserIds, p \in Phones : InsertUser(c, u, p)
             \/ \E u \in UserIds : LoginRead(c, u)
             \/ Abort(c)
      PROVE  TokensMintNothingLater'
  <2>1. /\ UNCHANGED <<owner, parent, rotatedTo, revoked>>
        /\ session' = [session EXCEPT ![c] = 0]
    BY Zenon, <1>9 DEF InsertUser, LoginRead, Abort, Opens, Closes
  <2>. QED  BY Zenon, <1>3, <1>8, <2>1
<1>10. ASSUME \/ \E s \in SessionIds : Logout(s)
              \/ \E u \in UserIds : Ban(u)
              \/ UNCHANGED <<userVars, owner, parent, rotatedTo, revoked, clientVars>>
       PROVE  TokensMintNothingLater'
  <2>1. /\ UNCHANGED <<owner, parent, rotatedTo, session>> /\ revoked \subseteq revoked'
    BY Zenon, <1>10 DEF Logout, Ban
  <2>. QED  BY Zenon, <1>8, <2>1
<1>. QED  BY <1>6, <1>7, <1>9, <1>10, Steps, Zenon

-----------------------------------------------------------------------------
(* The theorems.                                                           *)

\* The invariant holds before anyone has registered.
LEMMA InitRight ==
  ASSUME Init
  PROVE  IdentityInv
<1> USE DEF Init
<1>1. Issued = {} /\ Registered = {} /\ Cardinality({}) = 0
  BY Zenon, FS_EmptySet DEF Issued, Registered
<1>2. IdentityTypeOK
  BY Zenon, IdentityAssumption DEF IdentityTypeOK
<1>3. IssuedInOrder /\ ParentsIssued /\ OnlyKnown
  <2>1. 1 .. 0 = {}
    OBVIOUS
  <2>. QED  BY Zenon, <1>1, <2>1 DEF IssuedInOrder, ParentsIssued, OnlyKnown
<1>4. ClientsRight
  BY Zenon DEF ClientsRight, Holds, Apart
<1>5. RegisteredOnceAndWhole /\ TokensMintNothingLater
  BY <1>1, IdentityAssumption DEF RegisteredOnceAndWhole, TokensMintNothingLater
<1>. QED  BY Zenon, <1>2, <1>3, <1>4, <1>5 DEF IdentityInv

\* Every transaction of AuthService keeps the invariant, however the clients interleave.
THEOREM IdentityInvariant == Spec => []IdentityInv
<1>1. Init => IdentityInv
  BY Zenon, InitRight
<1>2. IdentityInv /\ [Next]_vars => IdentityInv'
  BY Zenon, TypeInductive, SessionsInductive, KnownInductive, ClientsInductive, WholeInductive,
     MintsInductive DEF IdentityInv
<1>. QED  BY <1>1, <1>2, PTL DEF Spec

\* AuthService.register: a number is registered once, and a user never exists without the
\* account, the grant and a session that belongs to them.
THEOREM RegistrationWhole == Spec => []RegisteredOnceAndWhole
<1>1. IdentityInv => RegisteredOnceAndWhole
  BY Zenon DEF IdentityInv
<1>. QED  BY <1>1, IdentityInvariant, PTL

\* AuthService.refresh: a session mints no more successors than there can be refreshes in
\* flight for it, although the UPDATE that marks it does not look at it again.
THEOREM TokensMintOnce == Spec => []TokensMintNothingLater
<1>1. IdentityInv => TokensMintNothingLater
  BY Zenon DEF IdentityInv
<1>. QED  BY <1>1, IdentityInvariant, PTL
=============================================================================
