------------------------------- MODULE Identity -------------------------------
(***************************************************************************)
(* Registration and sessions (AuthService): register, login, refresh and   *)
(* logout, each in one READ COMMITTED transaction, run by concurrent       *)
(* clients.  The PIN check of the same service is module PinGate.          *)
(*                                                                         *)
(* Registration leaves the question whether a phone number is taken to the *)
(* UNIQUE constraint of users.phone: a second INSERT waits for the first   *)
(* transaction and then fails.  A refresh reads the session of its token   *)
(* without a lock and, when it is live, inserts the successor and marks    *)
(* the session rotated without looking at it again.  A refresh with a      *)
(* token that is revoked already writes the revocation of all the user's   *)
(* sessions and raises, which rolls it back.                               *)
(***************************************************************************)
EXTENDS Integers, FiniteSets

CONSTANTS
  Clients,
  Nobody,           \* no user
  Phones,
  UserIds,
  Grant,            \* opening_balance
  MaxSessions       \* bound: sessions that are issued

SessionIds == 1 .. MaxSessions

ASSUME IdentityAssumption ==
  /\ IsFiniteSet(Clients) /\ IsFiniteSet(UserIds) /\ Nobody \notin UserIds \cup Phones
  /\ Grant \in Nat /\ MaxSessions \in Nat

VARIABLES
  phone,            \* users.phone, committed; Nobody for no row
  active,           \* the users whose status is ACTIVE
  balance,          \* the balance of each user's account; 0 before it is opened
  issued,           \* what the issuance account has paid out
  owner,            \* sessions.user_id, committed; Nobody for no row
  parent,           \* session -> the one it was rotated from; 0 for none
  rotatedTo,        \* sessions.rotated_to_id; 0 for NULL
  revoked,          \* the sessions with a revoked_at
  lapsed,           \* the sessions past their expires_at
  reused,           \* history: the sessions whose reuse was logged
  pc,               \* the transaction each client has open
  user,             \* the user that transaction is about
  number,           \* the phone number a registration has inserted
  session           \* the session a refresh has read

userVars == <<phone, active, balance, issued>>
sessionVars == <<owner, parent, rotatedTo, revoked, lapsed, reused>>
clientVars == <<pc, user, number, session>>
vars == <<phone, active, balance, issued, owner, parent, rotatedTo, revoked, lapsed,
          reused, pc, user, number, session>>

Init ==
  /\ phone = [u \in UserIds |-> Nobody]
  /\ active = {}
  /\ balance = [u \in UserIds |-> 0]
  /\ issued = 0
  /\ owner = [s \in SessionIds |-> Nobody]
  /\ parent = [s \in SessionIds |-> 0]
  /\ rotatedTo = [s \in SessionIds |-> 0]
  /\ revoked = {} /\ lapsed = {} /\ reused = {}
  /\ pc = [c \in Clients |-> "idle"]
  /\ user = [c \in Clients |-> Nobody]
  /\ number = [c \in Clients |-> Nobody]
  /\ session = [c \in Clients |-> 0]

Registered == {u \in UserIds : phone[u] # Nobody}
Issued == {s \in SessionIds : owner[s] # Nobody}
NextId == Cardinality(Issued) + 1
Successors(s) == {t \in Issued : parent[t] = s}

Opens(c, stage, u, p, s) ==
  /\ pc[c] = "idle"
  /\ pc' = [pc EXCEPT ![c] = stage]
  /\ user' = [user EXCEPT ![c] = u]
  /\ number' = [number EXCEPT ![c] = p]
  /\ session' = [session EXCEPT ![c] = s]

Closes(c) ==
  /\ pc' = [pc EXCEPT ![c] = "idle"]
  /\ user' = [user EXCEPT ![c] = Nobody]
  /\ number' = [number EXCEPT ![c] = Nobody]
  /\ session' = [session EXCEPT ![c] = 0]

\* _start_session and the successor of a refresh: a new row.
InsertSession(u, from) ==
  /\ NextId \in SessionIds
  /\ owner' = [owner EXCEPT ![NextId] = u]
  /\ parent' = [parent EXCEPT ![NextId] = from]

-----------------------------------------------------------------------------
(* Registration. *)

\* Mutant: the number is looked up before the INSERT, and is not UNIQUE.
NumberLookedUp(c, p) == \A u \in Registered : phone[u] # p

\* The UNIQUE index: no committed user has the number, and no open transaction
\* has inserted it (if one has, the INSERT waits for its end).
NumberFree(c, p) ==
  /\ \A u \in Registered : phone[u] # p
  /\ \A d \in Clients : number[d] # p

\* The user row is inserted under a new id.  (With a number that is taken the
\* INSERT raises, the call answers ConflictError and nothing changes.)
InsertUser(c, u, p) ==
  /\ u \notin Registered /\ \A d \in Clients : user[d] # u
  /\ NumberFree(c, p)
  /\ Opens(c, "register", u, p, 0)
  /\ UNCHANGED <<userVars, sessionVars>>

\* OpenAccountUseCase: the account, and the grant through the transfer use case.
OpenAccount(u) ==
  /\ balance' = [balance EXCEPT ![u] = Grant]
  /\ issued' = issued + Grant

\* The account is opened and funded from the issuance account, the first session
\* starts, and the whole registration commits.
CommitUser(c) ==
  /\ pc[c] = "register"
  /\ phone' = [phone EXCEPT ![user[c]] = number[c]]
  /\ active' = active \cup {user[c]}
  /\ OpenAccount(user[c])
  /\ InsertSession(user[c], 0)
  /\ Closes(c)
  /\ UNCHANGED <<rotatedTo, revoked, lapsed, reused>>

-----------------------------------------------------------------------------
(* Sessions. *)

\* login finds the user ACTIVE and the password right.
LoginRead(c, u) ==
  /\ u \in active
  /\ Opens(c, "login", u, Nobody, 0)
  /\ UNCHANGED <<userVars, sessionVars>>

CommitLogin(c) ==
  /\ pc[c] = "login"
  /\ InsertSession(user[c], 0)
  /\ Closes(c)
  /\ UNCHANGED <<userVars, rotatedTo, revoked, lapsed, reused>>

\* Mutant: refresh does not look at revoked_at.
RefreshReadAnyway(c, s) ==
  /\ s \in Issued \ lapsed
  /\ Opens(c, "refresh", owner[s], Nobody, s)
  /\ UNCHANGED <<userVars, sessionVars>>

\* refresh finds the session live.
RefreshRead(c, s) ==
  /\ s \in Issued \ (revoked \cup lapsed)
  /\ Opens(c, "refresh", owner[s], Nobody, s)
  /\ UNCHANGED <<userVars, sessionVars>>

\* The UPDATE has no predicate on what became of the session since it was read.
MarkRotated(s, successor) ==
  /\ rotatedTo' = [rotatedTo EXCEPT ![s] = successor]
  /\ revoked' = revoked \cup {s}

\* The successor and the mark on the old session commit together.
CommitRefresh(c) ==
  /\ pc[c] = "refresh"
  /\ InsertSession(user[c], session[c])
  /\ MarkRotated(session[c], NextId)
  /\ Closes(c)
  /\ UNCHANGED <<userVars, lapsed, reused>>

\* refresh finds the session revoked, logs the reuse, writes the revocation of
\* the user's sessions and raises: only the log entry stays.  (A session that
\* has merely expired is refused without a write.)
RefreshReused(c, s) ==
  /\ pc[c] = "idle"
  /\ s \in revoked
  /\ reused' = reused \cup {s}
  /\ UNCHANGED <<userVars, owner, parent, rotatedTo, revoked, lapsed, clientVars>>

\* logout: one conditional UPDATE.
Logout(s) ==
  /\ s \in Issued \ revoked
  /\ revoked' = revoked \cup {s}
  /\ UNCHANGED <<userVars, owner, parent, rotatedTo, lapsed, reused, clientVars>>

\* A transaction is lost before it commits.
Abort(c) ==
  /\ pc[c] # "idle"
  /\ Closes(c)
  /\ UNCHANGED <<userVars, sessionVars>>

\* A session passes its expires_at.
Lapse(s) ==
  /\ s \in Issued \ lapsed
  /\ lapsed' = lapsed \cup {s}
  /\ UNCHANGED <<userVars, owner, parent, rotatedTo, revoked, reused, clientVars>>

\* A ban in SafePay sets users.status and revokes the sessions it finds.
Ban(u) ==
  /\ u \in active
  /\ active' = active \ {u}
  /\ revoked' = revoked \cup {s \in Issued : owner[s] = u}
  /\ UNCHANGED <<phone, balance, issued, owner, parent, rotatedTo, lapsed, reused,
                 clientVars>>

\* The routes under /auth.
Register(c) == (\E u \in UserIds, p \in Phones : InsertUser(c, u, p)) \/ CommitUser(c)
Login(c) == (\E u \in UserIds : LoginRead(c, u)) \/ CommitLogin(c)
Refresh(c) ==
  (\E s \in SessionIds : RefreshRead(c, s) \/ RefreshReused(c, s)) \/ CommitRefresh(c)

Next ==
  \/ \E c \in Clients : Register(c) \/ Login(c) \/ Refresh(c) \/ Abort(c)
  \/ \E s \in SessionIds : Logout(s) \/ Lapse(s)
  \/ \E u \in UserIds : Ban(u)

Spec == Init /\ [][Next]_vars

-----------------------------------------------------------------------------
IdentityTypeOK ==
  /\ phone \in [UserIds -> Phones \cup {Nobody}]
  /\ active \subseteq UserIds
  /\ balance \in [UserIds -> Nat] /\ issued \in Nat
  /\ owner \in [SessionIds -> UserIds \cup {Nobody}]
  /\ parent \in [SessionIds -> SessionIds \cup {0}]
  /\ rotatedTo \in [SessionIds -> SessionIds \cup {0}]
  /\ revoked \subseteq SessionIds /\ lapsed \subseteq SessionIds
  /\ reused \subseteq SessionIds
  /\ pc \in [Clients -> {"idle", "register", "login", "refresh"}]
  /\ user \in [Clients -> UserIds \cup {Nobody}]
  /\ number \in [Clients -> Phones \cup {Nobody}]
  /\ session \in [Clients -> SessionIds \cup {0}]

\* A number is registered once, and all of a registration or none of it exists:
\* every user has an account with the opening grant, the issuance account has
\* paid exactly those grants, and sessions belong to users that exist.
RegisteredOnceAndWhole ==
  /\ \A u, v \in Registered : phone[u] = phone[v] => u = v
  /\ \A u \in UserIds : balance[u] = IF u \in Registered THEN Grant ELSE 0
  /\ issued = Grant * Cardinality(Registered)
  /\ \A s \in Issued : owner[s] \in Registered

\* A token mints successors only for refreshes that had read it while it was
\* live: a session with a successor is revoked, names one of its successors and
\* shares its user with all of them, and however often and in whatever order
\* old tokens are presented, a session has no more successors than there are
\* refreshes that can be in flight at once.
TokensMintNothingLater ==
  \A s \in Issued :
    /\ Successors(s) # {} => s \in revoked /\ rotatedTo[s] \in Successors(s)
    /\ \A t \in Successors(s) : owner[t] = owner[s]
    /\ Cardinality(Successors(s)) + Cardinality({c \in Clients : session[c] = s})
         <= Cardinality(Clients)
=============================================================================
