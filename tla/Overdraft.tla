------------------------------ MODULE Overdraft ------------------------------
(***************************************************************************)
(* The community overdraft ("Spot-Me"): sponsors fund pools, a send that   *)
(* is short draws exactly the shortfall from a pool, and every later       *)
(* credit to the borrower repays the pool out of at most half of it.       *)
(*                                                                         *)
(* This is OverdraftService composed with the undo hold of module Holds,   *)
(* one action per database transaction: POST /transfers goes through       *)
(* OverdraftService.send, and the lien runs inside every TransferUseCase   *)
(* that credits a user: a settled hold, an undo, any other payment.  A     *)
(* batch of the scheduler worker is a sequence of SettleHold and           *)
(* SettleFails.  A send is two steps, since it lists the sender's grants   *)
(* before it waits for the account rows.                                   *)
(***************************************************************************)
EXTENDS Holds, Sequences

CONSTANTS
  Pools,           \* OVERDRAFT_POOL accounts, one per pool
  Sponsor,         \* pool -> the account of its sponsor
  Deposits,        \* the amounts a sponsor pays in
  Offers,          \* the grants sponsors may make: [pool, to, max]
  Payments,        \* other transfers between users: [from, to, amount]
  MaxDraw,         \* max_draw_minor
  LienBasisPoints  \* LIEN_SWEEP_BASIS_POINTS

Users == Accounts \ (Pools \cup {Pending})

\* The basis points of a whole credit, a hundred to the percent.
Whole == 100 * 100

ASSUME OverdraftAssumption ==
  /\ Pools \subseteq Accounts \ {Pending}
  /\ Sponsor \in [Pools -> Users]
  /\ Deposits \subseteq Nat \ {0}
  /\ Offers \subseteq [pool : Pools, to : Users, max : Nat \ {0}]
  /\ Payments \subseteq [from : Users, to : Users, amount : Nat \ {0}]
  /\ \A p \in Pools : Opening[p] = 0
ASSUME OverdraftLimitsAssumption == MaxDraw \in Nat /\ LienBasisPoints \in 0 .. Whole
ASSUME OverdraftSendsAssumption ==
  Sender \in [HoldIds -> Users] /\ Receiver \in [HoldIds -> Users]

VARIABLES
  deposited,  \* pool -> what OVERDRAFT_FUND transfers paid in, 0 before create_pool
  grants,     \* overdraft_grants by created_at
  loans,      \* overdraft_loans by created_at: [hold, pool, borrower, principal, outstanding]
  listed      \* hold -> how many grants there were when its send, now open, listed them

poolVars == <<deposited, grants, loans>>
overdraftVars == <<holdVars, poolVars, listed>>

NotSending == -1

OverdraftInit ==
  /\ HoldsInit
  /\ deposited = [p \in Pools |-> 0]
  /\ grants = << >>
  /\ loans = << >>
  /\ listed = [h \in HoldIds |-> NotSending]

-----------------------------------------------------------------------------
(* The sponsor.                                                            *)

\* create_pool, the first time, and fund_pool: the sponsor's own money moves to the
\* pool's account.  A pool account is not a USER account, so no lien is taken.
Fund(p, m) ==
  /\ Sponsor[p] \notin closed
  /\ balance[Sponsor[p]] >= m
  /\ balance' = [balance EXCEPT ![Sponsor[p]] = @ - m, ![p] = @ + m]
  /\ deposited' = [deposited EXCEPT ![p] = @ + m]
  /\ UNCHANGED <<closed, hold, task, attempts, grants, loans, listed>>

\* grant_access: a pool's sponsor lets one more person draw on it.
Grant(o) ==
  /\ deposited[o.pool] > 0
  /\ o.to \notin closed
  /\ o.to # Sponsor[o.pool]
  /\ o.max <= MaxDraw
  /\ \A i \in DOMAIN grants : <<grants[i].pool, grants[i].to>> # <<o.pool, o.to>>
  /\ grants' = Append(grants, o)
  /\ UNCHANGED <<holdVars, deposited, loans, listed>>

-----------------------------------------------------------------------------
(* The borrower's send.                                                    *)

Shortfall(h) == IF Amount[h] > balance[Sender[h]] THEN Amount[h] - balance[Sender[h]] ELSE 0

\* Mutant: the draw limit of the grant is not looked at.
CoversAnyDraw(g, h) == g.to = Sender[h] /\ Shortfall(h) <= balance[g.pool]

\* Mutant: the draw is decided without the locked balance of the pool, on whatever it
\* was when the grants were listed.
CoversFromEmpty(g, h) == g.to = Sender[h] /\ Shortfall(h) <= g.max

\* A grant that can cover the shortfall of send h.
Covers(g, h) ==
  /\ g.to = Sender[h]
  /\ Shortfall(h) <= g.max
  /\ Shortfall(h) <= balance[g.pool]

\* The first of the grants the send has listed that covers it, if there is one.  The
\* balances are those of the locked rows, whatever they were when it listed them.
Selected(h) ==
  LET able == {i \in DOMAIN grants : i <= listed[h] /\ Covers(grants[i], h)}
  IN  {grants[i].pool : i \in {i \in able : \A j \in able : i <= j}}

\* OverdraftService.send begins: active_grants_for_borrower, without a lock.  The
\* caller's user row is locked by run_pin_protected, so a user has one send open at a
\* time, and the created_at of their loans is in the order in which they commit.
ListGrants(h) ==
  /\ hold[h] = "none"
  /\ \A g \in HoldIds : Sender[g] = Sender[h] => listed[g] = NotSending
  /\ listed' = [listed EXCEPT ![h] = Len(grants)]
  /\ UNCHANGED <<holdVars, poolVars>>

SendEnds(h) ==
  /\ listed[h] # NotSending
  /\ listed' = [listed EXCEPT ![h] = NotSending]

\* With the rows locked there is enough money: an ordinary undo hold.
PlainSend(h) ==
  /\ SendEnds(h)
  /\ Shortfall(h) = 0
  /\ Send(h)
  /\ UNCHANGED poolVars

\* With the rows locked there is a shortfall: the draw, the loan and the hold in one
\* transaction.
SpotSend(h) ==
  /\ SendEnds(h)
  /\ hold[h] = "none"
  /\ Sender[h] \notin closed
  /\ Shortfall(h) \in 1 .. MaxDraw
  /\ \E p \in Selected(h) :
       /\ balance' = [balance EXCEPT ![p] = @ - Shortfall(h),
                                     ![Sender[h]] = @ + Shortfall(h) - Amount[h],
                                     ![Pending] = @ + Amount[h]]
       /\ loans' = Append(loans, [hold |-> h, pool |-> p, borrower |-> Sender[h],
                                  principal |-> Shortfall(h), outstanding |-> Shortfall(h)])
  /\ hold' = [hold EXCEPT ![h] = "PENDING_UNDO"]
  /\ task' = [task EXCEPT ![h] = "PENDING"]
  /\ UNCHANGED <<closed, attempts, deposited, grants>>

\* InsufficientFundsError or another refusal, a timeout, a lost connection.
SendFails(h) ==
  /\ SendEnds(h)
  /\ UNCHANGED <<holdVars, poolVars>>

-----------------------------------------------------------------------------
(* The lien, after_credit: a share of each credit to a borrower repays     *)
(* their outstanding loans, oldest first, until the share is used up.      *)

\* Mutant: the share is rounded up.
BudgetUp(m) == (m * LienBasisPoints + Whole - 1) \div Whole

Budget(m) == (m * LienBasisPoints) \div Whole

\* What loan i gets when a is credited and left of the share remains.
Repays(i, a, left) ==
  IF loans[i].borrower = a /\ left > 0
    THEN IF left < loans[i].outstanding THEN left ELSE loans[i].outstanding
    ELSE 0

\* Mutant: the newest loan first.
RepaidNewestFirst(a, m) ==
  LET n == Len(loans)
      left[i \in 1 .. n + 1] ==
        IF i = n + 1 THEN Budget(m) ELSE left[i + 1] - Repays(i, a, left[i + 1])
  IN  [i \in DOMAIN loans |-> Repays(i, a, left[i + 1])]

\* What is left of the share of a credit of m to a after the i oldest loans.
LeftAfter(a, m) ==
  LET left[i \in 0 .. Len(loans)] ==
        IF i = 0 THEN Budget(m) ELSE left[i - 1] - Repays(i, a, left[i - 1])
  IN  left

\* What each loan is repaid when a is credited m.
Repaid(a, m) == [i \in DOMAIN loans |-> Repays(i, a, LeftAfter(a, m)[i - 1])]

\* What pool p receives of the repayments paid.
ShareOf(p, paid) == NatSum({i \in DOMAIN loans : loans[i].pool = p}, paid)

\* Mutant: repayments go to the sponsor, not to the pool.
CreditedSponsor(x, a, m, paid) ==
  [c \in Accounts |->
     IF c = x THEN balance[c] - m
     ELSE IF c = a THEN balance[c] + m - NatSum(DOMAIN loans, paid)
     ELSE IF \E p \in Pools : c = Sponsor[p]
            THEN balance[c] + ShareOf(CHOOSE p \in Pools : c = Sponsor[p], paid)
            ELSE balance[c]]

\* The balances after a transfer of m from x to a and the repayments it sets off.
Credited(x, a, m, paid) ==
  [c \in Accounts |-> IF c = x THEN balance[c] - m
                      ELSE IF c = a THEN balance[c] + m - NatSum(DOMAIN loans, paid)
                      ELSE IF c \in Pools THEN balance[c] + ShareOf(c, paid)
                      ELSE balance[c]]

\* TransferUseCase.execute, crediting user a.
Credit(x, a, m) ==
  LET paid == Repaid(a, m)
  IN  /\ x # a
      /\ balance[x] >= m
      /\ a \notin closed
      /\ balance' = Credited(x, a, m, paid)
      /\ loans' = [i \in DOMAIN loans |-> [loans[i] EXCEPT !.outstanding = @ - paid[i]]]

\* UndoableTransferService.undo: the refund is a credit like any other.
Undone(h) ==
  /\ hold[h] = "PENDING_UNDO"
  /\ Credit(Pending, Sender[h], Amount[h])
  /\ hold' = [hold EXCEPT ![h] = "REFUNDED"]
  /\ task' = [task EXCEPT ![h] = IF @ = "PENDING" THEN "CANCELLED" ELSE @]
  /\ UNCHANGED <<closed, attempts, deposited, grants, listed>>

\* The worker settles a hold.
SettleHold(h) ==
  /\ task[h] = "PENDING"
  /\ hold[h] = "PENDING_UNDO"
  /\ Credit(Pending, Receiver[h], Amount[h])
  /\ hold' = [hold EXCEPT ![h] = "SUCCEEDED"]
  /\ task' = [task EXCEPT ![h] = "DONE"]
  /\ UNCHANGED <<closed, attempts, deposited, grants, listed>>

\* The worker's attempt fails and is recorded.
SettleFails(h) ==
  /\ task[h] = "PENDING"
  /\ task' = [task EXCEPT ![h] = AfterFailure(h)]
  /\ attempts' = [attempts EXCEPT ![h] = @ + 1]
  /\ UNCHANGED <<balance, closed, hold, poolVars, listed>>

\* Any other transfer between users: a settled money request, say.
PayUser(t) ==
  /\ t.from \notin closed
  /\ Credit(t.from, t.to, t.amount)
  /\ UNCHANGED <<closed, hold, task, attempts, deposited, grants, listed>>

CloseUser(a) ==
  /\ Close(a)
  /\ UNCHANGED <<poolVars, listed>>

OverdraftNext ==
  \/ \E p \in Pools, m \in Deposits : Fund(p, m)
  \/ \E o \in Offers : Grant(o)
  \/ \E h \in HoldIds : \/ ListGrants(h) \/ PlainSend(h) \/ SpotSend(h) \/ SendFails(h)
                        \/ Undone(h) \/ SettleHold(h) \/ SettleFails(h)
  \/ \E t \in Payments : PayUser(t)
  \/ \E a \in Users : CloseUser(a)

OverdraftSpec == OverdraftInit /\ [][OverdraftNext]_overdraftVars

-----------------------------------------------------------------------------
(* Properties.                                                             *)

Outstanding == [i \in DOMAIN loans |-> loans[i].outstanding]

Debt(a) == NatSum({i \in DOMAIN loans : loans[i].borrower = a}, Outstanding)

LoanRows ==
  [hold : HoldIds, pool : Pools, borrower : Users, principal : Nat \ {0}, outstanding : Nat]

OverdraftTypeOK ==
  /\ HoldsTypeOK
  /\ deposited \in [Pools -> Nat]
  /\ grants \in Seq(Offers)
  /\ loans \in Seq(LoanRows)
  /\ listed \in [HoldIds -> {NotSending} \cup (0 .. Len(grants))]

\* A sponsor's money is always in the pool or owed to it: a pool's balance and its
\* outstanding loans add up to what was paid in, through draws, undone sends and
\* partial repayments out of any mixture of pools ("No money is created").
PoolSolvent ==
  \A p \in Pools :
    balance[p] + NatSum({i \in DOMAIN loans : loans[i].pool = p}, Outstanding) = deposited[p]

\* Repayment is oldest first: no loan has been repaid anything while an older loan of
\* the same borrower is still owed, however many credits the repayment was spread over.
OldestLoanFirst ==
  \A i, j \in DOMAIN loans :
    /\ i < j
    /\ loans[i].borrower = loans[j].borrower
    /\ loans[j].outstanding < loans[j].principal
    => loans[i].outstanding = 0

\* No loan exceeds the limit of the grant it was drawn under, which is itself within
\* the service's limit, and no more is owed than was borrowed.
DrawsWithinGrant ==
  \A i \in DOMAIN loans :
    LET l == loans[i] IN
    /\ l.outstanding <= l.principal /\ l.principal <= MaxDraw
    /\ \E j \in DOMAIN grants : /\ grants[j].pool = l.pool /\ grants[j].to = l.borrower
                                /\ l.principal <= grants[j].max

\* The lien takes at most half of any incoming payment: in every step that lowers what
\* a user owes, their balance grows by at least as much as was taken from it.
BorrowerKeepsHalf ==
  [][\A a \in Users : Debt(a)' < Debt(a) => balance'[a] - balance[a] >= Debt(a) - Debt(a)'
    ]_overdraftVars
=============================================================================
