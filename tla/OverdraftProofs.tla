--------------------------- MODULE OverdraftProofs ---------------------------
(***************************************************************************)
(* The community overdraft keeps the sponsors' money, repays the oldest    *)
(* loan first and leaves the borrower half of every credit, for any number *)
(* of pools, users, grants, sends and payments of any amounts.             *)
(*                                                                         *)
(* The lien walks through the loans in a loop.  What it computes is proved *)
(* by induction on the number of loans it has visited (SetInduction).      *)
(***************************************************************************)
EXTENDS Overdraft, SumsProofs

\* Pools, users and the pending-settlement account are different accounts.
LEMMA AccountKinds ==
  /\ Users \subseteq Accounts /\ Pools \subseteq Accounts /\ Pending \in Accounts
  /\ Users \cap Pools = {} /\ Pending \notin Users /\ Pending \notin Pools
BY Zenon, HoldsAssumption, OverdraftAssumption DEF Users

\* What the assumptions say of one send.
LEMMA SendType ==
  ASSUME NEW h \in HoldIds
  PROVE  Sender[h] \in Users /\ Receiver[h] \in Users /\ Amount[h] \in Nat \ {0}
<1>1. Sender \in [HoldIds -> Users] /\ Receiver \in [HoldIds -> Users]
  BY Zenon, OverdraftSendsAssumption
<1>2. Amount \in [HoldIds -> Nat \ {0}]
  BY HoldsAssumption, Zenon
<1>. QED  BY Zenon, <1>1, <1>2

\* The draw limit and the lien's share, in basis points.
LEMMA LimitsType ==
  MaxDraw \in Nat /\ LienBasisPoints \in Nat /\ LienBasisPoints <= Whole
<1>1. Whole \in Nat
  BY SMT DEF Whole
<1>. QED  BY SMT, <1>1, OverdraftLimitsAssumption

-----------------------------------------------------------------------------
(* What the lien computes.                                                 *)

\* A share of at most the whole is at most the credit.
LEMMA ShareOfWhole ==
  ASSUME NEW m \in Nat, NEW b \in Nat, b <= Whole
  PROVE  (m * b) \div Whole \in Nat /\ (m * b) \div Whole <= m
<1>1. m * b \in Nat /\ m * b <= m * Whole
  BY SMTT(30) DEF Whole
<1> DEFINE x == m * b
<1>2. x \in Nat /\ x <= m * Whole
  BY Zenon, <1>1
<1> HIDE DEF x
<1>3. x \div Whole \in Nat /\ x \div Whole <= m
  BY <1>2, SMTT(30) DEF Whole
<1>. QED  BY Zenon, <1>3 DEF x

\* A share of at most a half is at most half of the credit.
LEMMA ShareOfHalf ==
  ASSUME NEW m \in Nat, NEW b \in Nat, 2 * b <= Whole
  PROVE  2 * ((m * b) \div Whole) <= m
<1>1. m * b \in Nat /\ 2 * (m * b) <= m * Whole
  BY SMTT(30) DEF Whole
<1> DEFINE x == m * b
<1>2. x \in Nat /\ 2 * x <= m * Whole
  BY Zenon, <1>1
<1> HIDE DEF x
<1>3. 2 * (x \div Whole) <= m
  BY <1>2, SMTT(30) DEF Whole
<1>. QED  BY Zenon, <1>3 DEF x

\* The budget of the lien (after_credit) is part of the credit, and at most half of it
\* when LIEN_SWEEP_BASIS_POINTS is at most half of the whole.
LEMMA BudgetBound ==
  ASSUME NEW m \in Nat
  PROVE  /\ Budget(m) \in Nat /\ Budget(m) <= m
         /\ 2 * LienBasisPoints <= Whole => 2 * Budget(m) <= m
BY Zenon, LimitsType, ShareOfWhole, ShareOfHalf DEF Budget

\* The loans are numbered from one, and every one is a row of overdraft_loans.
LEMMA LoanType ==
  ASSUME OverdraftTypeOK
  PROVE  /\ Len(loans) \in Nat /\ DOMAIN loans = 1 .. Len(loans)
         /\ IsFiniteSet(DOMAIN loans)
         /\ \A i \in DOMAIN loans :
              /\ loans[i] \in LoanRows
              /\ loans[i].pool \in Pools /\ loans[i].borrower \in Users
              /\ loans[i].principal \in Nat \ {0} /\ loans[i].outstanding \in Nat
<1>1. Len(loans) \in Nat /\ DOMAIN loans = 1 .. Len(loans)
  BY DEF OverdraftTypeOK
<1>2. IsFiniteSet(1 .. Len(loans))
  BY <1>1, FS_Interval
<1>3. \A i \in DOMAIN loans : loans[i] \in LoanRows
  BY DEF OverdraftTypeOK
<1>. QED  BY Zenon, <1>1, <1>2, <1>3 DEF LoanRows

\* A loan is repaid no more than is left and no more than is owed, and in full when
\* something is left over.
LEMMA RepaysBound ==
  ASSUME OverdraftTypeOK, NEW i \in DOMAIN loans, NEW a, NEW left \in Nat
  PROVE  /\ Repays(i, a, left) \in Nat
         /\ Repays(i, a, left) <= left /\ Repays(i, a, left) <= loans[i].outstanding
         /\ Repays(i, a, left) > 0 => loans[i].borrower = a
         /\ loans[i].borrower = a /\ left > Repays(i, a, left)
              => Repays(i, a, left) = loans[i].outstanding
<1>1. loans[i].outstanding \in Nat
  BY Zenon, LoanType
<1>. QED  BY <1>1 DEF Repays

\* left is what remains of the share after each of the n oldest loans.
Remains(left, n, a, m) ==
  /\ left \in [0 .. n -> Nat]
  /\ left[0] = Budget(m)
  /\ \A i \in 1 .. n : left[i] = left[i - 1] - Repays(i, a, left[i - 1])

\* LeftAfter satisfies its recursive definition: what remains is never negative.
LEMMA LeftAfterRemains ==
  ASSUME OverdraftTypeOK, NEW a, NEW m \in Nat
  PROVE  Remains(LeftAfter(a, m), Len(loans), a, m)
<1> DEFINE n == Len(loans)
           T == {k \in Nat : k <= n => \E left : Remains(left, k, a, m)}
<1>1. n \in Nat /\ DOMAIN loans = 1 .. n
  BY Zenon, LoanType
<1>2. 0 \in T
  <2> DEFINE g == [i \in 0 .. 0 |-> Budget(m)]
  <2>1. Remains(g, 0, a, m)
    BY BudgetBound DEF Remains
  <2>. QED  BY Zenon, <2>1
<1>3. ASSUME NEW k \in T PROVE k + 1 \in T
  <2> SUFFICES ASSUME k + 1 <= n PROVE \E left : Remains(left, k + 1, a, m)
    OBVIOUS
  <2>1. PICK g : Remains(g, k, a, m)
    BY <1>1
  <2>2. k \in Nat /\ k + 1 \in DOMAIN loans /\ g[k] \in Nat
    BY <1>1, <2>1 DEF Remains
  <2> DEFINE p == Repays(k + 1, a, g[k])
             f == [i \in 0 .. k + 1 |-> IF i = k + 1 THEN g[k] - p ELSE g[i]]
  <2>3. g[k] - p \in Nat
    BY <2>2, RepaysBound
  <2>4. f \in [0 .. k + 1 -> Nat] /\ f[0] = Budget(m)
    BY <2>1, <2>2, <2>3 DEF Remains
  <2>5. \A i \in 1 .. k : f[i] = f[i - 1] - Repays(i, a, f[i - 1])
    BY <2>1, <2>2 DEF Remains
  <2>6. f[k + 1] = f[k] - Repays(k + 1, a, f[k])
    BY <2>2
  <2>7. Remains(f, k + 1, a, m)
    <3> HIDE DEF f
    <3>1. ASSUME NEW i \in 1 .. k + 1 PROVE f[i] = f[i - 1] - Repays(i, a, f[i - 1])
      <4>1. CASE i = k + 1
        <5>1. i - 1 = k
          BY <2>2, <4>1
        <5>. QED  BY <2>6, <4>1, <5>1, Zenon
      <4>2. CASE i # k + 1
        <5>1. i \in 1 .. k
          BY <2>2, <4>2
        <5>. QED  BY <2>5, <5>1, Zenon
      <4>. QED  BY <4>1, <4>2, Zenon
    <3>. QED  BY <2>4, <3>1, Zenon DEF Remains
  <2>. QED  BY <2>7, Zenon
<1>4. T = Nat
  <2> T \in SUBSET Nat
    BY Zenon
  <2> HIDE DEF T
  <2>. QED  BY Zenon, <1>2, <1>3, SetInduction
<1>5. PICK g : Remains(g, n, a, m)
  BY <1>1, <1>4
<1>6. g = [i \in 0 .. n |-> IF i = 0 THEN Budget(m) ELSE g[i - 1] - Repays(i, a, g[i - 1])]
  BY <1>1, <1>5 DEF Remains
<1> DEFINE l == LeftAfter(a, m)
<1>7. l = [i \in 0 .. n |-> IF i = 0 THEN Budget(m) ELSE l[i - 1] - Repays(i, a, l[i - 1])]
  BY <1>6, Zenon DEF LeftAfter
<1> HIDE DEF l
<1> DEFINE U == {k \in Nat : k <= n => l[k] = g[k]}
<1>8. 0 \in U
  BY <1>1, <1>5, <1>7 DEF Remains
<1>9. ASSUME NEW k \in U PROVE k + 1 \in U
  <2> SUFFICES ASSUME k + 1 <= n PROVE l[k + 1] = g[k + 1]
    OBVIOUS
  <2>1. k \in Nat /\ l[k] = g[k]
    BY <1>1
  <2>2. k + 1 \in 1 .. n /\ k + 1 \in 0 .. n /\ k + 1 # 0 /\ k + 1 - 1 = k
    BY <1>1, <2>1
  <2>3. l[k + 1] = l[k] - Repays(k + 1, a, l[k])
    BY <1>7, <2>2
  <2>4. g[k + 1] = g[k] - Repays(k + 1, a, g[k])
    BY <1>5, <2>2 DEF Remains
  <2>. QED  BY Zenon, <2>1, <2>3, <2>4
<1>10. U = Nat
  <2> U \in SUBSET Nat
    BY Zenon
  <2> HIDE DEF U
  <2>. QED  BY <1>8, <1>9, SetInduction
<1>11. l = g
  <2>1. l = [i \in 0 .. n |-> l[i]] /\ g = [i \in 0 .. n |-> g[i]]
    BY Zenon, <1>5, <1>7 DEF Remains
  <2>2. \A i \in 0 .. n : l[i] = g[i]
    BY <1>1, <1>10
  <2>. QED  BY Zenon, <2>1, <2>2
<1>. QED  BY Zenon, <1>5, <1>11 DEF l

\* What remains only shrinks from one loan to the next.
LEMMA RemainsShrinks ==
  ASSUME OverdraftTypeOK, NEW a, NEW m \in Nat, NEW left,
         Remains(left, Len(loans), a, m),
         NEW i \in 0 .. Len(loans), NEW j \in 0 .. Len(loans), i <= j
  PROVE  left[j] <= left[i]
<1> DEFINE n == Len(loans)
           T == {k \in Nat : i + k <= n => left[i + k] <= left[i]}
<1>1. n \in Nat /\ DOMAIN loans = 1 .. n
  BY Zenon, LoanType
<1>2. \A k \in 0 .. n : left[k] \in Nat
  BY Zenon DEF Remains
<1>3. 0 \in T
  BY <1>1, <1>2
<1>4. ASSUME NEW k \in T PROVE k + 1 \in T
  <2> SUFFICES ASSUME i + k + 1 <= n PROVE left[i + k + 1] <= left[i]
    BY <1>1
  <2>1. k \in Nat /\ left[i + k] <= left[i]
    BY <1>1
  <2>2. i + k + 1 \in DOMAIN loans /\ i + k + 1 - 1 = i + k /\ i + k \in 0 .. n
    BY <1>1, <2>1
  <2>3. left[i + k + 1] = left[i + k] - Repays(i + k + 1, a, left[i + k])
    BY <1>1, <2>2 DEF Remains
  <2>4. Repays(i + k + 1, a, left[i + k]) \in Nat
    BY Zenon, <1>2, <2>2, RepaysBound
  <2>. QED  BY <1>2, <2>1, <2>2, <2>3, <2>4
<1>5. T = Nat
  <2> T \in SUBSET Nat
    BY Zenon
  <2> HIDE DEF T
  <2>. QED  BY Zenon, <1>3, <1>4, SetInduction
<1>6. j - i \in Nat /\ i + (j - i) = j /\ i + (j - i) <= n
  BY <1>1
<1>7. j - i \in T
  BY Zenon, <1>5, <1>6
<1>. QED  BY Zenon, <1>6, <1>7

\* What the lien of a credit of m to a takes, and from whom: no loan is repaid more
\* than is owed, only the loans of a are repaid, all of them together no more than the
\* budget, and none before the older ones of a are paid off.
LEMMA LienTakes ==
  ASSUME OverdraftTypeOK, NEW a, NEW m \in Nat, NEW paid, paid = Repaid(a, m)
  PROVE  /\ paid \in [DOMAIN loans -> Nat]
         /\ \A i \in DOMAIN loans : /\ paid[i] <= loans[i].outstanding
                                    /\ paid[i] > 0 => loans[i].borrower = a
         /\ NatSum(DOMAIN loans, paid) <= Budget(m)
         /\ \A i, j \in DOMAIN loans :
              i < j /\ loans[i].borrower = a /\ paid[j] > 0 => paid[i] = loans[i].outstanding
<1> DEFINE n == Len(loans)
           left == LeftAfter(a, m)
<1>1. n \in Nat /\ DOMAIN loans = 1 .. n
  BY Zenon, LoanType
<1>2. Remains(left, n, a, m)
  BY Zenon, LeftAfterRemains
<1>3. \A i \in DOMAIN loans : paid[i] = Repays(i, a, left[i - 1])
  BY Zenon DEF Repaid
<1>4. paid = [i \in DOMAIN loans |-> paid[i]]
  BY Zenon DEF Repaid
<1> HIDE DEF left
<1>5. \A i \in 0 .. n : left[i] \in Nat
  BY Zenon, <1>2 DEF Remains
<1>6. ASSUME NEW i \in DOMAIN loans
      PROVE  /\ i - 1 \in 0 .. n /\ left[i - 1] \in Nat /\ left[i] \in Nat
             /\ paid[i] \in Nat /\ paid[i] <= left[i - 1] /\ paid[i] <= loans[i].outstanding
             /\ paid[i] > 0 => loans[i].borrower = a
             /\ loans[i].borrower = a /\ left[i - 1] > paid[i] => paid[i] = loans[i].outstanding
             /\ left[i] = left[i - 1] - paid[i]
  <2>1. i - 1 \in 0 .. n /\ i \in 0 .. n /\ i \in 1 .. n
    BY <1>1
  <2>2. left[i - 1] \in Nat /\ left[i] \in Nat
    BY Zenon, <1>5, <2>1
  <2>3. left[i] = left[i - 1] - paid[i]
    BY Zenon, <1>2, <1>3, <2>1 DEF Remains
  <2>4. paid[i] = Repays(i, a, left[i - 1])
    BY Zenon, <1>3
  <2>. QED  BY Zenon, <2>1, <2>2, <2>3, <2>4, RepaysBound
<1>7. paid \in [DOMAIN loans -> Nat]
  BY Zenon, <1>4, <1>6
<1>8. NatSum(DOMAIN loans, paid) <= Budget(m)
  <2> DEFINE T == {k \in Nat : k <= n => NatSum(1 .. k, paid) = Budget(m) - left[k]}
  <2>1. 0 \in T
    <3>1. 1 .. 0 = {}
      OBVIOUS
    <3>2. NatSum(1 .. 0, paid) = 0
      BY Zenon, <3>1, NatSumEmpty
    <3>3. left[0] = Budget(m) /\ Budget(m) \in Nat
      BY Zenon, <1>2, BudgetBound DEF Remains
    <3>. QED  BY <3>2, <3>3
  <2>2. ASSUME NEW k \in T PROVE k + 1 \in T
    <3> SUFFICES ASSUME k + 1 <= n PROVE NatSum(1 .. k + 1, paid) = Budget(m) - left[k + 1]
      OBVIOUS
    <3>1. k \in Nat /\ NatSum(1 .. k, paid) = Budget(m) - left[k]
      BY <1>1
    <3>2. k + 1 \in DOMAIN loans /\ k + 1 - 1 = k /\ 1 .. k + 1 \subseteq DOMAIN loans
      BY <1>1, <3>1
    <3>3. NatSum(1 .. k + 1, paid) = NatSum(1 .. k, paid) + paid[k + 1]
      BY Zenon, <1>7, <3>1, <3>2, NatSumNext
    <3>4. left[k + 1] = left[k] - paid[k + 1] /\ left[k] \in Nat /\ paid[k + 1] \in Nat
      BY <1>6, <3>2
    <3>5. Budget(m) \in Nat
      BY Zenon, BudgetBound
    <3>. QED  BY <3>1, <3>3, <3>4, <3>5
  <2>3. T = Nat
    <3> T \in SUBSET Nat
      BY Zenon
    <3> HIDE DEF T
    <3>. QED  BY Zenon, <2>1, <2>2, SetInduction
  <2>4. NatSum(1 .. n, paid) = Budget(m) - left[n]
    BY <1>1, <2>3
  <2>5. left[n] \in Nat
    BY <1>1, <1>5
  <2>6. Budget(m) \in Nat /\ Budget(m) <= m
    BY Zenon, <1>1, BudgetBound
  <2>. QED  BY SMTT(20), <2>4, <2>5, <2>6
<1>9. ASSUME NEW i \in DOMAIN loans, NEW j \in DOMAIN loans,
             i < j, loans[i].borrower = a, paid[j] > 0
      PROVE  paid[i] = loans[i].outstanding
  <2>1. /\ paid[j] \in Nat /\ left[j - 1] \in Nat /\ paid[j] <= left[j - 1]
    BY <1>6, Zenon
  <2>2. /\ paid[i] \in Nat /\ left[i - 1] \in Nat /\ left[i] \in Nat
        /\ left[i] = left[i - 1] - paid[i]
        /\ left[i - 1] > paid[i] => paid[i] = loans[i].outstanding
    BY <1>6, <1>9, Zenon
  <2>3. j - 1 \in 0 .. n /\ i \in 0 .. n /\ i <= j - 1
    BY <1>1, <1>9
  <2>4. left[j - 1] <= left[i]
    BY Zenon, <1>2, <2>3, RemainsShrinks
  <2>5. left[i - 1] > paid[i]
    BY <1>9, <2>1, <2>2, <2>4
  <2>. QED  BY Zenon, <2>2, <2>5
<1>. QED  BY Zenon, <1>6, <1>7, <1>8, <1>9

-----------------------------------------------------------------------------
(* What one credit does to the balances and to the loans.                  *)

\* The loans and balances after a credit of m from x to a of which paid was taken.
Taken(paid, x, a, m) ==
  /\ paid \in [DOMAIN loans -> Nat]
  /\ NatSum(DOMAIN loans, paid) \in Nat /\ NatSum(DOMAIN loans, paid) <= Budget(m)
  /\ \A i \in DOMAIN loans : /\ paid[i] <= loans[i].outstanding
                             /\ paid[i] > 0 => loans[i].borrower = a
  /\ \A i, j \in DOMAIN loans :
       i < j /\ loans[i].borrower = a /\ paid[j] > 0 => paid[i] = loans[i].outstanding
  /\ x # a /\ balance[x] >= m
  /\ balance' = Credited(x, a, m, paid)
  /\ loans' = [i \in DOMAIN loans |-> [loans[i] EXCEPT !.outstanding = @ - paid[i]]]

\* A transfer that credits a user takes the lien.
LEMMA CreditTakes ==
  ASSUME OverdraftTypeOK, NEW x, NEW a, NEW m \in Nat, Credit(x, a, m)
  PROVE  Taken(Repaid(a, m), x, a, m)
<1> DEFINE paid == Repaid(a, m)
<1>1. /\ paid \in [DOMAIN loans -> Nat]
      /\ \A i \in DOMAIN loans : /\ paid[i] <= loans[i].outstanding
                                 /\ paid[i] > 0 => loans[i].borrower = a
      /\ NatSum(DOMAIN loans, paid) <= Budget(m)
      /\ \A i, j \in DOMAIN loans :
           i < j /\ loans[i].borrower = a /\ paid[j] > 0 => paid[i] = loans[i].outstanding
  BY LienTakes
<1>2. /\ x # a /\ balance[x] >= m
      /\ balance' = Credited(x, a, m, paid)
      /\ loans' = [i \in DOMAIN loans |-> [loans[i] EXCEPT !.outstanding = @ - paid[i]]]
  BY Zenon DEF Credit
<1> HIDE DEF paid
<1>3. NatSum(DOMAIN loans, paid) \in Nat
  BY Zenon, <1>1, LoanType, NatSumType
<1>. QED  BY <1>1, <1>2, <1>3, Zenon DEF Taken, paid

\* Only what is outstanding changes in a loan.
LEMMA LoansTaken ==
  ASSUME OverdraftTypeOK, NEW paid, NEW x, NEW a, NEW m, Taken(paid, x, a, m)
  PROVE  /\ loans' \in Seq(LoanRows) /\ Len(loans') = Len(loans)
         /\ DOMAIN loans' = DOMAIN loans
         /\ \A i \in DOMAIN loans :
              /\ loans'[i].hold = loans[i].hold /\ loans'[i].pool = loans[i].pool
              /\ loans'[i].borrower = loans[i].borrower
              /\ loans'[i].principal = loans[i].principal
              /\ loans'[i].outstanding = loans[i].outstanding - paid[i]
              /\ loans'[i].outstanding \in Nat /\ paid[i] \in Nat
<1>1. /\ Len(loans) \in Nat /\ DOMAIN loans = 1 .. Len(loans)
      /\ \A i \in DOMAIN loans : loans[i] \in LoanRows /\ loans[i].outstanding \in Nat
  BY Zenon, LoanType
<1>2. /\ paid \in [DOMAIN loans -> Nat]
      /\ \A i \in DOMAIN loans : paid[i] <= loans[i].outstanding
      /\ loans' = [i \in DOMAIN loans |-> [loans[i] EXCEPT !.outstanding = @ - paid[i]]]
  BY Zenon DEF Taken
<1>3. ASSUME NEW i \in DOMAIN loans
      PROVE  /\ loans'[i] = [loans[i] EXCEPT !.outstanding = @ - paid[i]]
             /\ loans[i].outstanding - paid[i] \in Nat /\ paid[i] \in Nat
  BY <1>1, <1>2
<1>4. ASSUME NEW i \in DOMAIN loans
      PROVE  /\ loans'[i] \in LoanRows
             /\ loans'[i].hold = loans[i].hold /\ loans'[i].pool = loans[i].pool
             /\ loans'[i].borrower = loans[i].borrower
             /\ loans'[i].principal = loans[i].principal
             /\ loans'[i].outstanding = loans[i].outstanding - paid[i]
  BY ZenonT(30), <1>1, <1>3 DEF LoanRows
<1>5. loans' \in [1 .. Len(loans) -> LoanRows]
  BY Zenon, <1>1, <1>2, <1>4
<1>6. loans' \in Seq(LoanRows) /\ Len(loans') = Len(loans) /\ DOMAIN loans' = DOMAIN loans
  BY <1>1, <1>5
<1>. QED  BY Zenon, <1>3, <1>4, <1>6

\* What is owed on some of the loans falls by what is repaid on them.
LEMMA OwedFalls ==
  ASSUME OverdraftTypeOK, NEW paid, NEW x, NEW a, NEW m, Taken(paid, x, a, m),
         NEW S \in SUBSET DOMAIN loans
  PROVE  /\ NatSum(S, Outstanding) = NatSum(S, Outstanding') + NatSum(S, paid)
         /\ NatSum(S, Outstanding) \in Nat /\ NatSum(S, Outstanding') \in Nat
         /\ NatSum(S, paid) \in Nat /\ NatSum(S, paid) <= NatSum(DOMAIN loans, paid)
<1>1. IsFiniteSet(DOMAIN loans) /\ IsFiniteSet(S)
  BY Zenon, LoanType, FS_Subset
<1>2. \A i \in S : /\ Outstanding[i] \in Nat /\ Outstanding'[i] \in Nat /\ paid[i] \in Nat
                  /\ Outstanding[i] = Outstanding'[i] + paid[i]
  BY LoanType, LoansTaken DEF Outstanding
<1> DEFINE f == Outstanding  g == Outstanding'
<1>3. \A i \in S : f[i] \in Nat /\ g[i] \in Nat /\ paid[i] \in Nat /\ f[i] = g[i] + paid[i]
  BY Zenon, <1>2
<1> HIDE DEF f, g
<1>4. NatSum(S, f) = NatSum(S, g) + NatSum(S, paid)
  BY <1>1, <1>3, NatSumPlus
<1>5. NatSum(S, f) \in Nat /\ NatSum(S, g) \in Nat /\ NatSum(S, paid) \in Nat
  BY Zenon, <1>1, <1>3, NatSumPartType
<1>6. NatSum(S, paid) <= NatSum(DOMAIN loans, paid)
  <2> DEFINE r == [i \in S |-> paid[i]]
  <2>1. r \in [S -> Nat] /\ \A i \in S : r[i] = paid[i]
    BY Zenon, <1>3
  <2>2. paid \in [DOMAIN loans -> Nat]
    BY Zenon DEF Taken
  <2> HIDE DEF r
  <2>3. NatSum(S, r) <= NatSum(DOMAIN loans, paid)
    BY Zenon, <1>1, <2>1, <2>2, NatSumSubset
  <2>4. NatSum(S, r) = NatSum(S, paid)
    BY Zenon, <2>1, NatSumEqual
  <2>. QED  BY Zenon, <2>3, <2>4
<1>. QED  BY Zenon, <1>4, <1>5, <1>6 DEF f, g

\* The balances after a credit: of the two parties, of the pools, of everyone else.
LEMMA BalancesTaken ==
  ASSUME OverdraftTypeOK, NEW paid, NEW x \in Accounts \ Pools, NEW a \in Users,
         NEW m \in Nat, Taken(paid, x, a, m)
  PROVE  /\ balance' \in [Accounts -> Nat]
         /\ balance'[x] = balance[x] - m
         /\ balance'[a] = balance[a] + m - NatSum(DOMAIN loans, paid)
         /\ \A p \in Pools : balance'[p] = balance[p] + ShareOf(p, paid)
         /\ \A c \in Accounts \ Pools : c # x /\ c # a => balance'[c] = balance[c]
<1>1. /\ Users \subseteq Accounts /\ Pools \subseteq Accounts /\ Users \cap Pools = {}
  BY Zenon, AccountKinds
<1>2. balance \in [Accounts -> Nat]
  BY Zenon DEF OverdraftTypeOK, HoldsTypeOK
<1> DEFINE total == NatSum(DOMAIN loans, paid)
<1>3. /\ x # a /\ balance[x] >= m /\ total \in Nat /\ total <= m
      /\ balance' = Credited(x, a, m, paid)
  BY BudgetBound DEF Taken
<1>4. \A p \in Pools : ShareOf(p, paid) \in Nat
  BY Zenon, OwedFalls DEF ShareOf
<1>5. balance' = [c \in Accounts |-> IF c = x THEN balance[c] - m
                                    ELSE IF c = a THEN balance[c] + m - total
                                    ELSE IF c \in Pools THEN balance[c] + ShareOf(c, paid)
                                    ELSE balance[c]]
  BY Zenon, <1>3 DEF Credited
<1> HIDE DEF total
<1>6. /\ balance'[x] = balance[x] - m
      /\ balance'[a] = balance[a] + m - total
      /\ \A p \in Pools : balance'[p] = balance[p] + ShareOf(p, paid)
      /\ \A c \in Accounts \ Pools : c # x /\ c # a => balance'[c] = balance[c]
  BY Zenon, <1>1, <1>3, <1>5
<1>7. ASSUME NEW c \in Accounts PROVE balance'[c] \in Nat
  BY <1>2, <1>3, <1>4, <1>6
<1>8. balance' \in [Accounts -> Nat]
  BY Zenon, <1>5, <1>7
<1>. QED  BY Zenon, <1>6, <1>8 DEF total

-----------------------------------------------------------------------------
(* The steps, by what they do to the pools.                                *)

\* The borrower's send with a shortfall: the pool of a grant that covers it lends
\* exactly the shortfall.
LEMMA SpotSendDraws ==
  ASSUME OverdraftTypeOK, NEW h \in HoldIds, SpotSend(h)
  PROVE  \E p \in Pools : \E j \in DOMAIN grants :
           /\ grants[j].pool = p /\ grants[j].to = Sender[h]
           /\ Shortfall(h) \in Nat \ {0}
           /\ Shortfall(h) <= grants[j].max /\ Shortfall(h) <= MaxDraw
           /\ Shortfall(h) <= balance[p]
           /\ balance[Sender[h]] + Shortfall(h) = Amount[h]
           /\ balance' = [balance EXCEPT ![p] = @ - Shortfall(h),
                                         ![Sender[h]] = @ + Shortfall(h) - Amount[h],
                                         ![Pending] = @ + Amount[h]]
           /\ loans' = Append(loans, [hold |-> h, pool |-> p, borrower |-> Sender[h],
                                      principal |-> Shortfall(h),
                                      outstanding |-> Shortfall(h)])
<1>1. PICK p \in Selected(h) :
        /\ balance' = [balance EXCEPT ![p] = @ - Shortfall(h),
                                      ![Sender[h]] = @ + Shortfall(h) - Amount[h],
                                      ![Pending] = @ + Amount[h]]
        /\ loans' = Append(loans, [hold |-> h, pool |-> p, borrower |-> Sender[h],
                                   principal |-> Shortfall(h),
                                   outstanding |-> Shortfall(h)])
  BY Zenon DEF SpotSend
<1>2. PICK j \in DOMAIN grants : Covers(grants[j], h) /\ p = grants[j].pool
  BY Zenon DEF Selected
<1>3. grants[j].pool \in Pools
  <2>1. grants[j] \in Offers
    BY DEF OverdraftTypeOK
  <2>2. Offers \subseteq [pool : Pools, to : Users, max : Nat \ {0}]
    BY Zenon, OverdraftAssumption
  <2>. QED  BY Zenon, <2>1, <2>2
<1>4. Shortfall(h) \in 1 .. MaxDraw
  BY Zenon DEF SpotSend
<1>5. balance[Sender[h]] \in Nat /\ Amount[h] \in Nat
  BY Zenon, SendType, AccountKinds DEF OverdraftTypeOK, HoldsTypeOK
<1>6. balance[Sender[h]] + Shortfall(h) = Amount[h]
  <2> HIDE DEF Shortfall
  <2>1. Shortfall(h) >= 1
    BY <1>4, LimitsType
  <2>. QED  BY <1>5, <2>1 DEF Shortfall
<1>7. /\ grants[j].to = Sender[h]
      /\ Shortfall(h) <= grants[j].max /\ Shortfall(h) <= balance[p]
  BY <1>2 DEF Covers
<1>8. Shortfall(h) \in Nat \ {0} /\ Shortfall(h) <= MaxDraw
  BY <1>4, LimitsType
<1>9. p \in Pools
  BY Zenon, <1>2, <1>3
<1>. QED  BY <1>1, <1>2, <1>6, <1>7, <1>8, <1>9, Zenon

\* The loan a send adds, and those it leaves alone.
LEMMA LoanAdded ==
  ASSUME OverdraftTypeOK, NEW l \in LoanRows, loans' = Append(loans, l)
  PROVE  /\ loans' \in Seq(LoanRows)
         /\ DOMAIN loans' = DOMAIN loans \cup {Len(loans) + 1}
         /\ Len(loans) + 1 \notin DOMAIN loans
         /\ loans'[Len(loans) + 1] = l
         /\ \A i \in DOMAIN loans : loans'[i] = loans[i] /\ i < Len(loans) + 1
<1>1. loans \in Seq(LoanRows)
  BY Zenon DEF OverdraftTypeOK
<1>. QED  BY <1>1

\* The payments of PayUser.
LEMMA PaymentType ==
  ASSUME NEW t \in Payments
  PROVE  t.from \in Users /\ t.to \in Users /\ t.amount \in Nat \ {0}
BY Zenon, OverdraftAssumption

\* Every transaction that credits a user, with the lien it takes.
LEMMA CreditSteps ==
  ASSUME OverdraftTypeOK,
         \/ \E h \in HoldIds : Undone(h) \/ SettleHold(h)
         \/ \E t \in Payments : PayUser(t)
  PROVE  \E x \in Accounts \ Pools, a \in Users, m \in Nat \ {0} :
           \E paid : Taken(paid, x, a, m) /\ UNCHANGED <<deposited, grants>>
<1>1. ASSUME NEW x \in Accounts \ Pools, NEW a \in Users, NEW m \in Nat \ {0}, Credit(x, a, m)
      PROVE  \E paid : Taken(paid, x, a, m)
  BY Zenon, <1>1, CreditTakes
<1>2. Users \subseteq Accounts \ Pools /\ Pending \in Accounts \ Pools
  BY Zenon, AccountKinds
<1>3. ASSUME NEW h \in HoldIds, Undone(h) \/ SettleHold(h)
      PROVE  \E a \in Users, m \in Nat \ {0} :
               Credit(Pending, a, m) /\ UNCHANGED <<deposited, grants>>
  BY Zenon, <1>3, SendType DEF Undone, SettleHold
<1>4. ASSUME NEW t \in Payments, PayUser(t)
      PROVE  \E x \in Users, a \in Users, m \in Nat \ {0} :
               Credit(x, a, m) /\ UNCHANGED <<deposited, grants>>
  BY Zenon, <1>4, PaymentType DEF PayUser
<1>. QED  BY <1>1, <1>2, <1>3, <1>4, Zenon

\* A step credits a user, draws on a pool, funds a pool, adds a grant or leaves the
\* pools alone.
LEMMA PoolSteps ==
  ASSUME OverdraftTypeOK, [OverdraftNext]_overdraftVars
  PROVE  \/ \E x \in Accounts \ Pools, a \in Users, m \in Nat \ {0} :
              \E paid : Taken(paid, x, a, m) /\ UNCHANGED <<deposited, grants>>
         \/ \E h \in HoldIds : SpotSend(h)
         \/ \E p \in Pools, m \in Deposits : Fund(p, m)
         \/ \E o \in Offers : Grant(o)
         \/ UNCHANGED poolVars /\ \A p \in Pools : balance'[p] = balance[p]
<1>1. ASSUME NEW h \in HoldIds, PlainSend(h)
      PROVE  UNCHANGED poolVars /\ \A p \in Pools : balance'[p] = balance[p]
  <2>1. Sender[h] \notin Pools /\ Pending \notin Pools
    BY Zenon, SendType, AccountKinds
  <2>2. balance \in [Accounts -> Nat] /\ Pools \subseteq Accounts
    BY Zenon, AccountKinds DEF OverdraftTypeOK, HoldsTypeOK
  <2>. QED  BY Zenon, <1>1, <2>1, <2>2 DEF PlainSend, Send
<1>2. ASSUME \/ \E h \in HoldIds : SettleFails(h)
             \/ \E a \in Users : CloseUser(a)
             \/ \E h \in HoldIds : ListGrants(h) \/ SendFails(h)
             \/ UNCHANGED overdraftVars
      PROVE  UNCHANGED poolVars /\ \A p \in Pools : balance'[p] = balance[p]
  BY Zenon, <1>2 DEF SettleFails, CloseUser, Close, ListGrants, SendFails, overdraftVars,
                          holdVars
<1>. QED  BY <1>1, <1>2, CreditSteps, Zenon DEF OverdraftNext

-----------------------------------------------------------------------------
(* The invariants of the pools are inductive.                              *)

\* Loans keep their types.
LEMMA LoansTypeInductive ==
  ASSUME OverdraftTypeOK, [OverdraftNext]_overdraftVars
  PROVE  loans' \in Seq(LoanRows) /\ grants' \in Seq(Offers) /\ deposited' \in [Pools -> Nat]
<1>1. /\ deposited \in [Pools -> Nat] /\ grants \in Seq(Offers) /\ loans \in Seq(LoanRows)
  BY Zenon DEF OverdraftTypeOK
<1>2. ASSUME NEW x, NEW a, NEW m, NEW paid, Taken(paid, x, a, m), UNCHANGED <<deposited, grants>>
      PROVE  loans' \in Seq(LoanRows) /\ UNCHANGED <<deposited, grants>>
  BY Zenon, <1>2, LoansTaken
<1>3. ASSUME NEW h \in HoldIds, SpotSend(h)
      PROVE  loans' \in Seq(LoanRows) /\ UNCHANGED <<deposited, grants>>
  <2>1. PICK p \in Pools : /\ Shortfall(h) \in Nat \ {0}
                           /\ loans' = Append(loans, [hold |-> h, pool |-> p,
                                                      borrower |-> Sender[h],
                                                      principal |-> Shortfall(h),
                                                      outstanding |-> Shortfall(h)])
    BY <1>3, SpotSendDraws, Zenon
  <2> DEFINE l == [hold |-> h, pool |-> p, borrower |-> Sender[h],
                   principal |-> Shortfall(h), outstanding |-> Shortfall(h)]
  <2>2. l \in LoanRows
    BY Zenon, <2>1, SendType DEF LoanRows
  <2>3. loans' = Append(loans, l)
    BY Zenon, <2>1
  <2> HIDE DEF l
  <2>4. UNCHANGED <<deposited, grants>>
    BY Zenon, <1>3 DEF SpotSend
  <2>. QED  BY Zenon, <2>2, <2>3, <2>4, LoanAdded
<1>4. ASSUME NEW p \in Pools, NEW m \in Deposits, Fund(p, m)
      PROVE  deposited' \in [Pools -> Nat] /\ UNCHANGED <<loans, grants>>
  <2>1. m \in Nat
    BY Zenon, OverdraftAssumption
  <2>. QED  BY <1>1, <1>4, <2>1 DEF Fund
<1>5. ASSUME NEW o \in Offers, Grant(o)
      PROVE  grants' \in Seq(Offers) /\ UNCHANGED <<deposited, loans>>
  BY <1>1, <1>5 DEF Grant
<1>6. ASSUME UNCHANGED poolVars
      PROVE  UNCHANGED <<deposited, grants, loans>>
  BY Zenon, <1>6 DEF poolVars
<1>. QED  BY Zenon, <1>1, <1>2, <1>3, <1>4, <1>5, <1>6, PoolSteps

\* A send has listed no more grants than there are: grants are only ever added.
LEMMA ListedInductive ==
  ASSUME OverdraftTypeOK, [OverdraftNext]_overdraftVars
  PROVE  listed' \in [HoldIds -> {NotSending} \cup (0 .. Len(grants'))]
<1> DEFINE Lists(n) == {NotSending} \cup (0 .. n)
<1>1. listed \in [HoldIds -> Lists(Len(grants))] /\ grants \in Seq(Offers)
  BY Zenon DEF OverdraftTypeOK
<1>2. Len(grants) \in Nat
  BY <1>1
<1>3. ASSUME NEW h \in HoldIds, ListGrants(h)
      PROVE  listed' \in [HoldIds -> Lists(Len(grants))] /\ grants' = grants
  <2>1. Len(grants) \in Lists(Len(grants))
    BY <1>2
  <2>2. listed' = [listed EXCEPT ![h] = Len(grants)] /\ grants' = grants
    BY Zenon, <1>3 DEF ListGrants, poolVars
  <2> HIDE DEF Lists
  <2>. QED  BY Zenon, <1>1, <2>1, <2>2
<1>4. ASSUME NEW h \in HoldIds, PlainSend(h) \/ SpotSend(h) \/ SendFails(h)
      PROVE  listed' \in [HoldIds -> Lists(Len(grants))] /\ grants' = grants
  <2>1. NotSending \in Lists(Len(grants))
    BY Zenon
  <2>2. listed' = [listed EXCEPT ![h] = NotSending] /\ grants' = grants
    BY Zenon, <1>4 DEF PlainSend, SpotSend, SendFails, SendEnds, poolVars
  <2> HIDE DEF Lists
  <2>. QED  BY Zenon, <1>1, <2>1, <2>2
<1>5. ASSUME NEW o \in Offers, Grant(o)
      PROVE  listed' \in [HoldIds -> Lists(Len(grants'))]
  <2>1. Len(grants') = Len(grants) + 1
    BY <1>1, <1>5 DEF Grant
  <2>2. Lists(Len(grants)) \subseteq Lists(Len(grants'))
    BY <1>2, <2>1
  <2>3. listed' = listed
    BY Zenon, <1>5 DEF Grant
  <2> HIDE DEF Lists
  <2>. QED  BY Zenon, <1>1, <2>2, <2>3
<1>6. ASSUME \/ \E h \in HoldIds : Undone(h) \/ SettleHold(h) \/ SettleFails(h)
             \/ \E q \in Pools, m \in Deposits : Fund(q, m)
             \/ \E t \in Payments : PayUser(t)
             \/ \E a \in Users : CloseUser(a)
             \/ UNCHANGED overdraftVars
      PROVE  UNCHANGED <<listed, grants>>
  BY Zenon, <1>6 DEF Undone, SettleHold, SettleFails, Fund, PayUser, CloseUser, overdraftVars,
                     poolVars
<1> HIDE DEF Lists
<1>7. listed' \in [HoldIds -> Lists(Len(grants'))]
  BY Zenon, <1>1, <1>3, <1>4, <1>5, <1>6 DEF OverdraftNext
<1>. QED  BY Zenon, <1>7 DEF Lists

\* What is owed to pool p.
OwedTo(p) == NatSum({i \in DOMAIN loans : loans[i].pool = p}, Outstanding)

\* A pool is owed exactly one shortfall more after a draw on it, and no less by anyone.
LEMMA DrawAdds ==
  ASSUME OverdraftTypeOK, NEW l \in LoanRows, loans' = Append(loans, l)
  PROVE  /\ \A p \in Pools : /\ OwedTo(p) \in Nat
                             /\ OwedTo(p)' = OwedTo(p) + IF l.pool = p THEN l.outstanding ELSE 0
         /\ \A a \in Users : Debt(a) \in Nat /\ Debt(a)' \in Nat /\ Debt(a)' >= Debt(a)
<1> DEFINE n == Len(loans) + 1
           f == Outstanding
           g == Outstanding'
<1>1. /\ DOMAIN loans' = DOMAIN loans \cup {n} /\ n \notin DOMAIN loans
      /\ loans'[n] = l /\ \A i \in DOMAIN loans : loans'[i] = loans[i]
  BY Zenon, LoanAdded
<1>2. IsFiniteSet(DOMAIN loans) /\ \A i \in DOMAIN loans : loans[i].outstanding \in Nat
  BY Zenon, LoanType
<1>3. l.outstanding \in Nat
  BY Zenon DEF LoanRows
<1> HIDE DEF n
<1>4. /\ \A i \in DOMAIN loans : f[i] \in Nat /\ g[i] = f[i]
      /\ g[n] = l.outstanding
  BY Zenon, <1>1, <1>2 DEF Outstanding
<1> HIDE DEF f, g
<1>5. ASSUME NEW S \in SUBSET DOMAIN loans
      PROVE  /\ NatSum(S, f) \in Nat
             /\ NatSum(S, g) = NatSum(S, f)
             /\ NatSum(S \cup {n}, g) = NatSum(S, f) + l.outstanding
  <2>1. IsFiniteSet(S) /\ IsFiniteSet({n}) /\ S \cap {n} = {}
    BY ZenonT(30), <1>1, <1>2, FS_Subset, FS_Singleton
  <2>2. NatSum(S, f) \in Nat
    BY Zenon, <1>4, <2>1, NatSumPartType
  <2>3. NatSum(S, g) = NatSum(S, f)
    BY Zenon, <1>4, NatSumEqual
  <2>4. \A i \in S \cup {n} : g[i] \in Nat
    BY Zenon, <1>3, <1>4
  <2>5. NatSum(S \cup {n}, g) = NatSum(S, g) + NatSum({n}, g)
    BY <2>1, <2>4, NatSumUnion
  <2>6. NatSum({n}, g) = l.outstanding
    BY Zenon, <1>3, <1>4, NatSumSingle
  <2>. QED  BY Zenon, <2>2, <2>3, <2>5, <2>6
<1>6. ASSUME NEW p \in Pools
      PROVE  /\ OwedTo(p) \in Nat
             /\ OwedTo(p)' = OwedTo(p) + IF l.pool = p THEN l.outstanding ELSE 0
  <2> DEFINE S == {i \in DOMAIN loans : loans[i].pool = p}
             R == {i \in DOMAIN loans' : loans'[i].pool = p}
  <2>1. R = IF l.pool = p THEN S \cup {n} ELSE S
    BY Zenon, <1>1
  <2>2. S \in SUBSET DOMAIN loans
    BY Zenon
  <2>3. OwedTo(p) = NatSum(S, f) /\ OwedTo(p)' = NatSum(R, g)
    BY Zenon DEF OwedTo, f, g
  <2> HIDE DEF S, R
  <2>4. /\ NatSum(S, f) \in Nat /\ NatSum(S, g) = NatSum(S, f)
        /\ NatSum(S \cup {n}, g) = NatSum(S, f) + l.outstanding
    BY <1>5, <2>2, Zenon
  <2>5. CASE l.pool = p
    BY Zenon, <1>3, <2>1, <2>3, <2>4, <2>5
  <2>6. CASE l.pool # p
    BY <2>1, <2>3, <2>4, <2>6
  <2>. QED  BY Zenon, <2>5, <2>6
<1>7. ASSUME NEW a \in Users
      PROVE  Debt(a) \in Nat /\ Debt(a)' \in Nat /\ Debt(a)' >= Debt(a)
  <2> DEFINE S == {i \in DOMAIN loans : loans[i].borrower = a}
             R == {i \in DOMAIN loans' : loans'[i].borrower = a}
  <2>1. R = IF l.borrower = a THEN S \cup {n} ELSE S
    BY Zenon, <1>1
  <2>2. S \in SUBSET DOMAIN loans
    BY Zenon
  <2>3. Debt(a) = NatSum(S, f) /\ Debt(a)' = NatSum(R, g)
    BY Zenon DEF Debt, f, g
  <2> HIDE DEF S, R
  <2>4. /\ NatSum(S, f) \in Nat /\ NatSum(S, g) = NatSum(S, f)
        /\ NatSum(S \cup {n}, g) = NatSum(S, f) + l.outstanding
    BY <1>5, <2>2, Zenon
  <2>5. CASE l.borrower = a
    BY <1>3, <2>1, <2>3, <2>4, <2>5
  <2>6. CASE l.borrower # a
    BY SMTT(20), <2>1, <2>3, <2>4, <2>6
  <2>. QED  BY Zenon, <2>5, <2>6
<1>. QED  BY Zenon, <1>6, <1>7

\* A sponsor's money stays in the pool or owed to it.
LEMMA SolventInductive ==
  ASSUME OverdraftTypeOK, PoolSolvent, [OverdraftNext]_overdraftVars
  PROVE  PoolSolvent'
<1> SUFFICES ASSUME NEW p \in Pools PROVE balance'[p] + OwedTo(p)' = deposited'[p]
  BY Zenon DEF PoolSolvent, OwedTo
<1>1. balance[p] + OwedTo(p) = deposited[p]
  BY Zenon DEF PoolSolvent, OwedTo
<1>2. balance \in [Accounts -> Nat] /\ Pools \subseteq Accounts /\ balance[p] \in Nat
  BY Zenon, AccountKinds DEF OverdraftTypeOK, HoldsTypeOK
<1>3. deposited \in [Pools -> Nat]
  BY Zenon DEF OverdraftTypeOK
<1>4. OwedTo(p) \in Nat
  <2>1. IsFiniteSet({i \in DOMAIN loans : loans[i].pool = p})
    BY Zenon, LoanType, FS_Subset
  <2>2. \A i \in DOMAIN loans : Outstanding[i] \in Nat
    BY Zenon, LoanType DEF Outstanding
  <2>. QED  BY Zenon, <2>1, <2>2, NatSumPartType DEF OwedTo
<1>5. ASSUME NEW x \in Accounts \ Pools, NEW a \in Users, NEW m \in Nat \ {0}, NEW paid,
             Taken(paid, x, a, m), UNCHANGED <<deposited, grants>>
      PROVE  balance'[p] + OwedTo(p)' = deposited'[p]
  <2> DEFINE S == {i \in DOMAIN loans : loans[i].pool = p}
  <2>1. S = {i \in DOMAIN loans' : loans'[i].pool = p}
    BY Zenon, <1>5, LoansTaken
  <2>2. OwedTo(p) = NatSum(S, Outstanding) /\ OwedTo(p)' = NatSum(S, Outstanding')
    BY Zenon, <2>1 DEF OwedTo
  <2>3. balance'[p] = balance[p] + NatSum(S, paid)
    BY Zenon, <1>5, BalancesTaken DEF ShareOf
  <2>4. S \in SUBSET DOMAIN loans
    BY Zenon
  <2> HIDE DEF S
  <2>5. /\ NatSum(S, Outstanding) = NatSum(S, Outstanding') + NatSum(S, paid)
        /\ NatSum(S, Outstanding') \in Nat /\ NatSum(S, paid) \in Nat
    BY Zenon, <1>5, <2>4, OwedFalls
  <2>. QED  BY SMTT(20), <1>1, <1>2, <1>5, <2>2, <2>3, <2>5
<1>6. ASSUME NEW h \in HoldIds, SpotSend(h)
      PROVE  balance'[p] + OwedTo(p)' = deposited'[p]
  <2>1. PICK q \in Pools :
          /\ Shortfall(h) \in Nat \ {0} /\ Shortfall(h) <= balance[q]
          /\ balance' = [balance EXCEPT ![q] = @ - Shortfall(h),
                                        ![Sender[h]] = @ + Shortfall(h) - Amount[h],
                                        ![Pending] = @ + Amount[h]]
          /\ loans' = Append(loans, [hold |-> h, pool |-> q, borrower |-> Sender[h],
                                     principal |-> Shortfall(h),
                                     outstanding |-> Shortfall(h)])
    BY <1>6, SpotSendDraws, Zenon
  <2> DEFINE l == [hold |-> h, pool |-> q, borrower |-> Sender[h],
                   principal |-> Shortfall(h), outstanding |-> Shortfall(h)]
  <2>2. l \in LoanRows /\ l.pool = q /\ l.outstanding = Shortfall(h)
    BY Zenon, <2>1, SendType DEF LoanRows
  <2>3. loans' = Append(loans, l)
    BY Zenon, <2>1
  <2> HIDE DEF l
  <2>4. OwedTo(p)' = OwedTo(p) + IF l.pool = p THEN l.outstanding ELSE 0
    BY Zenon, <2>2, <2>3, DrawAdds
  <2>5. p # Sender[h] /\ p # Pending
    BY Zenon, SendType, AccountKinds
  <2>6. balance'[p] = balance[p] - IF p = q THEN Shortfall(h) ELSE 0
    BY SMTT(20), <1>2, <2>1, <2>5
  <2>7. deposited' = deposited
    BY Zenon, <1>6 DEF SpotSend
  <2>. QED  BY SMTT(20), <1>1, <1>2, <1>4, <2>1, <2>2, <2>4, <2>6, <2>7
<1>7. ASSUME NEW q \in Pools, NEW m \in Deposits, Fund(q, m)
      PROVE  balance'[p] + OwedTo(p)' = deposited'[p]
  <2>1. m \in Nat
    BY Zenon, OverdraftAssumption
  <2>2. OwedTo(p)' = OwedTo(p)
    BY Zenon, <1>7 DEF Fund, OwedTo, Outstanding
  <2>3. p # Sponsor[q]
    BY Zenon, AccountKinds, OverdraftAssumption
  <2>4. /\ balance'[p] = balance[p] + IF p = q THEN m ELSE 0
        /\ deposited'[p] = deposited[p] + IF p = q THEN m ELSE 0
    BY <1>2, <1>3, <1>7, <2>1, <2>3 DEF Fund
  <2>. QED  BY <1>1, <1>2, <1>4, <2>1, <2>2, <2>4
<1>8. ASSUME UNCHANGED <<deposited, loans>>, balance'[p] = balance[p]
      PROVE  balance'[p] + OwedTo(p)' = deposited'[p]
  BY Zenon, <1>1, <1>8 DEF OwedTo, Outstanding
<1>9. ASSUME NEW o \in Offers, Grant(o)
      PROVE  UNCHANGED <<deposited, loans, balance>>
  BY Zenon, <1>9 DEF Grant, holdVars
<1>10. ASSUME UNCHANGED poolVars
       PROVE  UNCHANGED <<deposited, loans>>
  BY Zenon, <1>10 DEF poolVars
<1>. QED  BY Zenon, <1>5, <1>6, <1>7, <1>8, <1>9, <1>10, PoolSteps

\* Repayment stays oldest first.
LEMMA OldestFirstInductive ==
  ASSUME OverdraftTypeOK, OldestLoanFirst, [OverdraftNext]_overdraftVars
  PROVE  OldestLoanFirst'
<1>1. ASSUME NEW x, NEW a, NEW m, NEW paid, Taken(paid, x, a, m)
      PROVE  OldestLoanFirst'
  <2> SUFFICES ASSUME NEW i \in DOMAIN loans', NEW j \in DOMAIN loans', i < j,
                      loans'[i].borrower = loans'[j].borrower,
                      loans'[j].outstanding < loans'[j].principal
               PROVE  loans'[i].outstanding = 0
    BY Zenon DEF OldestLoanFirst
  <2>1. i \in DOMAIN loans /\ j \in DOMAIN loans
    BY Zenon, <1>1, LoansTaken
  <2>2. /\ loans[i].borrower = loans[j].borrower
        /\ loans'[i].outstanding = loans[i].outstanding - paid[i]
        /\ loans[j].outstanding - paid[j] < loans[j].principal
        /\ paid[i] \in Nat /\ paid[j] \in Nat
    BY Zenon, <1>1, <2>1, LoansTaken
  <2>3. /\ loans[i].outstanding \in Nat /\ loans[j].outstanding \in Nat
        /\ loans[j].principal \in Nat
    BY Zenon, <2>1, LoanType
  <2>4. /\ paid[i] <= loans[i].outstanding
        /\ paid[j] > 0 => loans[j].borrower = a
        /\ loans[i].borrower = a /\ paid[j] > 0 => paid[i] = loans[i].outstanding
    BY Zenon, <1>1, <2>1 DEF Taken
  <2>5. loans[j].outstanding < loans[j].principal => loans[i].outstanding = 0
    BY Zenon, <2>1, <2>2 DEF OldestLoanFirst
  <2>. QED  BY <2>2, <2>3, <2>4, <2>5
<1>2. ASSUME NEW h \in HoldIds, SpotSend(h)
      PROVE  OldestLoanFirst'
  <2>1. PICK q \in Pools :
          /\ Shortfall(h) \in Nat \ {0}
          /\ loans' = Append(loans, [hold |-> h, pool |-> q, borrower |-> Sender[h],
                                     principal |-> Shortfall(h),
                                     outstanding |-> Shortfall(h)])
    BY <1>2, SpotSendDraws, Zenon
  <2> DEFINE l == [hold |-> h, pool |-> q, borrower |-> Sender[h],
                   principal |-> Shortfall(h), outstanding |-> Shortfall(h)]
  <2>2. l \in LoanRows /\ ~(l.outstanding < l.principal)
    BY <2>1, SendType DEF LoanRows
  <2>3. loans' = Append(loans, l)
    BY Zenon, <2>1
  <2> HIDE DEF l
  <2>4. /\ DOMAIN loans' = DOMAIN loans \cup {Len(loans) + 1}
        /\ loans'[Len(loans) + 1] = l
        /\ \A i \in DOMAIN loans : loans'[i] = loans[i] /\ i < Len(loans) + 1
    BY Zenon, <2>2, <2>3, LoanAdded
  <2>5. Len(loans) \in Nat /\ DOMAIN loans = 1 .. Len(loans)
    BY Zenon, LoanType
  <2>. QED  BY <2>2, <2>4, <2>5 DEF OldestLoanFirst
<1>3. ASSUME UNCHANGED loans
      PROVE  OldestLoanFirst'
  BY Zenon, <1>3 DEF OldestLoanFirst
<1>. QED  BY Zenon, <1>1, <1>2, <1>3, PoolSteps DEF Fund, Grant, poolVars

\* Draws stay within the grants they were made under, which are never taken back.
LEMMA DrawsInductive ==
  ASSUME OverdraftTypeOK, DrawsWithinGrant, [OverdraftNext]_overdraftVars
  PROVE  DrawsWithinGrant'
<1> DEFINE Within(l) == /\ l.outstanding <= l.principal /\ l.principal <= MaxDraw
                        /\ \E j \in DOMAIN grants : /\ grants[j].pool = l.pool
                                                    /\ grants[j].to = l.borrower
                                                    /\ l.principal <= grants[j].max
<1>1. \A i \in DOMAIN loans : Within(loans[i])
  BY Zenon DEF DrawsWithinGrant
<1>2. ASSUME NEW x, NEW a, NEW m, NEW paid, Taken(paid, x, a, m), UNCHANGED <<deposited, grants>>
      PROVE  DrawsWithinGrant'
  <2>1. ASSUME NEW i \in DOMAIN loans' PROVE Within(loans[i]) /\ i \in DOMAIN loans
    BY Zenon, <1>1, <1>2, LoansTaken
  <2>2. ASSUME NEW i \in DOMAIN loans'
        PROVE  /\ loans'[i].pool = loans[i].pool /\ loans'[i].borrower = loans[i].borrower
               /\ loans'[i].principal = loans[i].principal
               /\ loans'[i].outstanding <= loans'[i].principal
    BY SMTT(20), <1>2, <2>1, LoansTaken, LoanType
  <2>. QED  BY SMTT(20), <1>2, <2>1, <2>2 DEF DrawsWithinGrant
<1>3. ASSUME NEW h \in HoldIds, SpotSend(h)
      PROVE  DrawsWithinGrant'
  <2>1. PICK q \in Pools, j \in DOMAIN grants :
          /\ grants[j].pool = q /\ grants[j].to = Sender[h]
          /\ Shortfall(h) \in Nat \ {0}
          /\ Shortfall(h) <= grants[j].max /\ Shortfall(h) <= MaxDraw
          /\ loans' = Append(loans, [hold |-> h, pool |-> q, borrower |-> Sender[h],
                                     principal |-> Shortfall(h),
                                     outstanding |-> Shortfall(h)])
    BY <1>3, SpotSendDraws, Zenon
  <2> DEFINE l == [hold |-> h, pool |-> q, borrower |-> Sender[h],
                   principal |-> Shortfall(h), outstanding |-> Shortfall(h)]
  <2>2. l \in LoanRows /\ Within(l)
    BY <2>1, SendType DEF LoanRows
  <2>3. loans' = Append(loans, l)
    BY Zenon, <2>1
  <2> HIDE DEF l
  <2>4. /\ DOMAIN loans' = DOMAIN loans \cup {Len(loans) + 1}
        /\ loans'[Len(loans) + 1] = l
        /\ \A i \in DOMAIN loans : loans'[i] = loans[i]
    BY Zenon, <2>2, <2>3, LoanAdded
  <2>5. \A i \in DOMAIN loans' : Within(loans'[i])
    <3> HIDE DEF Within
    <3>. QED  BY Zenon, <1>1, <2>2, <2>4
  <2>6. grants' = grants
    BY Zenon, <1>3 DEF SpotSend
  <2>. QED  BY Zenon, <2>5, <2>6 DEF DrawsWithinGrant
<1>4. ASSUME NEW o \in Offers, Grant(o)
      PROVE  DrawsWithinGrant'
  <2>1. grants' = Append(grants, o) /\ loans' = loans
    BY Zenon, <1>4 DEF Grant
  <2>2. DOMAIN grants \subseteq DOMAIN grants' /\ \A j \in DOMAIN grants : grants'[j] = grants[j]
    BY <2>1 DEF OverdraftTypeOK
  <2>. QED  BY <1>1, <2>1, <2>2 DEF DrawsWithinGrant
<1>5. ASSUME UNCHANGED <<grants, loans>>
      PROVE  DrawsWithinGrant'
  BY Zenon, <1>5 DEF DrawsWithinGrant
<1>. QED  BY Zenon, <1>2, <1>3, <1>4, <1>5, PoolSteps DEF Fund, poolVars

-----------------------------------------------------------------------------
(* The undo hold underneath keeps its promises when the overdraft is added.*)

\* Balances, holds and tasks keep their types.
LEMMA OverdraftTypeInductive ==
  ASSUME OverdraftTypeOK, TaskTracksHold, [OverdraftNext]_overdraftVars
  PROVE  OverdraftTypeOK'
<1> SUFFICES HoldsTypeOK'
  BY Zenon, LoansTypeInductive, ListedInductive DEF OverdraftTypeOK
<1>1. /\ balance \in [Accounts -> Nat] /\ closed \subseteq Accounts \ {Pending}
      /\ hold \in [HoldIds -> HoldStatuses] /\ task \in [HoldIds -> TaskStatuses]
      /\ attempts \in [HoldIds -> 0 .. MaxAttempts]
  BY Zenon DEF OverdraftTypeOK, HoldsTypeOK
<1>2. /\ Users \subseteq Accounts /\ Pools \subseteq Accounts /\ Pending \in Accounts
      /\ Users \cap Pools = {} /\ Pending \notin Users /\ Pending \notin Pools
  BY Zenon, AccountKinds
<1>3. balance' \in [Accounts -> Nat]
  <2>1. ASSUME NEW x \in Accounts \ Pools, NEW a \in Users, NEW m \in Nat \ {0}, NEW paid,
               Taken(paid, x, a, m)
        PROVE  balance' \in [Accounts -> Nat]
    BY Zenon, <2>1, BalancesTaken
  <2>2. ASSUME NEW h \in HoldIds, SpotSend(h)
        PROVE  balance' \in [Accounts -> Nat]
    <3>1. PICK q \in Pools :
            /\ Shortfall(h) \in Nat \ {0} /\ Shortfall(h) <= balance[q]
            /\ balance[Sender[h]] + Shortfall(h) = Amount[h]
            /\ balance' = [balance EXCEPT ![q] = @ - Shortfall(h),
                                          ![Sender[h]] = @ + Shortfall(h) - Amount[h],
                                          ![Pending] = @ + Amount[h]]
      BY <2>2, SpotSendDraws, Zenon
    <3>2. Sender[h] \in Users /\ Amount[h] \in Nat
      BY Zenon, SendType
    <3> DEFINE k == Shortfall(h)
    <3> HIDE DEF k
    <3>3. balance' = [c \in Accounts |->
                        IF c = Pending THEN balance[c] + Amount[h]
                        ELSE IF c = Sender[h] THEN balance[c] + k - Amount[h]
                        ELSE IF c = q THEN balance[c] - k ELSE balance[c]]
      BY Zenon, <1>1, <1>2, <3>1, <3>2 DEF k
    <3>4. k \in Nat /\ k <= balance[q] /\ balance[Sender[h]] + k = Amount[h]
      BY Zenon, <3>1 DEF k
    <3>. QED  BY <1>1, <1>2, <3>2, <3>3, <3>4
  <2>3. ASSUME NEW p \in Pools, NEW m \in Deposits, Fund(p, m)
        PROVE  balance' \in [Accounts -> Nat]
    <3>1. m \in Nat /\ Sponsor[p] \in Users
      BY Zenon, OverdraftAssumption
    <3>. QED  BY <1>1, <1>2, <2>3, <3>1 DEF Fund
  <2>4. ASSUME NEW h \in HoldIds, PlainSend(h)
        PROVE  balance' \in [Accounts -> Nat]
    <3>1. Sender[h] \in Users /\ Amount[h] \in Nat
      BY Zenon, SendType
    <3>. QED  BY <1>1, <1>2, <2>4, <3>1 DEF PlainSend, Send, CanSend
  <2>5. ASSUME \/ \E h \in HoldIds : SettleFails(h)
               \/ \E a \in Users : CloseUser(a)
               \/ \E o \in Offers : Grant(o)
               \/ \E h \in HoldIds : ListGrants(h) \/ SendFails(h)
               \/ UNCHANGED overdraftVars
        PROVE  UNCHANGED balance
    BY Zenon, <2>5 DEF SettleFails, CloseUser, Close, Grant, ListGrants, SendFails,
                       overdraftVars, holdVars
  <2>. QED  BY Zenon, <1>1, <2>1, <2>2, <2>3, <2>4, <2>5, CreditSteps DEF OverdraftNext
<1>4. closed' \subseteq Accounts \ {Pending}
  <2>1. \/ UNCHANGED closed
        \/ \E a \in Users : closed' = closed \cup {a}
    BY Zenon DEF OverdraftNext, Fund, Grant, PlainSend, Send, SpotSend, Undone, SettleHold,
       SettleFails, PayUser, CloseUser, Close, ListGrants, SendFails, overdraftVars, holdVars
  <2>. QED  BY Zenon, <1>1, <1>2, <2>1
<1>5. /\ hold' \in [HoldIds -> HoldStatuses]
      /\ task' \in [HoldIds -> TaskStatuses]
      /\ attempts' \in [HoldIds -> 0 .. MaxAttempts]
  <2>1. ASSUME NEW h \in HoldIds, PlainSend(h) \/ SpotSend(h) \/ Undone(h) \/ SettleHold(h)
        PROVE  /\ hold' \in [HoldIds -> HoldStatuses]
               /\ task' \in [HoldIds -> TaskStatuses]
               /\ UNCHANGED attempts
    BY Zenon, <1>1, <2>1 DEF PlainSend, Send, SpotSend, Undone, SettleHold, HoldStatuses, TaskStatuses
  <2>2. ASSUME NEW h \in HoldIds, SettleFails(h)
        PROVE  /\ UNCHANGED hold
               /\ task' \in [HoldIds -> TaskStatuses]
               /\ attempts' \in [HoldIds -> 0 .. MaxAttempts]
    <3>1. attempts[h] < MaxAttempts /\ MaxAttempts \in Nat
      BY Zenon, <2>2, MaxAttemptsAssumption DEF SettleFails, TaskTracksHold
    <3>. QED  BY <1>1, <2>2, <3>1 DEF SettleFails, AfterFailure, TaskStatuses
  <2>3. ASSUME \/ \E p \in Pools, m \in Deposits : Fund(p, m)
               \/ \E o \in Offers : Grant(o)
               \/ \E t \in Payments : PayUser(t)
               \/ \E a \in Users : CloseUser(a)
               \/ \E h \in HoldIds : ListGrants(h) \/ SendFails(h)
               \/ UNCHANGED overdraftVars
        PROVE  UNCHANGED <<hold, task, attempts>>
    BY Zenon, <2>3 DEF Fund, Grant, PayUser, CloseUser, Close, ListGrants, SendFails,
                       overdraftVars, holdVars
  <2>. QED  BY Zenon, <1>1, <2>1, <2>2, <2>3 DEF OverdraftNext
<1>. QED  BY Zenon, <1>3, <1>4, <1>5 DEF HoldsTypeOK

\* A hold's task stays in step with it.
LEMMA TasksInductive ==
  ASSUME OverdraftTypeOK, TaskTracksHold, [OverdraftNext]_overdraftVars
  PROVE  TaskTracksHold'
<1>1. /\ hold \in [HoldIds -> HoldStatuses] /\ task \in [HoldIds -> TaskStatuses]
      /\ attempts \in [HoldIds -> 0 .. MaxAttempts] /\ MaxAttempts \in Nat \ {0}
  BY Zenon, MaxAttemptsAssumption DEF OverdraftTypeOK, HoldsTypeOK
<1>2. ASSUME NEW h \in HoldIds, PlainSend(h) \/ SpotSend(h)
      PROVE  TaskTracksHold'
  <2>1. /\ hold[h] = "none"
        /\ hold' = [hold EXCEPT ![h] = "PENDING_UNDO"]
        /\ task' = [task EXCEPT ![h] = "PENDING"]
        /\ attempts' = attempts
    BY Zenon, <1>2 DEF PlainSend, Send, CanSend, SpotSend
  <2>. QED  BY SMTT(20), <1>1, <2>1 DEF TaskTracksHold
<1>3. ASSUME NEW h \in HoldIds, Undone(h)
      PROVE  TaskTracksHold'
  <2>1. /\ hold[h] = "PENDING_UNDO"
        /\ hold' = [hold EXCEPT ![h] = "REFUNDED"]
        /\ task' = [task EXCEPT ![h] = IF @ = "PENDING" THEN "CANCELLED" ELSE @]
        /\ attempts' = attempts
    BY Zenon, <1>3 DEF Undone
  <2>. QED  BY Zenon, <1>1, <2>1 DEF TaskTracksHold
<1>4. ASSUME NEW h \in HoldIds, SettleHold(h)
      PROVE  TaskTracksHold'
  <2>1. /\ hold[h] = "PENDING_UNDO" /\ task[h] = "PENDING"
        /\ hold' = [hold EXCEPT ![h] = "SUCCEEDED"]
        /\ task' = [task EXCEPT ![h] = "DONE"]
        /\ attempts' = attempts
    BY Zenon, <1>4 DEF SettleHold
  <2>. QED  BY Zenon, <1>1, <2>1 DEF TaskTracksHold
<1>5. ASSUME NEW h \in HoldIds, SettleFails(h)
      PROVE  TaskTracksHold'
  <2>1. /\ task[h] = "PENDING"
        /\ task' = [task EXCEPT ![h] = AfterFailure(h)]
        /\ attempts' = [attempts EXCEPT ![h] = @ + 1]
        /\ hold' = hold
    BY Zenon, <1>5 DEF SettleFails
  <2>. QED  BY <1>1, <2>1 DEF TaskTracksHold, AfterFailure
<1>6. ASSUME \/ \E p \in Pools, m \in Deposits : Fund(p, m)
             \/ \E o \in Offers : Grant(o)
             \/ \E t \in Payments : PayUser(t)
             \/ \E a \in Users : CloseUser(a)
             \/ \E h \in HoldIds : ListGrants(h) \/ SendFails(h)
             \/ UNCHANGED overdraftVars
      PROVE  TaskTracksHold'
  <2>1. UNCHANGED <<hold, task, attempts>>
    BY Zenon, <1>6 DEF Fund, Grant, PayUser, CloseUser, Close, ListGrants, SendFails,
                       overdraftVars, holdVars
  <2>. QED  BY Zenon, <2>1 DEF TaskTracksHold
<1>. QED  BY <1>2, <1>3, <1>4, <1>5, <1>6, Zenon DEF OverdraftNext

\* One hold more or less is its amount more or less held.
LEMMA WorthOfOne ==
  ASSUME NEW H \in SUBSET HoldIds, NEW h \in HoldIds, h \notin H
  PROVE  /\ Worth(H) \in Nat /\ Worth(H \cup {h}) \in Nat
         /\ Worth(H \cup {h}) = Worth(H) + Amount[h]
<1>1. IsFiniteSet(H) /\ IsFiniteSet({h}) /\ H \cap {h} = {}
  BY HoldsAssumption, FS_Subset, FS_Singleton
<1>2. \A g \in H \cup {h} : Amount[g] \in Nat
  BY Zenon, SendType
<1>3. NatSum(H \cup {h}, Amount) = NatSum(H, Amount) + NatSum({h}, Amount)
  BY <1>1, <1>2, NatSumUnion
<1>4. NatSum({h}, Amount) = Amount[h]
  BY ZenonT(30), <1>2, NatSumSingle
<1>5. NatSum(H, Amount) \in Nat
  BY Zenon, <1>1, <1>2, NatSumPartType
<1>. QED  BY <1>2, <1>3, <1>4, <1>5 DEF Worth

\* A credit costs the payer its amount, and no bystander anything.
LEMMA CreditLeaves ==
  ASSUME OverdraftTypeOK, NEW x \in Accounts \ Pools, NEW a \in Users, NEW m \in Nat,
         Credit(x, a, m)
  PROVE  /\ balance'[x] = balance[x] - m
         /\ \A c \in Accounts \ Pools : c # x /\ c # a => balance'[c] = balance[c]
BY CreditTakes, BalancesTaken

\* The pending-settlement account stays backed: the lien takes its repayments from the
\* borrower after the credit, never from the money that is held.
LEMMA BackedInductive ==
  ASSUME OverdraftTypeOK, HoldingBacked, [OverdraftNext]_overdraftVars
  PROVE  HoldingBacked'
<1>1. balance \in [Accounts -> Nat] /\ hold \in [HoldIds -> HoldStatuses]
  BY Zenon DEF OverdraftTypeOK, HoldsTypeOK
<1>2. /\ Users \subseteq Accounts /\ Pools \subseteq Accounts /\ Pending \in Accounts
      /\ Users \cap Pools = {} /\ Pending \notin Users /\ Pending \notin Pools
  BY AccountKinds
<1>3. balance[Pending] = Worth(Open) /\ balance[Pending] \in Nat
  BY Zenon, <1>1, <1>2 DEF HoldingBacked
<1>4. ASSUME NEW h \in HoldIds, PlainSend(h) \/ SpotSend(h)
      PROVE  HoldingBacked'
  <2>1. hold[h] = "none" /\ hold' = [hold EXCEPT ![h] = "PENDING_UNDO"]
    BY Zenon, <1>4 DEF PlainSend, Send, CanSend, SpotSend
  <2>2. Open' = Open \cup {h} /\ h \notin Open /\ Open \in SUBSET HoldIds
    BY Zenon, <1>1, <2>1 DEF Open
  <2>3. balance'[Pending] = balance[Pending] + Amount[h]
    <3>1. Sender[h] \in Users
      BY Zenon, SendType
    <3>2. CASE PlainSend(h)
      BY Zenon, <1>1, <1>2, <3>1, <3>2 DEF PlainSend, Send
    <3>3. CASE SpotSend(h)
      <4>1. PICK q \in Pools :
              balance' = [balance EXCEPT ![q] = @ - Shortfall(h),
                                         ![Sender[h]] = @ + Shortfall(h) - Amount[h],
                                         ![Pending] = @ + Amount[h]]
        BY <3>3, SpotSendDraws, Zenon
      <4>. QED  BY Zenon, <1>1, <1>2, <3>1, <4>1
    <3>. QED  BY Zenon, <1>4, <3>2, <3>3
  <2>. QED  BY Zenon, <1>3, <2>2, <2>3, WorthOfOne DEF HoldingBacked
<1>5. ASSUME NEW h \in HoldIds, Undone(h) \/ SettleHold(h)
      PROVE  HoldingBacked'
  <2>1. PICK a \in Users : Credit(Pending, a, Amount[h])
    BY Zenon, <1>5, SendType DEF Undone, SettleHold
  <2>2. Amount[h] \in Nat
    BY Zenon, SendType
  <2>3. balance'[Pending] = balance[Pending] - Amount[h]
    BY Zenon, <1>2, <2>1, <2>2, CreditLeaves
  <2>4. hold[h] = "PENDING_UNDO" /\ \E s \in {"REFUNDED", "SUCCEEDED"} :
          hold' = [hold EXCEPT ![h] = s]
    BY Zenon, <1>5 DEF Undone, SettleHold
  <2>5. /\ Open = Open' \cup {h} /\ h \notin Open' /\ Open' \in SUBSET HoldIds
    BY Zenon, <1>1, <2>4 DEF Open
  <2>6. Worth(Open') \in Nat /\ Worth(Open) = Worth(Open') + Amount[h]
    BY Zenon, <2>5, WorthOfOne
  <2>7. balance'[Pending] = Worth(Open')
    BY <1>3, <2>2, <2>3, <2>6
  <2>. QED  BY Zenon, <2>7 DEF HoldingBacked, Worth
<1>6. ASSUME NEW t \in Payments, PayUser(t)
      PROVE  UNCHANGED hold /\ balance'[Pending] = balance[Pending]
  <2>1. t.from \in Users /\ t.to \in Users /\ t.amount \in Nat
    BY Zenon, PaymentType
  <2>2. Credit(t.from, t.to, t.amount) /\ UNCHANGED hold
    BY Zenon, <1>6 DEF PayUser
  <2>3. t.from \in Accounts \ Pools
    BY Zenon, <1>2, <2>1
  <2>4. \A c \in Accounts \ Pools : c # t.from /\ c # t.to => balance'[c] = balance[c]
    BY <2>1, <2>2, <2>3, CreditLeaves, Zenon
  <2>. QED  BY Zenon, <1>2, <2>1, <2>2, <2>4
<1>7. ASSUME NEW p \in Pools, NEW m \in Deposits, Fund(p, m)
      PROVE  UNCHANGED hold /\ balance'[Pending] = balance[Pending]
  <2>1. Sponsor[p] \in Users
    BY Zenon, OverdraftAssumption
  <2>. QED  BY Zenon, <1>1, <1>2, <1>7, <2>1 DEF Fund
<1>8. ASSUME \/ \E h \in HoldIds : SettleFails(h)
             \/ \E a \in Users : CloseUser(a)
             \/ \E o \in Offers : Grant(o)
             \/ \E h \in HoldIds : ListGrants(h) \/ SendFails(h)
             \/ UNCHANGED overdraftVars
      PROVE  UNCHANGED hold /\ balance'[Pending] = balance[Pending]
  BY Zenon, <1>8 DEF SettleFails, CloseUser, Close, Grant, ListGrants, SendFails,
                     overdraftVars, holdVars
<1>9. ASSUME UNCHANGED hold, balance'[Pending] = balance[Pending]
      PROVE  HoldingBacked'
  BY Zenon, <1>9 DEF HoldingBacked, Open, Worth
<1>. QED  BY Zenon, <1>4, <1>5, <1>6, <1>7, <1>8, <1>9 DEF OverdraftNext

-----------------------------------------------------------------------------
(* The theorems.                                                           *)

\* The inductive invariant of the overdraft on top of the undo hold.
OverdraftInv ==
  /\ OverdraftTypeOK
  /\ TaskTracksHold
  /\ HoldingBacked
  /\ PoolSolvent
  /\ OldestLoanFirst
  /\ DrawsWithinGrant

\* It holds before the first sponsor funds a pool.
LEMMA InitSolvent ==
  ASSUME OverdraftInit
  PROVE  OverdraftInv
<1> USE DEF OverdraftInit, HoldsInit
<1>1. OverdraftTypeOK
  BY HoldsOpeningAssumption, MaxAttemptsAssumption
     DEF OverdraftTypeOK, HoldsTypeOK, HoldStatuses, TaskStatuses
<1>2. TaskTracksHold
  BY Zenon, MaxAttemptsAssumption DEF TaskTracksHold
<1>3. HoldingBacked
  <2>1. Open = {}
    BY Zenon DEF Open
  <2>2. Worth(Open) = 0
    BY Zenon, <2>1, NatSumEmpty DEF Worth
  <2>. QED  BY Zenon, <2>2, HoldsOpeningAssumption DEF HoldingBacked
<1>4. PoolSolvent
  <2> SUFFICES ASSUME NEW p \in Pools
               PROVE  balance[p] + NatSum({i \in DOMAIN loans : loans[i].pool = p}, Outstanding)
                        = deposited[p]
    BY Zenon DEF PoolSolvent
  <2>1. {i \in DOMAIN loans : loans[i].pool = p} = {}
    OBVIOUS
  <2>2. NatSum({i \in DOMAIN loans : loans[i].pool = p}, Outstanding) = 0
    BY Zenon, <2>1, NatSumEmpty
  <2>3. balance[p] = 0 /\ deposited[p] = 0
    BY Zenon, OverdraftAssumption
  <2>. QED  BY <2>2, <2>3
<1>5. OldestLoanFirst /\ DrawsWithinGrant
  BY DEF OldestLoanFirst, DrawsWithinGrant
<1>. QED  BY Zenon, <1>1, <1>2, <1>3, <1>4, <1>5 DEF OverdraftInv

\* Every transaction of OverdraftService, the worker and TransferUseCase keeps it.
THEOREM OverdraftInvariant == OverdraftSpec => []OverdraftInv
<1>1. OverdraftInit => OverdraftInv
  BY Zenon, InitSolvent
<1>2. OverdraftInv /\ [OverdraftNext]_overdraftVars => OverdraftInv'
  BY Zenon, OverdraftTypeInductive, TasksInductive, BackedInductive, SolventInductive,
     OldestFirstInductive, DrawsInductive DEF OverdraftInv
<1>. QED  BY <1>1, <1>2, PTL DEF OverdraftSpec

\* Balances never become negative, whatever is drawn, repaid and refunded.
THEOREM OverdraftTypes == OverdraftSpec => []OverdraftTypeOK
<1>1. OverdraftInv => OverdraftTypeOK
  BY Zenon DEF OverdraftInv
<1>. QED  BY <1>1, OverdraftInvariant, PTL

\* The undo hold stays backed when its refunds and settlements are credits that a lien is
\* taken from, and when a pool pays part of what is held.
THEOREM HoldsBackedWithOverdraft == OverdraftSpec => []HoldingBacked
<1>1. OverdraftInv => HoldingBacked
  BY Zenon DEF OverdraftInv
<1>. QED  BY <1>1, OverdraftInvariant, PTL

\* A pool's balance and its outstanding loans always add up to what its sponsor paid in
\* (OverdraftService.send, after_credit).
THEOREM PoolsStaySolvent == OverdraftSpec => []PoolSolvent
<1>1. OverdraftInv => PoolSolvent
  BY Zenon DEF OverdraftInv
<1>. QED  BY <1>1, OverdraftInvariant, PTL

\* after_credit repays the oldest loan first over any number of partial repayments.
THEOREM RepaidOldestFirst == OverdraftSpec => []OldestLoanFirst
<1>1. OverdraftInv => OldestLoanFirst
  BY Zenon DEF OverdraftInv
<1>. QED  BY <1>1, OverdraftInvariant, PTL

\* OverdraftService.send lends no more than a grant of that pool to that borrower allows.
THEOREM DrawsGranted == OverdraftSpec => []DrawsWithinGrant
<1>1. OverdraftInv => DrawsWithinGrant
  BY Zenon DEF OverdraftInv
<1>. QED  BY <1>1, OverdraftInvariant, PTL

\* Only a credit to a user lowers what they owe, by what was taken from it.
LEMMA DebtFalls ==
  ASSUME OverdraftTypeOK, [OverdraftNext]_overdraftVars, \A m \in Nat : 2 * Budget(m) <= m,
         NEW b \in Users
  PROVE  Debt(b)' < Debt(b) => balance'[b] - balance[b] >= Debt(b) - Debt(b)'
<1>1. balance \in [Accounts -> Nat] /\ b \in Accounts
  BY Zenon, AccountKinds DEF OverdraftTypeOK, HoldsTypeOK
<1>2. ASSUME NEW x \in Accounts \ Pools, NEW a \in Users, NEW m \in Nat \ {0}, NEW paid,
             Taken(paid, x, a, m)
      PROVE  Debt(b)' < Debt(b) => balance'[b] - balance[b] >= Debt(b) - Debt(b)'
  <2> DEFINE S == {i \in DOMAIN loans : loans[i].borrower = b}
             total == NatSum(DOMAIN loans, paid)
  <2>1. S = {i \in DOMAIN loans' : loans'[i].borrower = b}
    BY Zenon, <1>2, LoansTaken
  <2>2. Debt(b) = NatSum(S, Outstanding) /\ Debt(b)' = NatSum(S, Outstanding')
    BY Zenon, <2>1 DEF Debt
  <2>3. S \in SUBSET DOMAIN loans
    BY Zenon
  <2>4. /\ Debt(b) = Debt(b)' + NatSum(S, paid)
        /\ Debt(b) \in Nat /\ Debt(b)' \in Nat
        /\ NatSum(S, paid) \in Nat /\ NatSum(S, paid) <= total
    <3> HIDE DEF S
    <3>. QED  BY Zenon, <1>2, <2>2, <2>3, OwedFalls
  <2>5. b # a => Debt(b)' = Debt(b)
    <3> SUFFICES ASSUME b # a PROVE Debt(b)' = Debt(b)
      BY Zenon
    <3>1. \A i \in S : paid[i] = 0
      BY <1>2, LoansTaken DEF Taken
    <3>2. Units(S, paid) = {}
      BY <3>1 DEF Units
    <3>3. NatSum(S, paid) = 0
      BY Zenon, <3>2, FS_EmptySet DEF NatSum
    <3> HIDE DEF S, total
    <3>. QED  BY <2>4, <3>3
  <2>6. balance'[a] = balance[a] + m - total /\ total \in Nat
    <3>1. balance'[a] = balance[a] + m - NatSum(DOMAIN loans, paid)
      BY <1>2, BalancesTaken, Zenon
    <3>. QED  BY <1>2, <3>1, Zenon DEF Taken
  <2>7. total <= Budget(m) /\ Budget(m) \in Nat /\ 2 * Budget(m) <= m
    BY Zenon, <1>2, BudgetBound DEF Taken
  <2> HIDE DEF S, total
  <2>. QED  BY SMTT(20), <1>1, <2>4, <2>5, <2>6, <2>7
<1>3. ASSUME NEW h \in HoldIds, SpotSend(h)
      PROVE  ~(Debt(b)' < Debt(b))
  <2>1. PICK q \in Pools :
          /\ Shortfall(h) \in Nat \ {0}
          /\ loans' = Append(loans, [hold |-> h, pool |-> q, borrower |-> Sender[h],
                                     principal |-> Shortfall(h),
                                     outstanding |-> Shortfall(h)])
    BY <1>3, SpotSendDraws, Zenon
  <2> DEFINE l == [hold |-> h, pool |-> q, borrower |-> Sender[h],
                   principal |-> Shortfall(h), outstanding |-> Shortfall(h)]
  <2>2. l \in LoanRows /\ loans' = Append(loans, l)
    BY Zenon, <2>1, SendType DEF LoanRows
  <2> HIDE DEF l
  <2>3. Debt(b) \in Nat /\ Debt(b)' \in Nat /\ Debt(b)' >= Debt(b)
    BY Zenon, <2>2, DrawAdds
  <2>. QED  BY <2>3
<1>4. ASSUME UNCHANGED loans
      PROVE  ~(Debt(b)' < Debt(b))
  <2>1. Debt(b)' = Debt(b)
    BY Zenon, <1>4 DEF Debt, Outstanding
  <2>2. Debt(b) \in Nat
    <3>1. IsFiniteSet({i \in DOMAIN loans : loans[i].borrower = b})
      BY Zenon, LoanType, FS_Subset
    <3>2. \A i \in DOMAIN loans : Outstanding[i] \in Nat
      BY Zenon, LoanType DEF Outstanding
    <3>. QED  BY Zenon, <3>1, <3>2, NatSumPartType DEF Debt
  <2>. QED  BY <2>1, <2>2
<1>. QED  BY Zenon, <1>2, <1>3, <1>4, PoolSteps DEF Fund, Grant, poolVars

\* With half a credit, the LIEN_SWEEP_BASIS_POINTS the service is built with, or less, a
\* borrower keeps at least as much of every credit as is taken from it.
THEOREM BorrowersKeepHalf ==
  ASSUME 2 * LienBasisPoints <= Whole
  PROVE  OverdraftSpec => BorrowerKeepsHalf
<1>1. OverdraftTypeOK /\ [OverdraftNext]_overdraftVars
        => [\A a \in Users : Debt(a)' < Debt(a) => balance'[a] - balance[a] >= Debt(a) - Debt(a)'
           ]_overdraftVars
  <2>1. \A m \in Nat : 2 * Budget(m) <= m
    BY BudgetBound
  <2>. QED  BY <2>1, DebtFalls
<1>. QED  BY <1>1, OverdraftTypes, PTL DEF OverdraftSpec, BorrowerKeepsHalf
=============================================================================
