-------------------------------- MODULE Sums --------------------------------
(***************************************************************************)
(* Finite sums of money.  A sum of natural numbers is the number of units  *)
(* it is made of: one pair <<a, i>> for each of the f[a] minor units that  *)
(* a holds.  Written this way, sums are cardinalities, and everything the  *)
(* proofs need follows from the library's theorems on finite sets.         *)
(***************************************************************************)
EXTENDS Integers, FiniteSets

Units(S, f) == UNION {{a} \X (1 .. f[a]) : a \in S}

NatSum(S, f) == Cardinality(Units(S, f))

PositivePart(S, f) == [a \in S |-> IF f[a] > 0 THEN f[a] ELSE 0]

NegativePart(S, f) == [a \in S |-> IF f[a] < 0 THEN -f[a] ELSE 0]

\* The sum of the integers f[a], for a in the finite set S.
Sum(S, f) == NatSum(S, PositivePart(S, f)) - NatSum(S, NegativePart(S, f))
=============================================================================
