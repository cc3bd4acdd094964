----------------------------- MODULE MCOverdraft -----------------------------
(* Account 0 is pending settlement; 1 and 2 sponsor the pools 4 and 5; 3    *)
(* borrows from both, and is paid by the others.                            *)
EXTENDS Overdraft

MCAccounts == 0 .. 5
MCSponsor == [p \in {4, 5} |-> p - 3]
MCOpening == [a \in MCAccounts |-> CASE a = 1 -> 5 [] a = 2 -> 3 [] OTHER -> 0]
MCSender == [h \in HoldIds |-> IF h = 3 THEN 1 ELSE 3]
MCReceiver == [h \in HoldIds |-> IF h = 3 THEN 3 ELSE 1]
MCAmount == [h \in HoldIds |-> CASE h = 1 -> 2 [] h = 2 -> 3 [] OTHER -> 3]
MCOffers == {[pool |-> 4, to |-> 3, max |-> 2], [pool |-> 5, to |-> 3, max |-> 3]}
MCPayments == {[from |-> 1, to |-> 3, amount |-> 1]}
=============================================================================
