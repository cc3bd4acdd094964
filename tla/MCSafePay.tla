------------------------------ MODULE MCSafePay ------------------------------
(* Two orders between two users who buy from each other: closing one       *)
(* buyer's account closes the other order's seller.                        *)
EXTENDS SafePay

CONSTANTS p1

MCBuyer == [e \in Escrows |-> IF e = 1 THEN 1 ELSE 2]
MCSeller == [e \in Escrows |-> IF e = 1 THEN 2 ELSE 1]
MCPrice == [e \in Escrows |-> 3 - e]
MCOpening == [a \in Accounts |-> IF a = 0 THEN 0 ELSE IF a = 1 THEN 2 ELSE 1]

\* Each command is tried once, but the code of the first order three times:
\* twice to be locked out and once while it is.
MCKeys ==
  [c \in {"create", "ship", "confirm", "dispute", "resolve", "courier"} |-> {1}]
MCCodeKeys == [e \in Escrows |-> IF e = 1 THEN 1 .. 3 ELSE {1}]
=============================================================================
