--------------------------- MODULE MCMoneyRequest ---------------------------
(* A payer with two devices is asked twice by the same requester and can   *)
(* afford only one of the two.                                             *)
EXTENDS MoneyRequest, TLC

CONSTANTS payer, requester

MCCaller == [c \in Clients |-> payer]
MCRequester == [r \in Requests |-> requester]
MCPayer == [r \in Requests |-> payer]
MCAmount == [r \in Requests |-> r]
MCDevices == Permutations(Clients)
MCOpening == [u \in Users |-> IF u = payer THEN 2 ELSE 0]
=============================================================================
