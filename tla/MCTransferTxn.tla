---------------------------- MODULE MCTransferTxn ----------------------------
(***************************************************************************)
(* Instances of TransferTxn: users with an account each, the issuance      *)
(* account, and the commands the clients keep submitting.                  *)
(***************************************************************************)
EXTENDS TransferTxn, TLC

CONSTANTS c1, c2, c3, ann, bob, eve

Cmd(u, k, from, to, m, kd) ==
  [actor |-> u, key |-> k, sender |-> from, receiver |-> to, amount |-> m, kind |-> kd]

MCOwner == [a \in Accounts |-> IF a = 0 THEN NoUser ELSE IF a = 1 THEN ann
                               ELSE IF a = 2 THEN bob ELSE eve]
MCUsers == {MCOwner[a] : a \in Accounts} \ {NoUser}
MCOpening == [a \in Accounts |-> IF a = 0 THEN -4 ELSE IF a = 1 THEN 3
                                 ELSE IF a = 2 THEN 1 ELSE 0]

\* A command, submitted again and again, racing another use of its key with another
\* payload; and the grant to a new account.
MCRetries ==
  c1 :> Cmd(ann, 1, 1, 2, 2, "P2P_SEND") @@
  c2 :> Cmd(ann, 1, 1, 2, 1, "P2P_SEND") @@
  c3 :> Cmd(eve, 1, 0, 3, 2, "SIGNUP_GRANT")

\* Two payments out of one account that together exceed its balance, and the daily
\* limit too once the payment in the other direction has come in.
MCSpending ==
  c1 :> Cmd(ann, 1, 1, 2, 2, "P2P_SEND") @@
  c2 :> Cmd(ann, 2, 1, 2, 2, "P2P_SEND") @@
  c3 :> Cmd(bob, 1, 2, 1, 1, "P2P_SEND")
=============================================================================
