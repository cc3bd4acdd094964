------------------------------ MODULE Payments ------------------------------
(***************************************************************************)
(* What the transfer use case promises its callers: a command with a given *)
(* (actor, key) takes effect at most once, all at once, and only when the  *)
(* sending account can pay for it at that moment.  Requests, retries,      *)
(* transactions and locks are not visible.                                 *)
(***************************************************************************)
EXTENDS Integers

CONSTANTS Clients, Accounts, Issuance, Command, Opening

VARIABLES
  balance,   \* account -> balance
  applied    \* the (actor, key) pairs that have taken effect

Key(c) == <<Command[c].actor, Command[c].key>>

Init ==
  /\ balance = Opening
  /\ applied = {}

Pay(c) ==
  LET cmd == Command[c] IN
  /\ Key(c) \notin applied
  /\ cmd.sender # cmd.receiver
  /\ cmd.sender = Issuance \/ balance[cmd.sender] >= cmd.amount
  /\ balance' = [balance EXCEPT ![cmd.sender] = @ - cmd.amount,
                                ![cmd.receiver] = @ + cmd.amount]
  /\ applied' = applied \cup {Key(c)}

Next == \E c \in Clients : Pay(c)

Spec == Init /\ [][Next]_<<balance, applied>>
=============================================================================
