------------------------------ MODULE MCUndoRace ------------------------------
(***************************************************************************)
(* Instances of UndoRace: two users, the pending-settlement account, and   *)
(* holds in opposite directions.                                           *)
(***************************************************************************)
EXTENDS UndoRace, TLC

CONSTANTS u1, u2, u3, d1, w1, w2

MCAccounts == {0, 1, 2}
MCSender == 1 :> 1 @@ 2 :> 2
MCReceiver == 1 :> 2 @@ 2 :> 1
MCAmount == 1 :> 1 @@ 2 :> 2
MCOpening == 0 :> 0 @@ 1 :> 1 @@ 2 :> 2

MCTarget == [u \in Undoers |-> 1]
\* One intent to undo submitted twice, and another one.
MCUndoKey == [u \in Undoers |-> IF u = u3 THEN 2 ELSE 1]

MCFrom == [d \in Directs |-> 1]
MCTo == [d \in Directs |-> 2]
MCPays == [d \in Directs |-> 1]
=============================================================================
