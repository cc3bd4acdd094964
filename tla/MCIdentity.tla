------------------------------ MODULE MCIdentity ------------------------------
(* Two clients register one number and share its sessions.                 *)
EXTENDS Identity, TLC

MCSymmetry == Permutations(Clients) \cup Permutations(UserIds)
=============================================================================
