------------------------------ MODULE MCDelivery ------------------------------
(* Two events that relays may claim apart or together, and two workers     *)
(* that may receive copies of the same event.                              *)
EXTENDS Delivery
=============================================================================
