------------------------------ MODULE MCDelivery ------------------------------
(* The durations of the code in units of five seconds: 60, 5, 15 and 10 s. *)
EXTENDS Delivery
=============================================================================
