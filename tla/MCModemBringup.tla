---------------------------- MODULE MCModemBringup ----------------------------
(* Instances of ModemBringup for TLC. *)
EXTENDS ModemBringup
=============================================================================
