-------------------------- MODULE MCDataConnection --------------------------
(* Instances of DataConnection for TLC. *)
EXTENDS DataConnection

\* The IMS context and one for data.
MCListings ==
  { [ contexts |-> <<[cid |-> 1, apn |-> "ims"], [cid |-> 2, apn |-> "web"]>>, active |-> {2} ] }
=============================================================================
