------------------------ MODULE MCSmsReceiveWatchdog ------------------------
(* Instances of SmsReceiveWatchdog for TLC. *)
EXTENDS SmsReceiveWatchdog
=============================================================================
