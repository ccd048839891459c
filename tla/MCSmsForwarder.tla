--------------------------- MODULE MCSmsForwarder ---------------------------
(* Instance of SmsForwarder for TLC. *)
EXTENDS SmsForwarder

\* The server never takes the first message, and no request can be built for
\* the third.
MCRefused     == {1}
MCUnbuildable == {3}
=============================================================================
