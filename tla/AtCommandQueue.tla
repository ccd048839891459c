-------------------------- MODULE AtCommandQueue --------------------------
(***************************************************************************)
(* What the AT channel promises its clients, without the ring, the clock   *)
(* and the line parser: commands are written to the modem in the order in  *)
(* which they were accepted, one at a time, and each one is completed      *)
(* exactly once, in that order.                                            *)
(***************************************************************************)
EXTENDS Integers, Sequences

CONSTANTS Commands, QueueCapacity

Results == {"Ok", "Error", "Timeout"}

VARIABLES
  accepted,   \* the commands taken by submit(), oldest first
  written,    \* the commands written to the modem
  completed   \* <<command, result>> of every callback made

vars == <<accepted, written, completed>>

Outstanding == Len(written) > Len(completed)

Waiting == Len(accepted) - Len(written)

Init == accepted = <<>> /\ written = <<>> /\ completed = <<>>

\* A client is told that the command will be run.
Submit(c) ==
  /\ Waiting < QueueCapacity
  /\ accepted' = Append(accepted, c)
  /\ UNCHANGED <<written, completed>>

\* The oldest waiting command goes out when nothing is outstanding.
Write ==
  /\ ~Outstanding
  /\ Waiting > 0
  /\ written' = Append(written, accepted[Len(written) + 1])
  /\ UNCHANGED <<accepted, completed>>

\* The outstanding command is answered, or given up.  Its callback may
\* submit one more command, and the next command may go out at once.
Complete(r) ==
  /\ Outstanding
  /\ completed' = Append(completed, <<written[Len(written)], r>>)
  /\ \/ accepted' = accepted
     \/ Waiting < QueueCapacity /\ \E c \in Commands : accepted' = Append(accepted, c)
  /\ \/ written' = written
     \/ /\ Len(accepted') > Len(written)
        /\ written' = Append(written, accepted'[Len(written) + 1])

Next == (\E c \in Commands : Submit(c)) \/ Write \/ (\E r \in Results : Complete(r))

Spec == Init /\ [][Next]_vars
=============================================================================
