----------------------------- MODULE MCModemAt -----------------------------
(* Instances of ModemAt for TLC. *)
EXTENDS ModemAt

CONSTANTS cmgr, cereg

\* Two commands, one of them AT+CEREG?, with different timeouts.
MCCommands     == {cmgr, cereg}
MCCeregQueries == {cereg}
MCTimeoutMs    == [c \in MCCommands |-> IF c = cereg THEN 1 ELSE 2]

\* The clock wraps while the first command runs.
MCStartTimes   == {ClockMod - 2}

\* Time as the channel sees it: how far the deadline of the current command is
\* away.  Two states that differ in nothing else have the same future, because
\* no definition reads millis() but through that difference, and deadline and
\* age mean nothing when no command is current.
TimeLeft == IF at.hasCurrent THEN <<Since(at.deadline, now), age>> ELSE <<>>
MCView ==
  <<TimeLeft, [at EXCEPT !.deadline = 0], modemVars, gap, pc, rx, delivered,
    accepted, written, completed, answers>>
=============================================================================
