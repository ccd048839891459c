---------------------------- MODULE ModemEvents ----------------------------
(***************************************************************************)
(* modem_events_core.cpp: the state of the SIM as the URCs tell it.  The   *)
(* modem reports a short contact loss as +CPIN: SIM REMOVED next to        *)
(* +CPIN: READY, in either order, so a removal counts only when no READY   *)
(* is near it.                                                             *)
(***************************************************************************)
EXTENDS Clock32

CONSTANTS
  PairWindow,   \* kCpinPairWindowMs
  CountMod,     \* 2^16 in the code: cpinReadyCount is an uint16_t
  MaxLoopGap,   \* bound: milliseconds between two polls
  HistoryCap    \* bound: how far sinceRemoved counts

ModemEventsAssumption ==
  /\ PairWindow \in Nat \ {0} /\ MaxLoopGap \in Nat \ {0} /\ HistoryCap \in Nat
  /\ CountMod \in Nat \ {0, 1}
  /\ PairWindow + MaxLoopGap < ClockMod
  /\ PairWindow + MaxLoopGap <= HistoryCap

VARIABLES
  simState, cpinReadyCount, lastReady, lastRemoved,  \* the snapshot
  now, gap,        \* millis(), time since the last poll
  sinceReady,      \* history: true time since the last READY, exact for the
                   \* first turn of the clock and then modulo one; Never when
                   \* there was none
  sinceRemoved,    \* history: true time since the last SIM REMOVED, counted
                   \* up to HistoryCap; HistoryCap when there was none
  contact          \* history: what the last +CPIN: report was

vars == <<simState, cpinReadyCount, lastReady, lastRemoved, now, gap, sinceReady, sinceRemoved,
          contact>>

SimStates == {"unknown", "ready", "suspect_removed", "removed"}
Count(x) == IF x > HistoryCap THEN HistoryCap ELSE x

Never == 2 * ClockMod

\* A millisecond later; after two turns of the clock as after one.
Aged(x) ==
  IF x = Never THEN Never ELSE IF x + 1 = 2 * ClockMod THEN ClockMod ELSE x + 1

\* No report, a READY, or a SIM REMOVED: with a READY in the window before it,
\* with the last READY whole turns of the clock and no more than the window
\* before it, or with no READY near it.
Contacts == {"none", "ready", "paired", "turned", "alone"}

ContactNow ==
  IF sinceReady <= PairWindow THEN "paired"
  ELSE IF sinceReady \in ClockMod .. ClockMod + PairWindow THEN "turned"
  ELSE "alone"

\* begin()
Init ==
  /\ simState = "unknown" /\ cpinReadyCount = 0
  /\ lastReady = 0 /\ lastRemoved = 0
  /\ now \in {0, ClockMod - 2} /\ gap = 0
  /\ sinceReady = Never /\ sinceRemoved = HistoryCap
  /\ contact = "none"

-----------------------------------------------------------------------------

\* poll()
\* Faulty variant: the stamp is compared with an order of the clock's values.
Polled_Unwrapped ==
  IF simState = "suspect_removed" /\ now >= lastRemoved + PairWindow THEN "removed" ELSE simState

Polled ==
  IF simState = "suspect_removed" /\ Since(now, lastRemoved) >= PairWindow
  THEN "removed" ELSE simState

Poll ==
  /\ gap' = 0
  /\ simState' = Polled
  /\ UNCHANGED <<cpinReadyCount, lastReady, lastRemoved, now, sinceReady, sinceRemoved, contact>>

\* onUrc() with +CPIN: READY; the poll() it begins with changes nothing that
\* it does not overwrite, and with any other line it is all that matters.
UrcReady ==
  /\ simState' = "ready"
  /\ cpinReadyCount' = (cpinReadyCount + 1) % CountMod
  /\ lastReady' = now
  /\ sinceReady' = 0
  /\ contact' = "ready"
  /\ UNCHANGED <<lastRemoved, now, gap, sinceRemoved>>

\* onUrc() with +CPIN: SIM REMOVED.
\* Faulty variant: a READY before the removal does not count.
ReadyIsNear_Never == FALSE

ReadyIsNear == cpinReadyCount > 0 /\ Since(now, lastReady) <= PairWindow

UrcRemoved ==
  /\ simState' = IF ReadyIsNear THEN "ready" ELSE "suspect_removed"
  /\ lastRemoved' = now
  /\ sinceRemoved' = 0
  /\ contact' = ContactNow
  /\ UNCHANGED <<cpinReadyCount, lastReady, now, gap, sinceReady>>

Tick ==
  /\ gap < MaxLoopGap
  /\ gap' = gap + 1
  /\ now' = Plus(now, 1)
  /\ sinceReady' = Aged(sinceReady)
  /\ sinceRemoved' = Count(sinceRemoved + 1)
  /\ UNCHANGED <<simState, cpinReadyCount, lastReady, lastRemoved, contact>>

Next == Poll \/ UrcReady \/ UrcRemoved \/ Tick

Spec == Init /\ [][Next]_vars

-----------------------------------------------------------------------------

\* Types, and the bounds of the clocks.
TypeOK ==
  /\ simState \in SimStates /\ cpinReadyCount \in 0 .. CountMod - 1
  /\ lastReady \in Time /\ lastRemoved \in Time /\ now \in Time
  /\ gap \in 0 .. MaxLoopGap
  /\ sinceReady \in 0 .. Never /\ sinceRemoved \in 0 .. HistoryCap
  /\ contact \in Contacts

\* A SIM that went with no READY near it is suspected at once and reported as
\* removed when the window is over: no earlier, at any value of millis(), and
\* no more than one round of loop() later.  A removal whose last READY is
\* whole turns of millis() old ("turned") is the one the code may miss: it
\* compares the stamp of that READY and nothing makes the stamp expire.
VerdictInTime ==
  /\ contact = "alone" => simState \in {"suspect_removed", "removed"}
  /\ simState = "suspect_removed" => sinceRemoved < PairWindow + MaxLoopGap
  /\ simState = "removed" => sinceRemoved >= PairWindow

\* A contact loss, reported within the window after a READY or followed by
\* one, never leaves the SIM reported as gone.  The code takes a count of 0
\* for "no READY yet", also when the count has wrapped: then, and only then,
\* the READY before the removal is overlooked.
PairIsReady ==
  /\ contact = "ready" => simState = "ready"
  /\ contact = "paired" /\ cpinReadyCount > 0 => simState = "ready"
=============================================================================
