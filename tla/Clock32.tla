------------------------------ MODULE Clock32 ------------------------------
(***************************************************************************)
(* The millisecond clock of the firmware.  millis() is an unsigned 32-bit  *)
(* counter that wraps, so every deadline is a sum modulo 2^32 and every    *)
(* "is it due" test is the sign of a 32-bit difference:                    *)
(*                                                                         *)
(*     static_cast<int32_t>(nowMs - deadlineMs) >= 0                       *)
(*                                                                         *)
(* ClockMod stands for 2^32.  The instances give it a small even value, so *)
(* that the wrap-around happens inside every run.                          *)
(***************************************************************************)
EXTENDS Integers

CONSTANT ClockMod

ASSUME ClockModAssumption == ClockMod \in Nat /\ ClockMod > 0 /\ ClockMod % 2 = 0

Time == 0 .. ClockMod - 1

HalfRange == ClockMod \div 2

\* nowMs + delayMs in uint32_t.
Plus(t, delay) == (t + delay) % ClockMod

\* nowMs - thenMs in uint32_t.
Since(now, then) == (now - then) % ClockMod

\* Faulty variant of Due: a plain comparison.
Due_Unsigned(now, deadline) == now >= deadline

\* static_cast<int32_t>(nowMs - deadlineMs) >= 0
Due(now, deadline) == Since(now, deadline) < HalfRange
=============================================================================
