--------------------------- MODULE Clock32Proofs ---------------------------
(***************************************************************************)
(* Facts about the wrapping clock, for every even width of it.             *)
(***************************************************************************)
EXTENDS Clock32, TLAPS

LEMMA HalfRangeType == HalfRange \in Nat /\ ClockMod = 2 * HalfRange /\ HalfRange > 0
  BY ClockModAssumption DEF HalfRange

LEMMA PlusType == \A t \in Int, d \in Int : Plus(t, d) \in Time
  BY ClockModAssumption DEF Plus, Time

\* A sum wraps at most once when the delay is at most the range.
LEMMA PlusValue ==
  ASSUME NEW t \in Time, NEW d \in 0 .. ClockMod
  PROVE  Plus(t, d) = IF t + d < ClockMod THEN t + d ELSE t + d - ClockMod
<1>1. ClockMod \in Nat \ {0} /\ t \in 0 .. ClockMod - 1
  BY ClockModAssumption DEF Time
<1>. QED  BY <1>1 DEF Plus

\* The sign of the 32-bit difference is that of the true one, as long as the
\* latter is less than half the range.
LEMMA DueIsExact ==
  ASSUME NEW n \in Time, NEW d \in Time, NEW late \in -HalfRange .. HalfRange - 1,
         n - d - late \in {0, ClockMod, -ClockMod}
  PROVE  Due(n, d) <=> late >= 0
<1>1. /\ HalfRange \in Nat /\ ClockMod = 2 * HalfRange /\ HalfRange > 0 /\ ClockMod \in Nat \ {0}
      /\ n \in 0 .. ClockMod - 1 /\ d \in 0 .. ClockMod - 1
  BY HalfRangeType, ClockModAssumption DEF Time
<1>2. CASE n - d >= 0
  <2>1. (n - d) % ClockMod = n - d
    BY <1>1, <1>2
  <2>. QED  BY <1>1, <1>2, <2>1 DEF Due, Since
<1>3. CASE n - d < 0
  <2>1. (n - d) % ClockMod = n - d + ClockMod
    BY <1>1, <1>3
  <2>. QED  BY <1>1, <1>3, <2>1 DEF Due, Since
<1>. QED  BY <1>1, <1>2, <1>3
=============================================================================
