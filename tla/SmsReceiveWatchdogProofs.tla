----------------------- MODULE SmsReceiveWatchdogProofs -----------------------
(***************************************************************************)
(* Theorems about SmsReceiveWatchdog, for all intervals, numbers of        *)
(* refusals and widths of the clock: how late the settings can be.         *)
(***************************************************************************)
EXTENDS SmsReceiveWatchdog, Clock32Proofs

\* How long a deadline has passed, negative before it: the signed difference
\* of which Due() takes the sign.
Late(n, t) == IF Since(n, t) < HalfRange THEN Since(n, t) ELSE Since(n, t) - ClockMod

ConfigLate == Late(now, wd.nextConfig)
ActionLate == Late(now, wd.nextAction)

\* The longest until the command under way ends, or the next one if the
\* watchdog has none in the channel.
LeftAfter(n) == (MaxRefusals - n) * (Retry + MaxLoopGap)
Left == LeftAfter(refused)
Wait == IF ActionLate < 0 THEN MaxLoopGap - ActionLate ELSE MaxLoopGap - gap
Rest == IF wd.pending THEN CommandTime - age ELSE Wait + Left + CommandTime

\* The longest until the settings have been made again, the modem answering.
Refreshing == wd.work = "Configure" /\ wd.step \in {"PduMode", "DirectUrc"}

ToGo ==
  IF Refreshing THEN IF wd.step = "PduMode" THEN Rest + OneCommand ELSE Rest
  ELSE IF ConfigLate < 0 THEN 3 * OneCommand - ConfigLate
  ELSE IF wd.work = "None" THEN Rest + OneCommand
  ELSE Rest + 2 * OneCommand

\* The command in the channel is that of the step.
CommandOfStep ==
  /\ wd.work = "None" => ~wd.pending /\ wd.step = "PduMode"
  /\ wd.work = "QueryOnly" => wd.pending /\ wd.step = "QueryUrc"
  /\ wd.pending => refused = 0
  /\ wd.pending /\ Refreshing => command = IF wd.step = "PduMode" THEN "CMGF" ELSE "CNMI"

\* While a configuration is under way, its next command is due at once or
\* after the delay of a refusal or of a failure.
ConfigureInTime ==
  /\ Refreshing /\ ~wd.pending => -Retry <= ActionLate /\ ActionLate <= gap
  /\ Refreshing /\ wd.step = "DirectUrc" => Rest <= OneCommand

\* A query is over before the next configuration is late by one command.
QueryInTime ==
  wd.work # "None" /\ wd.step = "QueryUrc" =>
    /\ Rest <= OneCommand
    /\ -ConfigRefresh <= ConfigLate /\ ConfigLate <= OneCommand - Rest
    /\ ~wd.pending => -Retry <= ActionLate /\ ActionLate <= gap

\* Between two cycles the next action is not after the next configuration, but
\* for the delay of a refusal.
IdleInTime ==
  wd.work = "None" =>
    /\ -ConfigRefresh <= ConfigLate
    /\ ConfigLate >= 0 => ConfigLate <= 2 * OneCommand - Rest
    /\ ActionLate <= ConfigLate + ConfigRefresh
    /\ Rest <= OneCommand \/ (refused = 0 /\ ConfigLate < 0 /\ ConfigLate <= ActionLate)

InTime ==
  wd.startupComplete =>
    /\ CommandOfStep /\ ConfigureInTime /\ QueryInTime /\ IdleInTime
    /\ stale + ToGo <= ConfigRefresh + 3 * OneCommand

\* Before the startup is over the watchdog does nothing.
Before ==
  /\ ~wd.startupComplete => ~wd.pending /\ refused = 0
  /\ ~(wd.startupComplete /\ up) => stale = 0

Inv == TypeOK /\ Before /\ InTime
-----------------------------------------------------------------------------
(* The constants and the clock. *)

LEMMA Constants ==
  /\ {ConfigRefresh, StatusQuery, Retry, CommandTime, MaxLoopGap} \subseteq Nat \ {0}
  /\ MaxRefusals \in Nat /\ HistoryCap \in Nat
  /\ OneCommand \in Nat /\ CommandTime + MaxLoopGap <= OneCommand
  /\ Retry <= ConfigRefresh
  /\ ConfigRefresh + StatusQuery + 2 * OneCommand <= HalfRange
<1>1. /\ {ConfigRefresh, StatusQuery, Retry, CommandTime, MaxLoopGap} \subseteq Nat \ {0}
      /\ MaxRefusals \in Nat /\ HistoryCap \in Nat
      /\ Retry <= ConfigRefresh
      /\ ConfigRefresh + StatusQuery + 2 * OneCommand <= HalfRange
  BY SmsReceiveWatchdogAssumption
<1>. DEFINE w == Retry + MaxLoopGap
<1>2. w \in Nat
  BY <1>1
<1>. HIDE DEF w
<1>3. MaxRefusals * w \in Nat
  BY <1>1, <1>2
<1>4. OneCommand = CommandTime + MaxLoopGap + MaxRefusals * w
  BY DEF OneCommand, w
<1>. QED  BY <1>1, <1>3, <1>4

\* Each refusal uses up one delay of those that are left.
LEMMA LeftFacts ==
  ASSUME NEW n \in 0 .. MaxRefusals
  PROVE  /\ LeftAfter(n) \in Nat /\ LeftAfter(n) + CommandTime + MaxLoopGap <= OneCommand
         /\ n = 0 => LeftAfter(n) + CommandTime + MaxLoopGap = OneCommand
         /\ n < MaxRefusals => LeftAfter(n) = Retry + MaxLoopGap + LeftAfter(n + 1)
<1>1. Retry \in Nat /\ MaxLoopGap \in Nat /\ MaxRefusals \in Nat /\ CommandTime \in Nat
  BY Constants
<1>. DEFINE w == Retry + MaxLoopGap
            k == MaxRefusals - n
<1>2. w \in Nat /\ k \in Nat /\ n \in Nat /\ MaxRefusals = k + n
  BY <1>1
<1>3. LeftAfter(n) = k * w /\ LeftAfter(n + 1) = (k - 1) * w
  BY <1>1, <1>2 DEF LeftAfter
<1>4. OneCommand = CommandTime + MaxLoopGap + (k + n) * w
  BY <1>2 DEF OneCommand, w
<1>. HIDE DEF w, k
<1>5. k * w \in Nat /\ n * w \in Nat /\ (k + n) * w = k * w + n * w
  BY <1>2
<1>6. (k - 1) * w = k * w - w
  BY <1>2
<1>7. n = 0 => n * w = 0
  BY <1>2
<1>8. OneCommand = CommandTime + MaxLoopGap + LeftAfter(n) + n * w
  BY <1>1, <1>3, <1>4, <1>5
<1>9. LeftAfter(n) = w + LeftAfter(n + 1)
  BY <1>2, <1>3, <1>5, <1>6
<1>10. w = Retry + MaxLoopGap
  BY DEF w
<1>11. LeftAfter(n) \in Nat /\ n * w \in Nat
  BY <1>3, <1>5
<1>. QED  BY <1>1, <1>7, <1>8, <1>9, <1>10, <1>11

LEMMA LateType ==
  ASSUME NEW n \in Time, NEW t \in Time
  PROVE  /\ Late(n, t) \in -HalfRange .. HalfRange - 1
         /\ n - t - Late(n, t) \in {0, ClockMod, -ClockMod}
         /\ Due(n, t) <=> Late(n, t) >= 0
<1>1. /\ HalfRange \in Nat /\ ClockMod = 2 * HalfRange /\ HalfRange > 0
      /\ n \in 0 .. ClockMod - 1 /\ t \in 0 .. ClockMod - 1
  BY HalfRangeType DEF Time
<1>2. Since(n, t) = IF n - t >= 0 THEN n - t ELSE n - t + ClockMod
  <2>1. CASE n - t >= 0
    BY <1>1, <2>1 DEF Since
  <2>2. CASE ~(n - t >= 0)
    BY <1>1, <2>2 DEF Since
  <2>. QED  BY <2>1, <2>2
<1>. QED  BY <1>1, <1>2 DEF Late, Due

LEMMA LateIs ==
  ASSUME NEW n \in Time, NEW t \in Time, NEW l \in -HalfRange .. HalfRange - 1,
         n - t - l \in {0, ClockMod, -ClockMod}
  PROVE  Late(n, t) = l
<1>1. HalfRange \in Nat /\ ClockMod = 2 * HalfRange /\ HalfRange > 0 /\ n \in Int /\ t \in Int
  BY HalfRangeType DEF Time
<1>. DEFINE k == Late(n, t)
<1>2. k \in -HalfRange .. HalfRange - 1 /\ n - t - k \in {0, ClockMod, -ClockMod}
  BY LateType
<1>. HIDE DEF k
<1>3. k = l
  BY <1>1, <1>2
<1>. QED  BY <1>3 DEF k

LEMMA LateNow == ASSUME NEW t \in Time PROVE Late(t, t) = 0
<1>1. 0 \in -HalfRange .. HalfRange - 1 /\ t - t - 0 = 0
  BY HalfRangeType DEF Time
<1>. QED  BY <1>1, LateIs

LEMMA PlusCongruent ==
  ASSUME NEW t \in Time, NEW x \in 0 .. HalfRange
  PROVE  Plus(t, x) \in Time /\ (Plus(t, x) = t + x \/ Plus(t, x) = t + x - ClockMod)
<1>1. HalfRange \in Nat /\ ClockMod = 2 * HalfRange /\ t \in Int
  BY HalfRangeType DEF Time
<1>2. x \in 0 .. ClockMod /\ x \in Int
  BY <1>1
<1>. QED  BY <1>1, <1>2, PlusValue, PlusType

LEMMA LateAfter ==
  ASSUME NEW t \in Time, NEW x \in 0 .. HalfRange
  PROVE  Late(t, Plus(t, x)) = -x
<1>1. HalfRange \in Nat /\ HalfRange > 0 /\ ClockMod = 2 * HalfRange /\ t \in Int
  BY HalfRangeType DEF Time
<1>2. -x \in -HalfRange .. HalfRange - 1
  BY <1>1
<1>3. t - Plus(t, x) - (-x) \in {0, ClockMod, -ClockMod}
  BY <1>1, PlusCongruent DEF Time
<1>. QED  BY <1>2, <1>3, PlusCongruent, LateIs

LEMMA LateTick ==
  ASSUME NEW n \in Time, NEW t \in Time, Late(n, t) < HalfRange - 1
  PROVE  Late(Plus(n, 1), t) = Late(n, t) + 1
<1>1. /\ HalfRange \in Nat /\ HalfRange > 0 /\ ClockMod = 2 * HalfRange
      /\ n \in 0 .. ClockMod - 1 /\ t \in 0 .. ClockMod - 1
  BY HalfRangeType DEF Time
<1>2. Late(n, t) + 1 \in -HalfRange .. HalfRange - 1
  BY <1>1, LateType
<1>3. 1 \in 0 .. HalfRange
  BY <1>1
<1>4. Plus(n, 1) \in 0 .. ClockMod - 1 /\ (Plus(n, 1) = n + 1 \/ Plus(n, 1) = n + 1 - ClockMod)
  BY <1>3, PlusCongruent DEF Time
<1>5. Plus(n, 1) - t - (Late(n, t) + 1) \in {0, ClockMod, -ClockMod}
  <2>. DEFINE k == Late(n, t)
              m == Plus(n, 1)
  <2>1. k + 1 \in -HalfRange .. HalfRange - 1 /\ k \in Int /\ n - t - k \in {0, ClockMod, -ClockMod}
    BY <1>1, <1>2, LateType
  <2>2. m \in 0 .. ClockMod - 1 /\ (m = n + 1 \/ m = n + 1 - ClockMod)
    BY <1>4
  <2>. HIDE DEF k, m
  <2>3. m - t - (k + 1) \in {0, ClockMod, -ClockMod}
    <3>1. \/ m - t - (k + 1) = n - t - k
          \/ m - t - (k + 1) = n - t - k - ClockMod
      BY <1>1, <2>1, <2>2
    <3>2. m - t - (k + 1) > -2 * ClockMod
      BY <1>1, <2>1, <2>2
    <3>. QED  BY <1>1, <2>1, <3>1, <3>2
  <2>. QED  BY <2>3 DEF k, m
<1>. QED  BY <1>2, <1>4, <1>5, LateIs DEF Time

\* Comparing a deadline with a time to come.
LEMMA DueThen ==
  ASSUME NEW n \in Time, NEW t \in Time, NEW x \in 0 .. HalfRange,
         -Late(n, t) - x \in -HalfRange .. HalfRange - 1
  PROVE  Due(t, Plus(n, x)) <=> -Late(n, t) - x >= 0
<1>1. /\ HalfRange \in Nat /\ HalfRange > 0 /\ ClockMod = 2 * HalfRange
      /\ n \in 0 .. ClockMod - 1 /\ t \in 0 .. ClockMod - 1
  BY HalfRangeType DEF Time
<1>2. Plus(n, x) \in 0 .. ClockMod - 1 /\ (Plus(n, x) = n + x \/ Plus(n, x) = n + x - ClockMod)
  BY PlusCongruent DEF Time
<1>3. Late(n, t) \in Int /\ n - t - Late(n, t) \in {0, ClockMod, -ClockMod}
  BY <1>1, LateType
<1>4. t - Plus(n, x) - (-Late(n, t) - x) \in {0, ClockMod, -ClockMod}
  BY <1>1, <1>2, <1>3
<1>5. Late(t, Plus(n, x)) = -Late(n, t) - x
  BY <1>2, <1>4, LateIs DEF Time
<1>. QED  BY <1>2, <1>5, LateType DEF Time

-----------------------------------------------------------------------------
(* The inductive invariant. *)

Watchdogs == [ startupComplete : BOOLEAN, pending : BOOLEAN, step : Steps,
               work : {"None", "Configure", "QueryOnly"},
               nextAction : Time, nextConfig : Time, nextStatus : Time ]

Numbers ==
  /\ wd \in Watchdogs /\ now \in Time /\ up \in BOOLEAN
  /\ gap \in Nat /\ gap <= MaxLoopGap /\ age \in Nat /\ age <= CommandTime
  /\ refused \in 0 .. MaxRefusals /\ stale \in Nat
  /\ ConfigLate \in Int /\ ActionLate \in Int
  /\ Left \in Nat /\ Left + CommandTime + MaxLoopGap <= OneCommand
  /\ Rest \in Nat
  /\ ~wd.pending /\ ActionLate >= 0 => Rest <= OneCommand

LEMMA TypeNumbers == TypeOK => Numbers
<1>. SUFFICES ASSUME TypeOK PROVE Numbers
  OBVIOUS
<1>1. wd \in Watchdogs /\ now \in Time /\ up \in BOOLEAN
  BY DEF TypeOK, Watchdogs
<1>2. /\ gap \in Nat /\ gap <= MaxLoopGap /\ age \in Nat /\ age <= CommandTime
      /\ refused \in 0 .. MaxRefusals /\ stale \in Nat
  BY Constants DEF TypeOK
<1>3. ConfigLate \in Int /\ ActionLate \in Int
  BY <1>1, LateType, HalfRangeType DEF ConfigLate, ActionLate, Watchdogs
<1>4. Left \in Nat /\ Left + CommandTime + MaxLoopGap <= OneCommand
  BY <1>2, LeftFacts DEF Left
<1>5. Wait \in Nat /\ (ActionLate >= 0 => Wait <= MaxLoopGap)
  BY <1>2, <1>3, Constants DEF Wait
<1>6. Rest \in Nat /\ (~wd.pending /\ ActionLate >= 0 => Rest <= OneCommand)
  BY <1>1, <1>2, <1>4, <1>5, Constants DEF Rest, Watchdogs
<1>. QED  BY <1>1, <1>2, <1>3, <1>4, <1>6 DEF Numbers

LEMMA TypeNumbersNext == TypeOK' => Numbers'
  BY TypeNumbers, PTL

LEMMA CountType == \A x \in Nat : Count(x) \in 0 .. HistoryCap /\ Count(x) <= x
  BY Constants DEF Count

LEMMA InvInit == Init => Inv
<1>. SUFFICES ASSUME Init PROVE Inv
  OBVIOUS
<1>1. now \in Time
  BY HalfRangeType, ClockModAssumption DEF Init, Time
<1>2. TypeOK
  <2>1. up \in BOOLEAN /\ pduMode \in BOOLEAN /\ directUrc \in BOOLEAN
    BY DEF Init
  <2>2. wd \in Watchdogs /\ (wd.pending <=> command # "none") /\ command \in Commands \cup {"none"}
    BY <1>1 DEF Init, Watchdogs, Steps
  <2>3. /\ age \in 0 .. CommandTime /\ gap \in 0 .. MaxLoopGap /\ refused \in 0 .. MaxRefusals
        /\ stale \in 0 .. HistoryCap /\ owed \in 0 .. HistoryCap
    BY Constants DEF Init
  <2>. QED  BY <1>1, <2>1, <2>2, <2>3 DEF TypeOK, Watchdogs
<1>3. ~wd.startupComplete /\ ~wd.pending
  BY DEF Init
<1>. QED  BY <1>2, <1>3 DEF Init, Inv, Before, InTime

\* The reception is configured from the first step, at once.
LEMMA ConfigureNow ==
  ASSUME TypeOK', wd'.startupComplete, ~wd'.pending, wd'.work = "Configure", wd'.step = "PduMode",
         wd'.nextAction = now', stale' = 0
  PROVE  Before' /\ InTime'
<1>1. ActionLate' = 0
  BY LateNow DEF ActionLate, TypeOK
<1>2. Rest' \in Nat /\ Rest' <= OneCommand /\ gap' \in Nat
  BY <1>1, TypeNumbersNext DEF Numbers
<1>3. ToGo' = Rest' + OneCommand
  BY DEF ToGo, Refreshing
<1>. QED  BY <1>1, <1>2, <1>3, Constants DEF Before, InTime, CommandOfStep, ConfigureInTime,
             QueryInTime, IdleInTime, Refreshing

LEMMA InvStartupDone == ASSUME Inv, StartupDone PROVE Inv'
<1>1. wd \in Watchdogs /\ ~wd.pending /\ now \in Time
  BY TypeNumbers DEF Numbers, Inv, Before, StartupDone
<1>2. /\ wd' = [wd EXCEPT !.startupComplete = TRUE, !.work = "Configure", !.step = "PduMode",
                          !.nextConfig = now, !.nextAction = now]
      /\ stale' = 0 /\ UNCHANGED <<command, age, now, gap, refused, up, pduMode, directUrc, owed>>
  BY <1>1 DEF StartupDone, RequestRecovery, Watchdogs
<1>3. TypeOK'
  <2>1. TypeOK
    BY DEF Inv
  <2>2. up' \in BOOLEAN /\ pduMode' \in BOOLEAN /\ directUrc' \in BOOLEAN
    BY <1>2, <2>1 DEF TypeOK
  <2>3. wd' \in Watchdogs /\ (wd'.pending <=> command' # "none")
    BY <1>1, <1>2, <2>1 DEF TypeOK, Watchdogs, Steps
  <2>4. stale' \in 0 .. HistoryCap
    BY <1>2, Constants
  <2>. QED  BY <1>2, <2>1, <2>2, <2>3, <2>4 DEF TypeOK, Watchdogs
<1>4. /\ wd'.startupComplete /\ ~wd'.pending /\ wd'.work = "Configure" /\ wd'.step = "PduMode"
      /\ wd'.nextAction = now'
  BY <1>1, <1>2 DEF Watchdogs
<1>. QED  BY <1>2, <1>3, <1>4, ConfigureNow DEF Inv

-----------------------------------------------------------------------------
(* The polls. *)

WdOK == /\ wd \in Watchdogs /\ command \in Commands \cup {"none"}
        /\ (wd.pending <=> command # "none")

CountsOK == /\ age \in 0 .. CommandTime /\ gap \in 0 .. MaxLoopGap /\ refused \in 0 .. MaxRefusals
            /\ now \in Time
            /\ stale \in 0 .. HistoryCap /\ owed \in 0 .. HistoryCap

FlagsOK == up \in BOOLEAN /\ pduMode \in BOOLEAN /\ directUrc \in BOOLEAN

LEMMA TypeParts == (TypeOK <=> WdOK /\ CountsOK /\ FlagsOK) /\ (TypeOK <=> WdOK /\ CountsOK /\ FlagsOK)'
<1>1. TypeOK <=> WdOK /\ CountsOK /\ FlagsOK
  BY DEF TypeOK, WdOK, CountsOK, FlagsOK, Watchdogs
<1>2. (TypeOK <=> WdOK /\ CountsOK /\ FlagsOK)'
  BY DEF TypeOK, WdOK, CountsOK, FlagsOK, Watchdogs
<1>. QED  BY <1>1, <1>2

\* What is due, read from the clock.
LEMMA ToSubmitIs ==
  ASSUME TypeOK
  PROVE  /\ Due(now, wd.nextAction) <=> ActionLate >= 0
         /\ Due(now, wd.nextConfig) <=> ConfigLate >= 0
         /\ ToSubmit \in Commands \cup {"none"}
  BY LateType DEF TypeOK, ActionLate, ConfigLate, ToSubmit, Commands

\* Nothing is submitted.
LEMMA InvPollIdle ==
  ASSUME Inv, NEW accepted \in BOOLEAN, Poll(accepted), ToSubmit = "none"
  PROVE  Inv'
<1>1. gap' = 0 /\ UNCHANGED <<wd, command, age, refused, owed, now, up, pduMode, directUrc, stale>>
  BY DEF Poll
<1>2. TypeOK'
  BY <1>1, Constants, TypeParts DEF Inv, WdOK, CountsOK, FlagsOK
<1>3. Before'
  BY <1>1 DEF Inv, Before
<1>4. ASSUME wd.startupComplete PROVE InTime'
  <2>1. Numbers /\ Numbers' /\ InTime
    BY <1>2, TypeNumbers, TypeNumbersNext DEF Inv
  <2>2. /\ ConfigLate' = ConfigLate /\ ActionLate' = ActionLate /\ Left' = Left
        /\ Refreshing' <=> Refreshing
    BY <1>1 DEF ConfigLate, ActionLate, Left, Refreshing
  <2>3. wd.pending \/ ActionLate < 0 \/ (wd.work = "None" /\ ConfigLate < 0)
    <3>1. /\ Due(now, wd.nextAction) <=> ActionLate >= 0
          /\ Due(now, wd.nextConfig) <=> ConfigLate >= 0
      BY ToSubmitIs DEF Inv
    <3>2. wd \in Watchdogs /\ ActionLate \in Int /\ ConfigLate \in Int
      BY <2>1 DEF Numbers
    <3>. QED  BY <1>4, <3>1, <3>2 DEF ToSubmit, ConfigDue, Watchdogs
  <2>4. wd.pending \/ ActionLate < 0 => Rest' = Rest
    BY <1>1, <2>2 DEF Rest, Wait
  <2>5. Rest' <= OneCommand \/ Rest' = Rest
    BY <1>1, <2>1, <2>2, <2>4 DEF Numbers
  <2>6. ToGo' = ToGo
    BY <1>1, <2>2, <2>3, <2>4 DEF ToGo, InTime, CommandOfStep, Refreshing
  <2>7. CommandOfStep'
    BY <1>1, <1>4, <2>1, <2>2 DEF InTime, CommandOfStep
  <2>8. ConfigureInTime'
    BY <1>1, <1>4, <2>1, <2>2, <2>3, <2>5, Constants DEF InTime, ConfigureInTime, Refreshing, Numbers
  <2>9. wd.work # "None" \/ ~(ConfigLate < 0) => Rest' = Rest
    BY <2>3, <2>4
  <2>10. QueryInTime'
    <3>. SUFFICES ASSUME (wd.work # "None" /\ wd.step = "QueryUrc")'
                  PROVE  /\ Rest' <= OneCommand
                         /\ -ConfigRefresh <= ConfigLate' /\ ConfigLate' <= OneCommand - Rest'
                         /\ ~wd'.pending => -Retry <= ActionLate' /\ ActionLate' <= gap'
      BY DEF QueryInTime
    <3>1. wd.work # "None" /\ wd.step = "QueryUrc" /\ Rest' = Rest /\ QueryInTime
      BY <1>1, <1>4, <2>1, <2>9 DEF InTime
    <3>2. ~wd.pending => ActionLate < 0
      BY <2>3, <3>1
    <3>. QED  BY <1>1, <2>1, <2>2, <3>1, <3>2 DEF QueryInTime, Numbers
  <2>11. IdleInTime'
    <3>. SUFFICES ASSUME (wd.work = "None")'
                  PROVE  /\ -ConfigRefresh <= ConfigLate'
                         /\ ConfigLate' >= 0 => ConfigLate' <= 2 * OneCommand - Rest'
                         /\ ActionLate' <= ConfigLate' + ConfigRefresh
                         /\ \/ Rest' <= OneCommand
                            \/ (refused = 0 /\ ConfigLate < 0 /\ ConfigLate <= ActionLate)'
      BY DEF IdleInTime
    <3>1. wd.work = "None" /\ IdleInTime
      BY <1>1, <1>4, <2>1 DEF InTime
    <3>2. ConfigLate' >= 0 => Rest' = Rest
      BY <2>1, <2>2, <2>9 DEF Numbers
    <3>. QED  BY <1>1, <2>1, <2>2, <2>5, <3>1, <3>2, Constants DEF IdleInTime, Numbers
  <2>. QED  BY <1>1, <1>4, <2>1, <2>6, <2>7, <2>8, <2>10, <2>11 DEF InTime
<1>5. ~wd.startupComplete => InTime'
  BY <1>1 DEF InTime
<1>. QED  BY <1>2, <1>3, <1>4, <1>5 DEF Inv

\* The channel refuses the command.
LEMMA InvPollRefused ==
  ASSUME Inv, Poll(FALSE), ToSubmit # "none"
  PROVE  Inv'
<1>1. /\ wd' = [wd EXCEPT !.nextAction = Plus(now, Retry)]
      /\ refused < MaxRefusals /\ refused' = refused + 1 /\ gap' = 0
      /\ UNCHANGED <<command, age, owed, now, up, pduMode, directUrc, stale>>
  BY DEF Poll
<1>2. Numbers /\ TypeOK
  BY TypeNumbers DEF Inv
<1>3. Retry \in 0 .. HalfRange
  BY Constants, HalfRangeType
<1>4. /\ wd' \in Watchdogs /\ wd'.nextAction = Plus(now, Retry)
      /\ wd'.startupComplete = wd.startupComplete /\ wd'.pending = wd.pending
      /\ wd'.work = wd.work /\ wd'.step = wd.step /\ wd'.nextConfig = wd.nextConfig
  BY <1>1, <1>2, <1>3, PlusCongruent DEF Numbers, Watchdogs
<1>5. TypeOK'
  <2>1. WdOK'
    BY <1>1, <1>2, <1>4, TypeParts DEF WdOK
  <2>2. CountsOK' /\ FlagsOK'
    BY <1>1, <1>2, TypeParts, Constants DEF CountsOK, FlagsOK
  <2>. QED  BY <2>1, <2>2, TypeParts
<1>6. wd.startupComplete /\ ~wd.pending /\ ActionLate >= 0
  BY <1>2, ToSubmitIs DEF ToSubmit
<1>7. Before'
  BY <1>1, <1>4, <1>6 DEF Inv, Before
<1>8. InTime'
  <2>1. ConfigLate' = ConfigLate /\ ActionLate' = -Retry
    BY <1>1, <1>2, <1>3, <1>4, LateAfter DEF ConfigLate, ActionLate, Numbers
  <2>2. Left = Retry + MaxLoopGap + Left'
    BY <1>1, <1>2, LeftFacts DEF Left, Numbers
  <2>3. Numbers' /\ InTime
    BY <1>5, TypeNumbersNext DEF Inv
  <2>4. Rest' = Retry + MaxLoopGap + Left' + CommandTime /\ Rest' <= Rest /\ Rest' <= OneCommand
    BY <1>1, <1>2, <1>4, <1>6, <2>1, <2>2, <2>3, Constants DEF Rest, Wait, Numbers
  <2>5. Refreshing' <=> Refreshing
    BY <1>4 DEF Refreshing
  <2>6. ToGo' <= ToGo
    BY <1>2, <1>4, <2>1, <2>3, <2>4, <2>5, Constants DEF ToGo, Numbers
  <2>7. CommandOfStep'
    BY <1>4, <1>6, <2>3 DEF InTime, CommandOfStep
  <2>8. ConfigureInTime'
    BY <1>1, <2>1, <2>4, Constants DEF ConfigureInTime
  <2>9. QueryInTime'
    BY <1>1, <1>2, <1>4, <1>6, <2>1, <2>3, <2>4, Constants DEF InTime, QueryInTime, Numbers
  <2>10. IdleInTime'
    BY <1>2, <1>4, <1>6, <2>1, <2>3, <2>4, Constants DEF InTime, IdleInTime, Numbers
  <2>11. stale' + ToGo' <= ConfigRefresh + 3 * OneCommand
    <3>. DEFINE a == ToGo
                b == ToGo'
    <3>1. stale + a <= ConfigRefresh + 3 * OneCommand /\ b <= a
      BY <1>6, <2>3, <2>6 DEF InTime
    <3>2. a \in Int /\ b \in Int /\ stale \in Int /\ stale' = stale
      BY <1>1, <1>2, <2>3, Constants DEF ToGo, Numbers
    <3>. HIDE DEF a, b
    <3>3. stale' + b <= ConfigRefresh + 3 * OneCommand
      BY <3>1, <3>2, Constants
    <3>. QED  BY <3>3 DEF b
  <2>. QED  BY <2>7, <2>8, <2>9, <2>10, <2>11 DEF InTime
<1>. QED  BY <1>5, <1>7, <1>8 DEF Inv

\* The channel takes the command.
LEMMA InvPollAccepted ==
  ASSUME Inv, Poll(TRUE), ToSubmit # "none"
  PROVE  Inv'
<1>1. /\ wd' = MarkSubmitted /\ command' = ToSubmit /\ age' = 0 /\ refused' = 0 /\ gap' = 0
      /\ owed' = (IF ToSubmit = "CMGF" THEN 0 ELSE owed)
      /\ UNCHANGED <<now, up, pduMode, directUrc, stale>>
  BY DEF Poll
<1>2. Numbers /\ TypeOK /\ wd \in Watchdogs
  BY TypeNumbers DEF Inv, Numbers
<1>3. wd.startupComplete /\ ~wd.pending /\ ActionLate >= 0 /\ ToSubmit \in Commands
  BY <1>2, ToSubmitIs DEF ToSubmit
<1>4. /\ wd' \in Watchdogs /\ wd'.startupComplete /\ wd'.pending
      /\ wd'.nextAction = wd.nextAction /\ wd'.nextConfig = wd.nextConfig
  BY <1>1, <1>2, <1>3 DEF MarkSubmitted, Watchdogs, Steps
<1>5. TypeOK'
  <2>1. WdOK'
    BY <1>1, <1>3, <1>4 DEF WdOK, Commands
  <2>2. CountsOK' /\ FlagsOK'
    BY <1>1, <1>2, TypeParts, Constants DEF CountsOK, FlagsOK
  <2>. QED  BY <2>1, <2>2, TypeParts
<1>6. Before'
  BY <1>1, <1>3, <1>4 DEF Inv, Before
<1>7. InTime'
  <2>1. ConfigLate' = ConfigLate /\ ActionLate' = ActionLate
    BY <1>1, <1>4 DEF ConfigLate, ActionLate
  <2>2. Rest' = CommandTime /\ Rest' <= Rest /\ Rest' <= OneCommand
    BY <1>1, <1>2, <1>3, <1>4, Constants DEF Rest, Wait, Numbers
  <2>3. Numbers' /\ CommandOfStep /\ ConfigureInTime /\ QueryInTime /\ IdleInTime
        /\ stale + ToGo <= ConfigRefresh + 3 * OneCommand
    BY <1>3, <1>5, TypeNumbersNext DEF Inv, InTime
  <2>4. ConfigDue <=> ConfigLate >= 0
    BY <1>2, ToSubmitIs DEF ConfigDue
  <2>5. CASE wd.work = "None" /\ ConfigLate >= 0
    <3>1. wd'.work = "Configure" /\ wd'.step = "PduMode" /\ command' = "CMGF"
      BY <1>1, <1>2, <1>3, <2>4, <2>5 DEF MarkSubmitted, ToSubmit, Watchdogs
    <3>2. ToGo = Rest + OneCommand /\ ToGo' = Rest' + OneCommand
      BY <1>2, <2>5, <3>1 DEF ToGo, Refreshing, Numbers
    <3>3. stale' + ToGo' <= ConfigRefresh + 3 * OneCommand
      BY <1>1, <1>2, <2>2, <2>3, <3>2, Constants DEF Numbers
    <3>4. CommandOfStep' /\ ConfigureInTime' /\ QueryInTime' /\ IdleInTime'
      BY <1>1, <1>4, <3>1 DEF CommandOfStep, ConfigureInTime, QueryInTime, IdleInTime
    <3>. QED  BY <3>3, <3>4 DEF InTime
  <2>6. CASE wd.work = "None" /\ ConfigLate < 0
    <3>1. wd'.work = "QueryOnly" /\ wd'.step = "QueryUrc" /\ command' = "CNMI?"
      BY <1>1, <1>2, <1>3, <2>4, <2>6 DEF MarkSubmitted, ToSubmit, Watchdogs, Numbers
    <3>2. ToGo = 3 * OneCommand - ConfigLate /\ ToGo' = 3 * OneCommand - ConfigLate
      BY <1>2, <2>1, <2>6, <3>1 DEF ToGo, Refreshing, Numbers
    <3>3. stale' + ToGo' <= ConfigRefresh + 3 * OneCommand
      BY <1>1, <2>3, <3>2
    <3>4. CommandOfStep' /\ ConfigureInTime' /\ IdleInTime'
      BY <1>1, <1>4, <3>1 DEF CommandOfStep, ConfigureInTime, IdleInTime, Refreshing
    <3>5. QueryInTime'
      <4>1. -ConfigRefresh <= ConfigLate /\ ConfigLate \in Int
        BY <1>2, <2>3, <2>6 DEF IdleInTime, Numbers
      <4>. QED  BY <1>4, <2>1, <2>2, <2>6, <4>1, Constants DEF QueryInTime
    <3>. QED  BY <3>3, <3>4, <3>5 DEF InTime
  <2>7. CASE wd.work # "None"
    <3>1. wd'.work = wd.work /\ wd'.step = wd.step
      BY <1>1, <1>2, <2>7 DEF MarkSubmitted, Watchdogs
    <3>2. wd.work = "Configure"
      BY <1>2, <1>3, <2>3, <2>7 DEF CommandOfStep, Watchdogs
    <3>3. wd.step = "PduMode" => command' = "CMGF"
      BY <1>1, <1>3, <2>7, <3>2 DEF ToSubmit
    <3>4. wd.step = "DirectUrc" => command' = "CNMI"
      BY <1>1, <1>3, <2>7, <3>2 DEF ToSubmit
    <3>5. ToGo' <= ToGo /\ ToGo' \in Int /\ ToGo \in Int
      BY <1>2, <2>1, <2>2, <2>3, <2>7, <3>1, Constants DEF ToGo, Refreshing, Numbers
    <3>6. stale' + ToGo' <= ConfigRefresh + 3 * OneCommand
      BY <1>1, <1>2, <2>3, <3>5, Constants DEF Numbers
    <3>7. CommandOfStep'
      BY <1>1, <1>4, <3>1, <3>2, <3>3, <3>4 DEF CommandOfStep, Refreshing
    <3>8. ConfigureInTime' /\ IdleInTime'
      BY <1>4, <2>2, <2>7, <3>1 DEF ConfigureInTime, IdleInTime
    <3>9. QueryInTime'
      BY <1>2, <1>4, <2>1, <2>2, <2>3, <3>1, Constants DEF QueryInTime, Numbers
    <3>. QED  BY <3>6, <3>7, <3>8, <3>9 DEF InTime
  <2>. QED  BY <1>2, <2>5, <2>6, <2>7 DEF Numbers
<1>. QED  BY <1>5, <1>6, <1>7 DEF Inv

-----------------------------------------------------------------------------
(* The results. *)

\* What any result does.
ResultFacts ==
  /\ Numbers /\ TypeOK /\ wd \in Watchdogs /\ wd.startupComplete /\ wd.pending /\ refused = 0
  /\ Rest \in Nat /\ Rest <= CommandTime
  /\ CommandOfStep /\ ConfigureInTime /\ QueryInTime /\ IdleInTime
  /\ stale + ToGo <= ConfigRefresh + 3 * OneCommand
  /\ wd.work # "None" /\ (wd.work = "QueryOnly" => wd.step = "QueryUrc")
  /\ command' = "none" /\ age' = 0
  /\ UNCHANGED <<now, gap, refused, up, owed>>

LEMMA AnyResult == ASSUME Inv, NEW result \in Results, Result(result) PROVE ResultFacts
<1>1. Numbers /\ TypeOK /\ wd \in Watchdogs
  BY TypeNumbers DEF Inv, Numbers
<1>2. command' = "none" /\ age' = 0 /\ UNCHANGED <<now, gap, refused, up, owed>>
  BY DEF Result
<1>3. wd.pending /\ wd.startupComplete
  BY <1>1 DEF Result, TypeOK, Inv, Before
<1>4. /\ CommandOfStep /\ ConfigureInTime /\ QueryInTime /\ IdleInTime
      /\ stale + ToGo <= ConfigRefresh + 3 * OneCommand
  BY <1>3 DEF Inv, InTime
<1>5. wd.work # "None" /\ (wd.work = "QueryOnly" => wd.step = "QueryUrc") /\ refused = 0
  BY <1>3, <1>4 DEF CommandOfStep
<1>6. Rest \in Nat /\ Rest <= CommandTime
  BY <1>1, <1>3, Constants DEF Rest, Numbers
<1>. QED  BY <1>1, <1>2, <1>3, <1>4, <1>5, <1>6 DEF ResultFacts

\* Once the watchdog waits again, the next command has all its refusals.
LEMMA AfterResult ==
  ASSUME Inv, NEW result \in Results, Result(result), TypeOK', ~wd'.pending
  PROVE  Rest' = IF ActionLate' < 0 THEN OneCommand - ActionLate' ELSE OneCommand - gap
<1>1. ResultFacts
  BY AnyResult
<1>2. refused' = 0 /\ gap' = gap /\ Numbers' /\ ActionLate' \in Int /\ gap \in Nat
  BY <1>1, TypeNumbersNext DEF ResultFacts, Numbers
<1>3. Left' + CommandTime + MaxLoopGap = OneCommand
  BY <1>2, LeftFacts, Constants DEF Left
<1>. QED  BY <1>2, <1>3, Constants DEF Rest, Wait, Numbers

\* A result leaves the types as they are if it leaves the watchdog a watchdog.
LEMMA ResultTypes ==
  ASSUME Inv, NEW result \in Results, Result(result), wd' \in Watchdogs, ~wd'.pending,
         wd'.startupComplete
  PROVE  TypeOK' /\ Before'
<1>1. ResultFacts
  BY AnyResult
<1>2. WdOK'
  BY <1>1 DEF ResultFacts, WdOK
<1>3. stale' = stale \/ stale' = 0
  BY DEF Result
<1>4. CountsOK'
  BY <1>1, <1>3, TypeParts, Constants DEF ResultFacts, CountsOK
<1>5. FlagsOK'
  BY <1>1, TypeParts DEF ResultFacts, FlagsOK, Result
<1>6. Before'
  <2>1. up' = up /\ (up \/ stale' = 0)
    BY <1>1, <1>3 DEF ResultFacts, Inv, Before
  <2>. QED  BY <2>1 DEF Before
<1>. QED  BY <1>2, <1>4, <1>5, <1>6, TypeParts

\* The end of a query ends the cycle.
LEMMA InvCycleDone ==
  ASSUME Inv, NEW result \in Results, Result(result), wd.step = "QueryUrc"
  PROVE  Inv'
<1>1. ResultFacts
  BY AnyResult
<1>. DEFINE next == Plus(now, StatusQuery)
<1>2. StatusQuery \in 0 .. HalfRange /\ now \in Time /\ next \in Time
  BY <1>1, Constants, HalfRangeType, PlusCongruent DEF ResultFacts, Numbers
<1>3. wd' = CycleDone([wd EXCEPT !.pending = FALSE])
  BY DEF Result, Complete
<1>4. /\ wd' \in Watchdogs /\ wd'.startupComplete /\ ~wd'.pending /\ wd'.work = "None"
      /\ wd'.step = "PduMode" /\ wd'.nextConfig = wd.nextConfig
      /\ wd'.nextAction = IF Due(wd.nextConfig, next) THEN next ELSE wd.nextConfig
  BY <1>1, <1>2, <1>3 DEF CycleDone, ResultFacts, Watchdogs, Steps
<1>5. TypeOK' /\ Before'
  BY <1>4, ResultTypes
<1>6. stale' <= stale /\ stale' \in Int /\ stale \in Int
  BY <1>1 DEF Result, ResultFacts, Numbers
<1>7. ConfigLate' = ConfigLate /\ ConfigLate \in Int
  BY <1>1, <1>4 DEF ConfigLate, ResultFacts, Numbers
<1>8. -ConfigRefresh <= ConfigLate /\ ConfigLate <= OneCommand - Rest /\ Rest <= OneCommand
  BY <1>1 DEF ResultFacts, QueryInTime
<1>9. ActionLate' = IF ConfigLate + StatusQuery <= 0 THEN -StatusQuery ELSE ConfigLate
  <2>1. now' = now /\ Late(now, next) = -StatusQuery
    BY <1>1, <1>2, LateAfter DEF ResultFacts
  <2>2. -ConfigLate - StatusQuery \in -HalfRange .. HalfRange - 1
    BY <1>1, <1>7, <1>8, Constants, HalfRangeType DEF ResultFacts
  <2>3. wd.nextConfig \in Time
    BY <1>1 DEF ResultFacts, Watchdogs
  <2>4. Due(wd.nextConfig, next) <=> -ConfigLate - StatusQuery >= 0
    BY <1>2, <2>2, <2>3, DueThen DEF ConfigLate
  <2>5. -ConfigLate - StatusQuery >= 0 <=> ConfigLate + StatusQuery <= 0
    BY <1>7, Constants
  <2>. QED  BY <1>4, <2>1, <2>4, <2>5 DEF ActionLate, ConfigLate
<1>10. Rest' = IF ActionLate' < 0 THEN OneCommand - ActionLate' ELSE OneCommand - gap
  BY <1>4, <1>5, AfterResult
<1>11. gap \in Nat /\ gap <= OneCommand /\ refused' = 0
  BY <1>1, Constants DEF ResultFacts, Numbers
<1>12. IdleInTime'
  <2>1. ConfigLate <= OneCommand /\ Rest \in Nat
    BY <1>1, <1>7, <1>8, Constants DEF ResultFacts
  <2>2. ConfigLate' >= 0 => ActionLate' = ConfigLate /\ Rest' \in Int /\ Rest' <= OneCommand
    BY <1>7, <1>9, <1>10, <1>11, Constants
  <2>3. ActionLate' <= ConfigLate' + ConfigRefresh
    BY <1>7, <1>8, <1>9, Constants
  <2>4. ConfigLate' < 0 => ConfigLate' <= ActionLate'
    BY <1>7, <1>9, Constants
  <2>. QED  BY <1>7, <1>8, <1>11, <2>1, <2>2, <2>3, <2>4, Constants DEF IdleInTime
<1>13. CommandOfStep' /\ ConfigureInTime' /\ QueryInTime'
  BY <1>4 DEF CommandOfStep, ConfigureInTime, QueryInTime, Refreshing
<1>14. stale' + ToGo' <= ConfigRefresh + 3 * OneCommand
  <2>1. ToGo' = IF ConfigLate < 0 THEN 3 * OneCommand - ConfigLate ELSE Rest' + OneCommand
    BY <1>4, <1>7 DEF ToGo, Refreshing
  <2>2. ToGo = IF ConfigLate < 0 THEN 3 * OneCommand - ConfigLate ELSE Rest + 2 * OneCommand
    BY <1>1 DEF ToGo, Refreshing, ResultFacts
  <2>3. ConfigLate >= 0 => Rest' <= OneCommand /\ Rest' \in Int
    BY <1>7, <1>9, <1>10, <1>11, Constants
  <2>4. stale + ToGo <= ConfigRefresh + 3 * OneCommand /\ Rest \in Nat
    BY <1>1 DEF ResultFacts
  <2>. QED  BY <1>6, <1>7, <2>1, <2>2, <2>3, <2>4, Constants
<1>. QED  BY <1>5, <1>12, <1>13, <1>14 DEF Inv, InTime

\* A failed command of a configuration: again from the first step, later.
LEMMA InvFailed ==
  ASSUME Inv, NEW result \in Results, Result(result), wd.step # "QueryUrc", result # "Ok"
  PROVE  Inv'
<1>1. ResultFacts /\ wd.work = "Configure"
  BY AnyResult DEF ResultFacts, Watchdogs
<1>2. Retry \in 0 .. HalfRange /\ now \in Time /\ Plus(now, Retry) \in Time
  BY <1>1, Constants, HalfRangeType, PlusCongruent DEF ResultFacts, Numbers
<1>3. wd' = [wd EXCEPT !.pending = FALSE, !.step = "PduMode", !.nextAction = Plus(now, Retry),
                       !.nextConfig = Plus(now, Retry)]
  BY <1>1 DEF Result, Complete, ResultFacts, Watchdogs
<1>4. /\ wd' \in Watchdogs /\ wd'.startupComplete /\ ~wd'.pending /\ wd'.work = "Configure"
      /\ wd'.step = "PduMode" /\ wd'.nextAction = Plus(now, Retry)
  BY <1>1, <1>2, <1>3 DEF ResultFacts, Watchdogs, Steps
<1>5. TypeOK' /\ Before'
  BY <1>4, ResultTypes
<1>6. stale' = 0
  BY <1>1 DEF Result, Inv, Before
<1>7. ActionLate' = -Retry
  BY <1>1, <1>2, <1>4, LateAfter DEF ActionLate, ResultFacts
<1>8. Rest' = OneCommand + Retry
  BY <1>4, <1>5, <1>7, AfterResult, Constants
<1>9. ToGo' = Rest' + OneCommand
  BY <1>4 DEF ToGo, Refreshing
<1>10. gap' \in Nat
  BY <1>1 DEF ResultFacts, Numbers
<1>11. ConfigureInTime'
  BY <1>4, <1>7, <1>10, Constants DEF ConfigureInTime
<1>12. CommandOfStep' /\ QueryInTime' /\ IdleInTime'
  BY <1>4 DEF CommandOfStep, QueryInTime, IdleInTime
<1>. QED  BY <1>5, <1>6, <1>8, <1>9, <1>11, <1>12, Constants DEF Inv, InTime

\* The mode is set; the other setting is next.
LEMMA InvModeSet ==
  ASSUME Inv, Result("Ok"), wd.step = "PduMode"
  PROVE  Inv'
<1>1. ResultFacts /\ wd.work = "Configure" /\ "Ok" \in Results
  BY AnyResult DEF ResultFacts, Watchdogs, Results
<1>2. wd' = [wd EXCEPT !.pending = FALSE, !.step = "DirectUrc", !.nextAction = now]
  BY <1>1 DEF Result, Complete
<1>3. /\ wd' \in Watchdogs /\ wd'.startupComplete /\ ~wd'.pending /\ wd'.work = "Configure"
      /\ wd'.step = "DirectUrc" /\ wd'.nextAction = now
  BY <1>1, <1>2 DEF ResultFacts, Watchdogs, Steps, Numbers
<1>4. TypeOK' /\ Before'
  BY <1>1, <1>3, ResultTypes
<1>5. stale' = stale
  BY <1>1 DEF Result, ResultFacts, CommandOfStep, Refreshing
<1>6. ActionLate' = 0
  BY <1>1, <1>3, LateNow DEF ActionLate, ResultFacts, Numbers
<1>7. gap' \in Nat /\ gap \in Nat
  BY <1>1 DEF ResultFacts, Numbers
<1>8. Rest' = OneCommand - gap
  BY <1>1, <1>3, <1>4, <1>6, AfterResult
<1>9. ToGo = Rest + OneCommand /\ ToGo' = Rest'
  BY <1>1, <1>3 DEF ToGo, Refreshing
<1>10. stale' + ToGo' <= ConfigRefresh + 3 * OneCommand
  BY <1>1, <1>5, <1>7, <1>8, <1>9, Constants DEF ResultFacts, Numbers
<1>11. ConfigureInTime'
  BY <1>3, <1>6, <1>7, <1>8, Constants DEF ConfigureInTime
<1>12. CommandOfStep' /\ QueryInTime' /\ IdleInTime'
  BY <1>3 DEF CommandOfStep, QueryInTime, IdleInTime
<1>. QED  BY <1>4, <1>10, <1>11, <1>12 DEF Inv, InTime

\* Both are set; a query shows it, and the refresh is put off.
LEMMA InvSettingsMade ==
  ASSUME Inv, Result("Ok"), wd.step = "DirectUrc"
  PROVE  Inv'
<1>1. ResultFacts /\ wd.work = "Configure" /\ "Ok" \in Results
  BY AnyResult DEF ResultFacts, Watchdogs, Results
<1>2. ConfigRefresh \in 0 .. HalfRange /\ now \in Time /\ Plus(now, ConfigRefresh) \in Time
  BY <1>1, Constants, HalfRangeType, PlusCongruent DEF ResultFacts, Numbers
<1>3. wd' = [wd EXCEPT !.pending = FALSE, !.step = "QueryUrc", !.nextAction = now,
                       !.nextConfig = Plus(now, ConfigRefresh)]
  BY <1>1 DEF Result, Complete
<1>4. /\ wd' \in Watchdogs /\ wd'.startupComplete /\ ~wd'.pending /\ wd'.work = "Configure"
      /\ wd'.step = "QueryUrc" /\ wd'.nextAction = now /\ wd'.nextConfig = Plus(now, ConfigRefresh)
  BY <1>1, <1>2, <1>3 DEF ResultFacts, Watchdogs, Steps
<1>5. TypeOK' /\ Before'
  BY <1>1, <1>4, ResultTypes
<1>6. stale' = 0
  BY <1>1 DEF Result, ResultFacts, CommandOfStep, Refreshing
<1>7. ActionLate' = 0 /\ ConfigLate' = -ConfigRefresh
  BY <1>1, <1>2, <1>4, LateNow, LateAfter DEF ActionLate, ConfigLate, ResultFacts
<1>8. gap' \in Nat /\ gap \in Nat
  BY <1>1 DEF ResultFacts, Numbers
<1>9. Rest' = OneCommand - gap
  BY <1>1, <1>4, <1>5, <1>7, AfterResult
<1>10. ToGo' = 3 * OneCommand + ConfigRefresh
  BY <1>4, <1>7, Constants DEF ToGo, Refreshing
<1>11. QueryInTime'
  BY <1>4, <1>7, <1>8, <1>9, Constants DEF QueryInTime
<1>12. CommandOfStep' /\ ConfigureInTime' /\ IdleInTime'
  BY <1>4 DEF CommandOfStep, ConfigureInTime, IdleInTime, Refreshing
<1>. QED  BY <1>5, <1>6, <1>10, <1>11, <1>12, Constants DEF Inv, InTime

LEMMA InvResult == ASSUME Inv, NEW result \in Results, Result(result) PROVE Inv'
<1>1. wd.step \in Steps
  BY AnyResult DEF ResultFacts, Watchdogs
<1>. QED  BY <1>1, InvCycleDone, InvFailed, InvModeSet, InvSettingsMade DEF Steps

-----------------------------------------------------------------------------
(* The modem and the clock. *)

\* What InTime says of an unchanged watchdog at an unchanged time.
LEMMA SameWatchdog ==
  ASSUME Inv, TypeOK', Before', UNCHANGED <<wd, command, age, now, gap, refused>>,
         stale' = stale \/ stale' = 0
  PROVE  Inv'
<1>1. InTime'
  <2>. SUFFICES ASSUME wd'.startupComplete
                PROVE  /\ CommandOfStep' /\ ConfigureInTime' /\ QueryInTime' /\ IdleInTime'
                       /\ stale' + ToGo' <= ConfigRefresh + 3 * OneCommand
    BY DEF InTime
  <2>1. /\ CommandOfStep /\ ConfigureInTime /\ QueryInTime /\ IdleInTime
        /\ stale + ToGo <= ConfigRefresh + 3 * OneCommand
    BY DEF Inv, InTime
  <2>2. /\ ConfigLate' = ConfigLate /\ ActionLate' = ActionLate /\ Left' = Left
        /\ (Refreshing' <=> Refreshing)
    BY DEF ConfigLate, ActionLate, Left, Refreshing
  <2>3. Rest' = Rest
    BY <2>2 DEF Rest, Wait
  <2>4. ToGo' = ToGo
    BY <2>2, <2>3 DEF ToGo
  <2>5. stale' <= stale /\ stale' \in Int /\ stale \in Int /\ ToGo \in Int
    <3>1. Numbers
      BY TypeNumbers DEF Inv
    <3>. QED  BY <3>1, Constants DEF Numbers, ToGo
  <2>6. stale' + ToGo' <= ConfigRefresh + 3 * OneCommand
    BY <2>1, <2>4, <2>5, Constants
  <2>7. CommandOfStep' /\ ConfigureInTime'
    BY <2>1, <2>2, <2>3 DEF CommandOfStep, ConfigureInTime
  <2>8. QueryInTime' /\ IdleInTime'
    BY <2>1, <2>2, <2>3 DEF QueryInTime, IdleInTime
  <2>. QED  BY <2>6, <2>7, <2>8
<1>. QED  BY <1>1 DEF Inv

LEMMA InvModemDown == ASSUME Inv, ModemDown PROVE Inv'
<1>1. /\ up' = FALSE /\ stale' = 0 /\ owed' = 0
      /\ UNCHANGED <<wd, command, age, now, gap, refused, pduMode, directUrc>>
  BY DEF ModemDown
<1>2. TypeOK'
  <2>1. WdOK' /\ FlagsOK'
    BY <1>1, TypeParts DEF Inv, WdOK, FlagsOK
  <2>2. CountsOK'
    BY <1>1, TypeParts, Constants DEF Inv, CountsOK
  <2>. QED  BY <2>1, <2>2, TypeParts
<1>3. Before'
  BY <1>1 DEF Inv, Before
<1>. QED  BY <1>1, <1>2, <1>3, SameWatchdog

\* The report of a restart, the modem having been down until then.
LEMMA InvRecovery ==
  ASSUME Inv, RecoveryUrc, wd.startupComplete, stale = 0, FlagsOK',
         UNCHANGED <<command, age, now, gap, refused, stale>>
  PROVE  Inv'
<1>1. Numbers /\ TypeOK /\ wd \in Watchdogs /\ now \in Time
  BY TypeNumbers DEF Inv, Numbers
<1>2. wd' = RequestRecovery(wd) /\ owed' = (IF owed = 0 THEN Count(1) ELSE owed)
  BY DEF RecoveryUrc
<1>3. CountsOK'
  <2>1. owed' \in 0 .. HistoryCap
    BY <1>1, <1>2, CountType DEF TypeOK
  <2>. QED  BY <1>1, <2>1, TypeParts DEF CountsOK
<1>4. CASE ~wd.pending
  <2>1. wd' = [wd EXCEPT !.work = "Configure", !.step = "PduMode",
                         !.nextConfig = now, !.nextAction = now]
    BY <1>2, <1>4 DEF RequestRecovery
  <2>2. /\ wd' \in Watchdogs /\ wd'.startupComplete /\ ~wd'.pending
        /\ wd'.work = "Configure" /\ wd'.step = "PduMode" /\ wd'.nextAction = now'
    BY <1>1, <1>4, <2>1 DEF Watchdogs, Steps
  <2>3. TypeOK'
    BY <1>1, <1>3, <1>4, <2>2, TypeParts DEF WdOK
  <2>. QED  BY <2>2, <2>3, ConfigureNow DEF Inv
<1>5. CASE wd.pending
  <2>1. wd' = [wd EXCEPT !.nextConfig = now]
    BY <1>2, <1>5 DEF RequestRecovery
  <2>2. /\ wd' \in Watchdogs /\ wd'.startupComplete /\ wd'.pending
        /\ wd'.work = wd.work /\ wd'.step = wd.step
        /\ wd'.nextAction = wd.nextAction /\ wd'.nextConfig = now
    BY <1>1, <1>5, <2>1 DEF Watchdogs
  <2>3. TypeOK'
    BY <1>1, <1>3, <1>5, <2>2, TypeParts DEF WdOK
  <2>4. ConfigLate' = 0 /\ ActionLate' = ActionLate /\ (Refreshing' <=> Refreshing)
    BY <1>1, <2>2, LateNow DEF ConfigLate, ActionLate, Refreshing
  <2>5. Rest' = Rest /\ Rest \in Nat /\ Rest <= CommandTime
    BY <1>1, <1>5, <2>2, Constants DEF Rest, Numbers
  <2>6. /\ CommandOfStep /\ ConfigureInTime /\ QueryInTime /\ IdleInTime
        /\ stale + ToGo <= ConfigRefresh + 3 * OneCommand /\ wd.work # "None"
    BY <1>5 DEF Inv, InTime, CommandOfStep
  <2>7. Before'
    BY <1>5, <2>2 DEF Inv, Before
  <2>8. CommandOfStep' /\ ConfigureInTime' /\ IdleInTime'
    BY <1>5, <2>2, <2>4, <2>5, <2>6, Constants
    DEF CommandOfStep, ConfigureInTime, IdleInTime, Refreshing
  <2>9. QueryInTime'
    BY <2>2, <2>4, <2>5, Constants DEF QueryInTime
  <2>10. stale' + ToGo' <= ConfigRefresh + 3 * OneCommand
    <3>1. CASE Refreshing
      BY <2>2, <2>4, <2>5, <2>6, <3>1 DEF ToGo
    <3>2. CASE ~Refreshing
      <4>1. ToGo' = Rest + 2 * OneCommand
        BY <2>2, <2>4, <2>5, <2>6, <3>2 DEF ToGo
      <4>. QED  BY <2>5, <4>1, Constants
    <3>. QED  BY <3>1, <3>2
  <2>. QED  BY <2>2, <2>3, <2>7, <2>8, <2>9, <2>10 DEF Inv, InTime
<1>. QED  BY <1>4, <1>5

LEMMA InvModemUp == ASSUME Inv, ModemUp PROVE Inv'
<1>1. ~up /\ up' = TRUE /\ UNCHANGED <<command, age, now, gap, refused, stale>>
  BY DEF ModemUp
<1>2. stale = 0
  BY <1>1 DEF Inv, Before
<1>3. FlagsOK'
  BY TypeParts DEF ModemUp, FlagsOK, Inv
<1>4. CASE RecoveryUrc /\ wd.startupComplete
  BY <1>1, <1>2, <1>3, <1>4, InvRecovery
<1>5. CASE UNCHANGED <<wd, owed>>
  <2>1. TypeOK'
    BY <1>1, <1>3, <1>5, TypeParts DEF Inv, WdOK, CountsOK
  <2>2. Before'
    BY <1>1, <1>2, <1>5 DEF Inv, Before
  <2>. QED  BY <1>1, <1>5, <2>1, <2>2, SameWatchdog
<1>6. RecoveryUrc /\ ~wd.startupComplete => UNCHANGED <<wd, owed>>
  BY DEF RecoveryUrc
<1>. QED  BY <1>4, <1>5, <1>6 DEF ModemUp

LEMMA TickTypes == ASSUME Inv, Tick PROVE TypeOK' /\ Before' /\ stale' <= stale + 1
<1>1. TypeOK /\ Numbers
  BY TypeNumbers DEF Inv
<1>2. /\ gap < MaxLoopGap /\ (command # "none" => age < CommandTime)
      /\ now' = Plus(now, 1) /\ gap' = gap + 1
      /\ age' = (IF command # "none" THEN age + 1 ELSE age)
      /\ stale' = (IF wd.startupComplete /\ up THEN Count(stale + 1) ELSE 0)
      /\ owed' = (IF owed > 0 THEN Count(owed + 1) ELSE 0)
      /\ UNCHANGED <<wd, command, refused, up, pduMode, directUrc>>
  BY DEF Tick
<1>3. now' \in Time
  <2>1. 1 \in 0 .. HalfRange
    BY HalfRangeType
  <2>. QED  BY <1>1, <1>2, <2>1, PlusCongruent DEF Numbers
<1>4. stale' \in 0 .. HistoryCap /\ stale' <= stale + 1
  <2>1. stale + 1 \in Nat /\ stale \in Nat
    BY <1>1 DEF Numbers
  <2>. QED  BY <1>2, <2>1, CountType, Constants
<1>5. owed' \in 0 .. HistoryCap
  <2>1. owed + 1 \in Nat
    BY <1>1, Constants DEF TypeOK
  <2>. QED  BY <1>2, <2>1, CountType, Constants
<1>6. CountsOK'
  <2>1. age' \in 0 .. CommandTime /\ gap' \in 0 .. MaxLoopGap /\ refused' \in 0 .. MaxRefusals
    BY <1>1, <1>2, Constants DEF Numbers
  <2>. QED  BY <1>3, <1>4, <1>5, <2>1 DEF CountsOK
<1>7. WdOK' /\ FlagsOK'
  BY <1>1, <1>2, TypeParts DEF WdOK, FlagsOK
<1>8. Before'
  BY <1>2 DEF Inv, Before
<1>. QED  BY <1>4, <1>6, <1>7, <1>8, TypeParts

\* With every millisecond there is one less to wait for.
LEMMA InvTick == ASSUME Inv, Tick PROVE Inv'
<1>1. TypeOK' /\ Before' /\ stale' <= stale + 1 /\ Numbers /\ Numbers'
  BY TickTypes, TypeNumbers, TypeNumbersNext DEF Inv
<1>2. /\ gap < MaxLoopGap /\ (command # "none" => age < CommandTime)
      /\ now' = Plus(now, 1) /\ gap' = gap + 1
      /\ age' = (IF command # "none" THEN age + 1 ELSE age)
      /\ UNCHANGED <<wd, command, refused, up, pduMode, directUrc>>
  BY DEF Tick
<1>3. ASSUME wd.startupComplete PROVE InTime'
  <2>1. /\ CommandOfStep /\ ConfigureInTime /\ QueryInTime /\ IdleInTime
        /\ stale + ToGo <= ConfigRefresh + 3 * OneCommand
    BY <1>3 DEF Inv, InTime
  <2>2. wd \in Watchdogs /\ now \in Time /\ wd.nextAction \in Time /\ wd.nextConfig \in Time
    BY <1>1 DEF Numbers, Watchdogs
  <2>3. /\ OneCommand \in Nat /\ CommandTime \in Nat /\ MaxLoopGap \in Nat /\ ConfigRefresh \in Nat
        /\ CommandTime > 0 /\ ConfigRefresh > 0 /\ Retry \in Nat /\ Retry > 0
        /\ CommandTime + MaxLoopGap <= OneCommand
    BY Constants
  <2>4. HalfRange \in Nat /\ ConfigRefresh + 1 + 2 * OneCommand <= HalfRange
    BY Constants, HalfRangeType
  <2>5. (Refreshing' <=> Refreshing) /\ Left' = Left
    BY <1>2 DEF Refreshing, Left
  <2>6. /\ gap \in Nat /\ age \in Nat /\ age <= CommandTime
        /\ ConfigLate \in Int /\ ActionLate \in Int /\ Left \in Nat /\ Rest \in Nat
        /\ Left + CommandTime + MaxLoopGap <= OneCommand
    BY <1>1 DEF Numbers
  <2>7. Rest' \in Nat
    BY <1>1 DEF Numbers
  <2>8. ~wd.pending => Rest >= CommandTime
    BY <1>2, <2>3, <2>6 DEF Rest, Wait
  <2>9. ~Refreshing => ConfigLate' = ConfigLate + 1
    <3>1. ~Refreshing => ConfigLate < HalfRange - 1
      <4>1. ~Refreshing => wd.work = "None" \/ wd.step = "QueryUrc"
        BY <2>1, <2>2 DEF Refreshing, Watchdogs, Steps, CommandOfStep
      <4>2. wd.work = "None" => ConfigLate < HalfRange - 1
        BY <2>1, <2>3, <2>6, <2>4 DEF IdleInTime
      <4>3. wd.work # "None" /\ wd.step = "QueryUrc" => ConfigLate < HalfRange - 1
        BY <2>1, <2>3, <2>6, <2>4 DEF QueryInTime
      <4>. QED  BY <4>1, <4>2, <4>3
    <3>. QED  BY <1>2, <2>2, <3>1, LateTick DEF ConfigLate
  <2>10. ~wd.pending => ActionLate' = ActionLate + 1
    <3>1. ~wd.pending /\ wd.work # "None" => ActionLate <= gap
      <4>1. wd.work # "None" => Refreshing \/ wd.step = "QueryUrc"
        BY <2>1, <2>2 DEF Refreshing, Watchdogs, Steps, CommandOfStep
      <4>. QED  BY <2>1, <4>1 DEF ConfigureInTime, QueryInTime
    <3>2. wd.work = "None" => ActionLate < HalfRange - 1
      <4>1. wd.work = "None" => ConfigLate <= 2 * OneCommand - 1
        BY <2>1, <2>3, <2>6, <2>8 DEF IdleInTime, CommandOfStep
      <4>. QED  BY <2>1, <2>3, <2>6, <2>4, <4>1 DEF IdleInTime
    <3>3. ~wd.pending => ActionLate < HalfRange - 1
      BY <1>2, <2>3, <2>6, <2>4, <3>1, <3>2
    <3>. QED  BY <1>2, <2>2, <3>3, LateTick DEF ActionLate
  <2>11. Rest' <= Rest - 1
    <3>1. CASE wd.pending
      <4>1. age' = age + 1
        BY <1>2, <3>1 DEF Inv, TypeOK
      <4>2. Rest = CommandTime - age /\ Rest' = CommandTime - age'
        BY <1>2, <3>1 DEF Rest
      <4>. QED  BY <2>3, <2>6, <4>1, <4>2
    <3>2. CASE ~wd.pending
      <4>. DEFINE v == Wait
                  w == Wait'
                  r == Rest'
      <4>1. Rest = v + Left + CommandTime /\ r = w + Left + CommandTime
        BY <1>2, <2>5, <3>2 DEF Rest
      <4>2. v \in Int /\ w \in Int /\ w <= v - 1
        BY <1>2, <2>3, <2>6, <2>10, <3>2 DEF Wait
      <4>. HIDE DEF v, w, r
      <4>3. r <= Rest - 1
        BY <2>3, <2>6, <4>1, <4>2
      <4>. QED  BY <4>3 DEF r
    <3>. QED  BY <3>1, <3>2
  <2>12. wd.work = "None" /\ ~(ConfigLate' < 0) => Rest' <= OneCommand \/ ConfigLate >= 0
    <3>. SUFFICES ASSUME wd.work = "None", ~(ConfigLate' < 0), ConfigLate < 0
                  PROVE  Rest' <= OneCommand
      BY <2>6
    <3>1. ~wd.pending /\ ~wd'.pending /\ ConfigLate = -1 /\ ActionLate' = ActionLate + 1
      BY <1>2, <2>1, <2>6, <2>9, <2>10 DEF CommandOfStep, Refreshing
    <3>2. Rest <= OneCommand \/ ActionLate' >= 0
      BY <2>1, <2>6, <3>1 DEF IdleInTime
    <3>3. ActionLate' >= 0 => Rest' <= OneCommand
      BY <1>1, <3>1 DEF Numbers
    <3>. QED  BY <2>3, <2>6, <2>11, <2>7, <3>2, <3>3
  <2>13. ToGo' <= ToGo - 1 /\ ToGo \in Int /\ ToGo' \in Int
    <3>. DEFINE one  == OneCommand
                cl   == ConfigLate
                late == ConfigLate'
                rest == Rest'
                old  == ToGo
                new  == ToGo'
    <3>1. /\ one \in Int /\ cl \in Int /\ rest \in Int /\ rest <= Rest - 1 /\ Rest \in Int
          /\ (~Refreshing => late = cl + 1)
          /\ (wd.work = "None" /\ ~(late < 0) => rest <= one \/ cl >= 0)
      BY <2>3, <2>6, <2>9, <2>11, <2>12, <2>7
    <3>2. CASE Refreshing
      <4>1. /\ old = IF wd.step = "PduMode" THEN Rest + one ELSE Rest
            /\ new = IF wd.step = "PduMode" THEN rest + one ELSE rest
        BY <1>2, <2>5, <3>2 DEF ToGo
      <4>. HIDE DEF one, cl, late, rest, old, new
      <4>2. new <= old - 1 /\ old \in Int /\ new \in Int
        BY <3>1, <4>1
      <4>. QED  BY <4>2 DEF old, new
    <3>3. CASE ~Refreshing /\ wd.work = "None"
      <4>1. /\ old = IF cl < 0 THEN 3 * one - cl ELSE Rest + one
            /\ new = IF late < 0 THEN 3 * one - late ELSE rest + one
        BY <1>2, <2>5, <3>3 DEF ToGo
      <4>2. one >= 0
        BY <2>3
      <4>. HIDE DEF one, cl, late, rest, old, new
      <4>3. new <= old - 1 /\ old \in Int /\ new \in Int
        BY <3>3, <3>1, <4>1, <4>2
      <4>. QED  BY <4>3 DEF old, new
    <3>4. CASE ~Refreshing /\ wd.work # "None"
      <4>1. /\ old = IF cl < 0 THEN 3 * one - cl ELSE Rest + 2 * one
            /\ new = IF late < 0 THEN 3 * one - late ELSE rest + 2 * one
        BY <1>2, <2>5, <3>4 DEF ToGo
      <4>2. Rest <= OneCommand
        <5>1. wd.step = "QueryUrc"
          BY <2>1, <2>2, <3>4 DEF Refreshing, Watchdogs, Steps, CommandOfStep
        <5>. QED  BY <2>1, <3>4, <5>1 DEF QueryInTime
      <4>. HIDE DEF cl, late, rest, old, new
      <4>3. new <= old - 1 /\ old \in Int /\ new \in Int
        BY <3>4, <3>1, <4>1, <4>2
      <4>. QED  BY <4>3 DEF old, new
    <3>. QED  BY <3>2, <3>3, <3>4
  <2>14. stale' + ToGo' <= ConfigRefresh + 3 * OneCommand
    <3>. DEFINE bound == ConfigRefresh + 3 * OneCommand
                old == ToGo
                new == ToGo'
                s   == stale'
    <3>1. stale \in Int /\ s \in Int /\ s <= stale + 1 /\ bound \in Int
      BY <1>1, <2>3 DEF Numbers
    <3>2. stale + old <= bound /\ new <= old - 1 /\ old \in Int /\ new \in Int
      BY <2>1, <2>13
    <3>. HIDE DEF bound, old, new, s
    <3>3. s + new <= bound
      BY <3>1, <3>2
    <3>. QED  BY <3>3 DEF bound, new, s
  <2>15. CommandOfStep'
    BY <1>2, <2>1, <2>5 DEF CommandOfStep
  <2>16. ConfigureInTime'
    BY <1>2, <2>1, <2>3, <2>5, <2>6, <2>10, <2>11, <2>7 DEF ConfigureInTime
  <2>17. QueryInTime'
    <3>1. wd.work # "None" /\ wd.step = "QueryUrc" => ~Refreshing
      BY DEF Refreshing
    <3>. QED  BY <1>2, <2>1, <2>3, <2>6, <2>9, <2>10, <2>11, <2>7, <3>1 DEF QueryInTime
  <2>18. IdleInTime'
    <3>. SUFFICES ASSUME (wd.work = "None")'
                  PROVE  /\ -ConfigRefresh <= ConfigLate'
                         /\ ConfigLate' >= 0 => ConfigLate' <= 2 * OneCommand - Rest'
                         /\ ActionLate' <= ConfigLate' + ConfigRefresh
                         /\ \/ Rest' <= OneCommand
                            \/ (refused = 0 /\ ConfigLate < 0 /\ ConfigLate <= ActionLate)'
      BY DEF IdleInTime
    <3>1. wd.work = "None" /\ IdleInTime /\ ~wd.pending /\ ~Refreshing
      BY <1>2, <2>1 DEF CommandOfStep, Refreshing
    <3>2. ConfigLate' = ConfigLate + 1 /\ ActionLate' = ActionLate + 1
      BY <2>9, <2>10, <3>1
    <3>3. -ConfigRefresh <= ConfigLate' /\ ActionLate' <= ConfigLate' + ConfigRefresh
      BY <2>3, <2>6, <3>1, <3>2 DEF IdleInTime
    <3>4. ConfigLate' >= 0 => ConfigLate' <= 2 * OneCommand - Rest'
      <4>1. ConfigLate >= 0 => ConfigLate <= 2 * OneCommand - Rest
        BY <3>1 DEF IdleInTime
      <4>2. ConfigLate' >= 0 => Rest' <= OneCommand \/ ConfigLate >= 0
        BY <2>6, <2>12, <3>1, <3>2
      <4>3. ConfigLate < 0 /\ ConfigLate' >= 0 => ConfigLate' = 0
        BY <2>6, <3>2
      <4>. DEFINE late == ConfigLate'
                  rest == Rest'
                  one  == OneCommand
      <4>4. late \in Int /\ rest \in Int /\ one \in Nat /\ rest <= Rest - 1 /\ late = ConfigLate + 1
        BY <2>3, <2>6, <2>11, <2>7, <3>2
      <4>5. /\ ConfigLate >= 0 => ConfigLate <= 2 * one - Rest
            /\ late >= 0 => rest <= one \/ ConfigLate >= 0
            /\ ConfigLate < 0 /\ late >= 0 => late = 0
        BY <4>1, <4>2, <4>3
      <4>. HIDE DEF late, rest, one
      <4>6. late >= 0 => late <= 2 * one - rest
        BY <2>6, <4>4, <4>5
      <4>. QED  BY <4>6 DEF late, rest, one
    <3>5. Rest' <= OneCommand \/ (refused = 0 /\ ConfigLate < 0 /\ ConfigLate <= ActionLate)'
      BY <1>2, <2>3, <2>6, <2>11, <2>12, <2>7, <3>1, <3>2 DEF IdleInTime
    <3>. QED  BY <3>3, <3>4, <3>5
  <2>. QED  BY <2>14, <2>15, <2>16, <2>17, <2>18 DEF InTime
<1>4. ~wd.startupComplete => InTime'
  BY <1>2 DEF InTime
<1>. QED  BY <1>1, <1>3, <1>4 DEF Inv

-----------------------------------------------------------------------------
(* The theorems. *)

LEMMA InvNext == Inv /\ [Next]_vars => Inv'
<1>. SUFFICES ASSUME Inv, [Next]_vars PROVE Inv'
  OBVIOUS
<1>1. ASSUME NEW accepted \in BOOLEAN, Poll(accepted) PROVE Inv'
  <2>1. CASE ToSubmit = "none"
    BY <1>1, <2>1, InvPollIdle
  <2>2. CASE ToSubmit # "none" /\ accepted = TRUE
    BY <1>1, <2>2, InvPollAccepted
  <2>3. CASE ToSubmit # "none" /\ accepted = FALSE
    BY <1>1, <2>3, InvPollRefused
  <2>. QED  BY <2>1, <2>2, <2>3
<1>2. ASSUME NEW result \in Results, Result(result) PROVE Inv'
  BY <1>2, InvResult
<1>3. CASE StartupDone
  BY <1>3, InvStartupDone
<1>4. CASE ModemDown
  BY <1>4, InvModemDown
<1>5. CASE ModemUp
  BY <1>5, InvModemUp
<1>6. CASE Tick
  BY <1>6, InvTick
<1>7. CASE UNCHANGED vars
  <2>1. TypeOK' /\ Before'
    BY <1>7 DEF vars, Inv, TypeOK, Before
  <2>. QED  BY <1>7, <2>1, SameWatchdog DEF vars
<1>. QED  BY <1>1, <1>2, <1>3, <1>4, <1>5, <1>6, <1>7 DEF Next, Firmware

THEOREM Invariance == Spec => []Inv
  BY InvInit, InvNext, PTL DEF Spec

\* The fields, the command in the channel and the clock are of their types, and
\* the watchdog is pending exactly while its command is in the channel: it
\* never has two (markSubmitted() and complete()).
THEOREM TypeCorrect == Spec => []TypeOK
<1>1. Inv => TypeOK
  BY DEF Inv
<1>. QED  BY <1>1, Invariance, PTL

LEMMA InvFresh == Inv => SettingsStayFresh
<1>. SUFFICES ASSUME Inv PROVE SettingsStayFresh
  OBVIOUS
<1>1. Numbers /\ OneCommand \in Nat /\ ConfigRefresh \in Nat
  BY TypeNumbers, Constants DEF Inv
<1>2. CASE ~wd.startupComplete
  BY <1>1, <1>2, Constants DEF SettingsStayFresh, Slack, Inv, Before
<1>3. CASE wd.startupComplete
  <2>1. ToGo \in Nat
    BY <1>1 DEF ToGo, Numbers
  <2>2. stale + ToGo <= ConfigRefresh + 3 * OneCommand /\ stale \in Nat
    BY <1>1, <1>3 DEF Inv, InTime, Numbers
  <2>. QED  BY <1>1, <2>1, <2>2 DEF SettingsStayFresh, Slack
<1>. QED  BY <1>2, <1>3

\* A modem that answers has its settings made again at least every
\* ConfigRefresh milliseconds and the time of three commands: queries in
\* between (complete()), refusals (defer()) and the wrap of millis() never put
\* the refresh off for longer.
THEOREM SettingsAreFresh == Spec => []SettingsStayFresh
  BY Invariance, InvFresh, PTL
=============================================================================
