------------------------ MODULE SmsReceiveWatchdog ------------------------
(***************************************************************************)
(* sms_receive_watchdog_core.cpp and pollSmsReceiveWatchdog() of main.cpp: *)
(* the modem must be told to use PDU mode (AT+CMGF=0) and to deliver       *)
(* messages (AT+CNMI=2,2,0,0,0), and forgets both when it restarts.  The   *)
(* watchdog repeats the two commands when the modem reports a restart and  *)
(* at intervals, and asks for the setting in between.                      *)
(*                                                                         *)
(* The AT channel is seen from this one client: a submission is accepted   *)
(* or refused, and an accepted one is called back once, some time later.   *)
(***************************************************************************)
EXTENDS Clock32

CONSTANTS
  ConfigRefresh,  \* kConfigRefreshMs
  StatusQuery,    \* kStatusQueryMs
  Retry,          \* kRetryDelayMs
  CommandTime,    \* bound: how long a command is in the channel
  MaxLoopGap,     \* bound: milliseconds between two polls
  MaxRefusals,    \* bound: submissions refused in a row, the ring being full
  HistoryCap      \* bound: how far the history variables count

\* The longest from the moment a command is due to its result, refused as
\* often as can be; and three of them.
OneCommand == CommandTime + MaxLoopGap + MaxRefusals * (Retry + MaxLoopGap)
Slack      == 3 * OneCommand

ASSUME SmsReceiveWatchdogAssumption ==
  /\ {ConfigRefresh, StatusQuery, Retry, CommandTime, MaxLoopGap} \subseteq Nat \ {0}
  /\ Retry <= ConfigRefresh
  /\ ConfigRefresh + StatusQuery + 2 * OneCommand <= HalfRange
  /\ MaxRefusals \in Nat
  /\ HistoryCap \in Nat

VARIABLES
  wd,         \* the fields of SmsReceiveWatchdogCore
  command,    \* the watchdog's command in the channel, or "none"
  age,        \* for how long
  now,        \* millis()
  gap,        \* time since the last poll
  refused,    \* submissions refused in a row
  up,         \* the modem answers
  pduMode, directUrc,  \* the settings of the modem
  stale,      \* history: true time, with the modem up, since both settings were
              \* last made, one after the other, counted up to HistoryCap
  owed        \* history: time since the oldest reported restart that no
              \* configuration has been begun for, counted up to HistoryCap

vars == <<wd, command, age, now, gap, refused, up, pduMode, directUrc, stale, owed>>

Commands == {"CMGF", "CNMI", "CNMI?"}
Results  == {"Ok", "Error", "Timeout"}

Count(x) == IF x > HistoryCap THEN HistoryCap ELSE x

\* begin()
Init ==
  /\ now \in {0, ClockMod - 2}
  /\ wd = [ startupComplete |-> FALSE, pending |-> FALSE, step |-> "PduMode",
            work |-> "None", nextAction |-> now, nextConfig |-> now, nextStatus |-> now ]
  /\ command = "none" /\ age = 0 /\ gap = 0 /\ refused = 0
  /\ up \in BOOLEAN
  /\ pduMode = FALSE /\ directUrc = FALSE
  /\ stale = 0 /\ owed = 0

-----------------------------------------------------------------------------
(* SmsReceiveWatchdogCore *)

\* requestRecovery(): a command under way is let finish.
RequestRecovery(w) ==
  IF w.pending THEN [w EXCEPT !.nextConfig = now]
  ELSE [w EXCEPT !.work = "Configure", !.step = "PduMode",
                 !.nextConfig = now, !.nextAction = now]

\* commandToSubmit()
ConfigDue == Due(now, wd.nextConfig)

ToSubmit ==
  IF ~wd.startupComplete \/ wd.pending \/ ~Due(now, wd.nextAction) THEN "none"
  ELSE CASE wd.work = "None" /\ ConfigDue -> "CMGF"
         [] wd.work = "None" /\ ~ConfigDue ->
              IF Due(now, wd.nextStatus) THEN "CNMI?" ELSE "none"
         [] wd.work = "Configure" /\ wd.step = "PduMode"   -> "CMGF"
         [] wd.work = "Configure" /\ wd.step = "DirectUrc" -> "CNMI"
         [] OTHER -> "CNMI?"

\* markSubmitted()
MarkSubmitted ==
  LET w == [wd EXCEPT !.pending = TRUE]
  IN  IF wd.work # "None" THEN w
      ELSE IF ConfigDue THEN [w EXCEPT !.work = "Configure", !.step = "PduMode"]
      ELSE [w EXCEPT !.work = "QueryOnly", !.step = "QueryUrc"]

\* complete(): the end of a query is the end of the cycle, whatever it said.
\* Faulty variant: every cycle puts the refresh off.
CycleDone_PutsRefreshOff(w) ==
  LET next == Plus(now, StatusQuery)
  IN  [w EXCEPT !.work = "None", !.step = "PduMode", !.nextStatus = next,
                !.nextConfig = Plus(now, ConfigRefresh), !.nextAction = next]

CycleDone(w) ==
  LET next == Plus(now, StatusQuery)
  IN  [w EXCEPT !.work = "None", !.step = "PduMode", !.nextStatus = next,
                !.nextAction = IF Due(w.nextConfig, next) THEN next ELSE w.nextConfig]

Complete(result) ==
  LET w == [wd EXCEPT !.pending = FALSE]
  IN  CASE wd.work = "QueryOnly" \/ wd.step = "QueryUrc" -> CycleDone(w)
        [] result # "Ok" /\ wd.step # "QueryUrc" /\ wd.work # "QueryOnly" ->
             [w EXCEPT !.step = "PduMode", !.nextAction = Plus(now, Retry),
                       !.nextConfig = Plus(now, Retry)]
        [] result = "Ok" /\ wd.work = "Configure" /\ wd.step = "PduMode" ->
             [w EXCEPT !.step = "DirectUrc", !.nextAction = now]
        [] result = "Ok" /\ wd.work = "Configure" /\ wd.step = "DirectUrc" ->
             [w EXCEPT !.step = "QueryUrc", !.nextAction = now,
                       !.nextConfig = Plus(now, ConfigRefresh)]

-----------------------------------------------------------------------------
(* main.cpp *)

\* setStartupComplete()
StartupDone ==
  /\ ~wd.startupComplete
  /\ wd' = RequestRecovery([wd EXCEPT !.startupComplete = TRUE])
  /\ stale' = 0
  /\ UNCHANGED <<command, age, now, gap, refused, up, pduMode, directUrc, owed>>

\* pollSmsReceiveWatchdog(); a refused submission is deferred.
Poll(accepted) ==
  /\ gap' = 0
  /\ accepted \/ refused < MaxRefusals
  /\ CASE ToSubmit = "none" ->
            UNCHANGED <<wd, command, age, refused, owed>>
       [] ToSubmit # "none" /\ accepted ->
            /\ wd' = MarkSubmitted
            /\ command' = ToSubmit
            /\ age' = 0
            /\ refused' = 0
            /\ owed' = IF ToSubmit = "CMGF" THEN 0 ELSE owed
       [] OTHER ->
            /\ wd' = [wd EXCEPT !.nextAction = Plus(now, Retry)]
            /\ refused' = refused + 1
            /\ UNCHANGED <<command, age, owed>>
  /\ UNCHANGED <<now, up, pduMode, directUrc, stale>>

\* handleSmsReceiveWatchdogResult()
Result(result) ==
  /\ command # "none"
  /\ up => result = "Ok"
  /\ wd' = Complete(result)
  /\ command' = "none"
  /\ age' = 0
  /\ pduMode' = (pduMode \/ (command = "CMGF" /\ result = "Ok"))
  /\ directUrc' = (directUrc \/ (command = "CNMI" /\ result = "Ok"))
  /\ stale' = IF command = "CNMI" /\ result = "Ok" THEN 0 ELSE stale
  /\ UNCHANGED <<now, gap, refused, up, owed>>

\* The URC +MATREADY or +CPIN: READY.
RecoveryUrc ==
  /\ wd' = IF wd.startupComplete THEN RequestRecovery(wd) ELSE wd
  /\ owed' = IF wd.startupComplete /\ owed = 0 THEN Count(1) ELSE owed

-----------------------------------------------------------------------------
(* The modem and the clock. *)

ModemDown ==
  /\ up
  /\ up' = FALSE
  /\ stale' = 0
  /\ owed' = 0
  /\ UNCHANGED <<wd, command, age, now, gap, refused, pduMode, directUrc>>

\* It comes back, with or without having lost its settings, and may report it.
ModemUp ==
  /\ ~up
  /\ up' = TRUE
  /\ \/ UNCHANGED <<pduMode, directUrc, wd, owed>>
     \/ /\ pduMode' = FALSE /\ directUrc' = FALSE
        /\ RecoveryUrc \/ UNCHANGED <<wd, owed>>
  /\ UNCHANGED <<command, age, now, gap, refused, stale>>

Tick ==
  /\ gap < MaxLoopGap
  /\ command # "none" => age < CommandTime
  /\ now' = Plus(now, 1)
  /\ gap' = gap + 1
  /\ age' = IF command # "none" THEN age + 1 ELSE age
  /\ stale' = IF wd.startupComplete /\ up THEN Count(stale + 1) ELSE 0
  /\ owed' = IF owed > 0 THEN Count(owed + 1) ELSE 0
  /\ UNCHANGED <<wd, command, refused, up, pduMode, directUrc>>

-----------------------------------------------------------------------------

Firmware ==
  \/ \E accepted \in BOOLEAN : Poll(accepted)
  \/ \E result \in Results : Result(result)

Next ==
  \/ Firmware
  \/ StartupDone
  \/ ModemDown
  \/ ModemUp
  \/ Tick

Spec == Init /\ [][Next]_vars

\* loop() polls for ever, the channel calls back, time passes, and the
\* startup sequence ends (StartupSequencer).
FairSpec ==
  /\ Spec
  /\ WF_vars(\E accepted \in BOOLEAN : Poll(accepted))
  /\ WF_vars(\E result \in Results : Result(result))
  /\ WF_vars(StartupDone)
  /\ WF_vars(Tick)

-----------------------------------------------------------------------------
(* Properties. *)

Steps == {"PduMode", "DirectUrc", "QueryUrc"}

\* Types; and one command of the watchdog at a time.
TypeOK ==
  /\ wd \in [ startupComplete : BOOLEAN, pending : BOOLEAN, step : Steps,
              work : {"None", "Configure", "QueryOnly"},
              nextAction : Time, nextConfig : Time, nextStatus : Time ]
  /\ command \in Commands \cup {"none"}
  /\ wd.pending <=> command # "none"
  /\ age \in 0 .. CommandTime /\ gap \in 0 .. MaxLoopGap /\ refused \in 0 .. MaxRefusals
  /\ now \in Time
  /\ up \in BOOLEAN /\ pduMode \in BOOLEAN /\ directUrc \in BOOLEAN
  /\ stale \in 0 .. HistoryCap /\ owed \in 0 .. HistoryCap

\* With a modem that answers, the settings are made again at least every
\* ConfigRefresh milliseconds and the time of the commands in between, also
\* across the wrap of millis(): the queries never push the refresh away.
SettingsStayFresh == stale <= ConfigRefresh + Slack

\* Once the modem stays up, its settings are made and stay made, however it
\* failed before and whether or not it reported its restart.
EventuallyConfigured == <>[]up => <>[](pduMode /\ directUrc)

\* A reported restart starts the configuration from its first step as soon as
\* the commands under way are done, not at the next refresh: the test
\* test_matready_and_cpin_ready_trigger_immediate_recovery_after_startup
\* (test/test_sms_receive_watchdog/test_sms_receive_watchdog.cpp:158).
RecoveryIsPrompt == owed <= Slack
=============================================================================
