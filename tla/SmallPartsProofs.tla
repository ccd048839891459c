-------------------------- MODULE SmallPartsProofs ----------------------------
(***************************************************************************)
(* The invariants of the eight small parts, for every value of their       *)
(* constants: buffers, rings, clocks, requests, modems.  Each part has an  *)
(* inductive invariant over its own variables; the steps of the others leave *)
(* those alone, so that the conjunction of all is one of MCSmallParts.     *)
(***************************************************************************)
EXTENDS MCSmallParts, Integers, WellFoundedInduction, TLAPS

\* One part is followed all the time.
LEMMA PartStays == [Next]_vars => part' = part
  BY DEF Next, vars, SimOnly, WifiOnly, ConfigOnly, LogOnly, StatusOnly, DataOnly, ConsoleOnly,
     JsonOnly

\* A step of the system is one of the part or leaves what is the part's alone.
LEMMA ConfigSteps == [Next]_vars => [Config!Next]_(Config!vars)
  BY DEF Next, vars, nvsVars, Config!vars, SimOnly, WifiOnly, ConfigOnly, LogOnly, StatusOnly,
     DataOnly, ConsoleOnly, JsonOnly

\* The same for the logger,
LEMMA LogSteps == [Next]_vars => [Log!Next]_(Log!vars)
  BY DEF Next, vars, logVars, Log!vars, SimOnly, WifiOnly, ConfigOnly, LogOnly, StatusOnly,
     DataOnly, ConsoleOnly, JsonOnly

\* the console,
LEMMA ConsoleSteps == [Next]_vars => [Console!Next]_(Console!vars)
  BY DEF Next, vars, consoleVars, Console!vars, SimOnly, WifiOnly, ConfigOnly, LogOnly,
     StatusOnly, DataOnly, ConsoleOnly, JsonOnly

\* the data connection,
LEMMA DataStepsOnly == [Next]_vars => [Data!Next]_(Data!vars)
  BY DEF Next, vars, dataVars, Data!vars, SimOnly, WifiOnly, ConfigOnly, LogOnly, StatusOnly,
     DataOnly, ConsoleOnly, JsonOnly

\* The clock belongs to the part that is followed.
LEMMA SimSteps == part = "sim" /\ [Next]_vars => [Sim!Next]_(Sim!vars)
  BY DEF Next, vars, simVars, clock, Sim!vars, SimOnly, WifiOnly, ConfigOnly, LogOnly,
     StatusOnly, DataOnly, ConsoleOnly, JsonOnly

\* The same for the Wi-Fi manager
LEMMA WifiSteps == part = "wifi" /\ [Next]_vars => [Wifi!Next]_(Wifi!vars)
  BY DEF Next, vars, wifiVars, clock, Wifi!vars, SimOnly, WifiOnly, ConfigOnly, LogOnly,
     StatusOnly, DataOnly, ConsoleOnly, JsonOnly

\* and for the status.
LEMMA StatusSteps == part = "status" /\ [Next]_vars => [Status!Next]_(Status!vars)
  BY DEF Next, vars, statusVars, clock, Status!vars, SimOnly, WifiOnly, ConfigOnly, LogOnly,
     StatusOnly, DataOnly, ConsoleOnly, JsonOnly

-----------------------------------------------------------------------------
(* ModemEvents: the stamps of the SIM. *)

\* The difference of two times, and one millisecond later.
LEMMA OneLater ==
  ASSUME NEW M \in Nat \ {0}, NEW n \in 0 .. M - 1, NEW t \in 0 .. M - 1
  PROVE  /\ (n - t) % M \in 0 .. M - 1
         /\ (n + 1) % M \in 0 .. M - 1
         /\ (n - n) % M = 0
         /\ (((n + 1) % M) - t) % M = IF ((n - t) % M) + 1 < M THEN ((n - t) % M) + 1 ELSE 0
<1>1. (n - t) % M = IF n >= t THEN n - t ELSE n - t + M
  OBVIOUS
<1>2. (n + 1) % M = IF n + 1 < M THEN n + 1 ELSE 0
  OBVIOUS
<1>3. CASE n + 1 < M
  <2>1. (n + 1 - t) % M = IF n + 1 >= t THEN n + 1 - t ELSE n + 1 - t + M
    <3>1. CASE n + 1 >= t /\ n + 1 - t < M
      BY <1>3, <3>1
    <3>2. CASE n + 1 >= t /\ ~(n + 1 - t < M)
      BY <1>3, <3>2
    <3>3. CASE ~(n + 1 >= t)
      BY <1>3, <3>3
    <3>. QED  BY <3>1, <3>2, <3>3
  <2>. QED  BY <1>1, <1>2, <1>3, <2>1
<1>4. CASE ~(n + 1 < M)
  <2>1. n = M - 1 /\ (0 - t) % M = IF t = 0 THEN 0 ELSE M - t
    BY <1>4
  <2>. QED  BY <1>1, <1>2, <1>4, <2>1
<1>. QED  BY <1>1, <1>2, <1>3, <1>4

-----------------------------------------------------------------------------
(* ModemEvents *)

\* A suspicion is younger than the window and the time since the last poll; the
\* histories tell the true times, that of the READY up to whole turns of the
\* clock; and the verdict fits the last report.
ReadyAge == IF sinceReady < ClockMod THEN sinceReady ELSE sinceReady - ClockMod

SimInv ==
  /\ Sim!TypeOK
  /\ simState = "suspect_removed" =>
       /\ Sim!Since(now, lastRemoved) < PairWindow + gap
       /\ sinceRemoved = Sim!Count(Sim!Since(now, lastRemoved))
  /\ simState = "removed" => sinceRemoved >= PairWindow
  /\ IF sinceReady = Sim!Never THEN cpinReadyCount = 0
                               ELSE Sim!Since(now, lastReady) = ReadyAge
  /\ contact = "alone" => simState \in {"suspect_removed", "removed"}
  /\ Sim!PairIsReady

SimAssumption ==
  /\ PairWindow \in Nat \ {0} /\ MaxLoopGap \in Nat \ {0} /\ HistoryCap \in Nat
  /\ CountMod \in Nat \ {0, 1}
  /\ PairWindow + MaxLoopGap < ClockMod /\ PairWindow + MaxLoopGap <= HistoryCap
  /\ ClockMod \in Nat \ {0}

\* What ModemEvents assumes of the constants.
LEMMA SimConstants == SimAssumption
  BY SmallPartsAssumption DEF SimAssumption, Sim!ClockModAssumption, Sim!ModemEventsAssumption

\* Nothing was reported of the SIM at the start.
LEMMA SimInit == Init => SimInv
<1>1. ASSUME Init PROVE SimInv
  <2>1. Sim!Init
    BY <1>1 DEF Init
  <2>2. /\ simState = "unknown" /\ cpinReadyCount = 0 /\ lastReady = 0 /\ lastRemoved = 0 /\ gap = 0
        /\ sinceReady = Sim!Never /\ sinceRemoved = HistoryCap /\ contact = "none"
    BY <2>1 DEF Sim!Init
  <2>3. now \in 0 .. ClockMod - 1
    BY <1>1, SimConstants DEF Init, SimAssumption
  <2>4. Sim!TypeOK
    <3>1. /\ 0 \in 0 .. ClockMod - 1 /\ 0 \in 0 .. MaxLoopGap /\ HistoryCap \in 0 .. HistoryCap
          /\ 0 \in 0 .. CountMod - 1 /\ Sim!Never \in 0 .. Sim!Never
      BY SimConstants DEF SimAssumption, Sim!Never
    <3>2. simState \in Sim!SimStates /\ contact \in Sim!Contacts
      BY <2>2 DEF Sim!SimStates, Sim!Contacts
    <3>. QED  BY <2>2, <2>3, <3>1, <3>2 DEF Sim!TypeOK, Sim!Time
  <2>. QED  BY <2>2, <2>4 DEF SimInv, Sim!PairIsReady
<1>. QED  BY <1>1

\* Every step keeps the stamps to the times that passed (ModemEventsCore::onUrc,
\* poll).
LEMMA SimStep == SimInv /\ [Sim!Next]_(Sim!vars) => SimInv'
<1>. SUFFICES ASSUME SimInv, [Sim!Next]_(Sim!vars) PROVE SimInv'
  OBVIOUS
<1>. DEFINE Removed(n) == (n - lastRemoved) % ClockMod
            Ready(n) == (n - lastReady) % ClockMod
<1>0. SimAssumption /\ Sim!Never = 2 * ClockMod
  BY SimConstants DEF Sim!Never
<1>1. /\ simState \in Sim!SimStates /\ cpinReadyCount \in 0 .. CountMod - 1
      /\ lastReady \in 0 .. ClockMod - 1 /\ lastRemoved \in 0 .. ClockMod - 1 /\ now \in 0 .. ClockMod - 1
      /\ gap \in 0 .. MaxLoopGap
      /\ sinceReady \in 0 .. 2 * ClockMod /\ sinceRemoved \in 0 .. HistoryCap
      /\ contact \in Sim!Contacts
  BY <1>0 DEF SimInv, Sim!TypeOK, Sim!Time
<1>2. /\ simState = "suspect_removed" =>
           Removed(now) < PairWindow + gap /\ sinceRemoved = Sim!Count(Removed(now))
      /\ simState = "removed" => sinceRemoved >= PairWindow
      /\ sinceReady = 2 * ClockMod => cpinReadyCount = 0
      /\ sinceReady # 2 * ClockMod => Ready(now) = ReadyAge
      /\ contact = "alone" => simState \in {"suspect_removed", "removed"}
      /\ contact = "ready" => simState = "ready"
      /\ contact = "paired" /\ cpinReadyCount > 0 => simState = "ready"
  BY <1>0 DEF SimInv, Sim!Since, Sim!PairIsReady
<1>3. /\ Removed(now) \in 0 .. ClockMod - 1 /\ Ready(now) \in 0 .. ClockMod - 1
      /\ (now - now) % ClockMod = 0
  BY <1>0, <1>1, OneLater DEF SimAssumption
<1>4. CASE Sim!Poll
  <2>1. /\ gap' = 0 /\ simState' = Sim!Polled
        /\ UNCHANGED <<cpinReadyCount, lastReady, lastRemoved, now, sinceReady, sinceRemoved, contact>>
    BY <1>4 DEF Sim!Poll
  <2>2. /\ simState' \in Sim!SimStates
        /\ simState' = "suspect_removed" => simState = "suspect_removed" /\ Removed(now) < PairWindow
        /\ simState' = "removed" => simState = "removed" \/ (simState = "suspect_removed" /\ Removed(now) >= PairWindow)
        /\ simState = "ready" => simState' = "ready"
        /\ simState \in {"suspect_removed", "removed"} => simState' \in {"suspect_removed", "removed"}
    BY <1>0, <1>1, <1>3, <2>1 DEF Sim!Polled, Sim!SimStates, Sim!Since, SimAssumption
  <2>3. simState = "suspect_removed" /\ Removed(now) >= PairWindow => sinceRemoved >= PairWindow
    BY <1>0, <1>2, <1>3 DEF Sim!Count, SimAssumption
  <2>4. Sim!TypeOK'
    <3>1. 0 \in 0 .. MaxLoopGap
      BY <1>0 DEF SimAssumption
    <3>. QED  BY <2>1, <2>2, <3>1 DEF SimInv, Sim!TypeOK
  <2>5. simState' = "suspect_removed" => Removed(now) < PairWindow + gap' /\ sinceRemoved = Sim!Count(Removed(now))
    BY <1>0, <1>2, <1>3, <2>1, <2>2 DEF SimAssumption
  <2>6. simState' = "removed" => sinceRemoved >= PairWindow
    BY <1>2, <2>2, <2>3
  <2>. HIDE DEF Removed, Ready
  <2>7. Sim!PairIsReady' /\ (contact' = "alone" => simState' \in {"suspect_removed", "removed"})
    BY <1>2, <2>1, <2>2 DEF Sim!PairIsReady
  <2>8. /\ sinceReady' = sinceReady /\ cpinReadyCount' = cpinReadyCount /\ ReadyAge' = ReadyAge
        /\ Sim!Since(now, lastReady)' = Sim!Since(now, lastReady)
        /\ Sim!Since(now, lastRemoved)' = Removed(now)
    BY <2>1 DEF ReadyAge, Sim!Since, Removed
  <2>. QED  BY <2>1, <2>4, <2>5, <2>6, <2>7, <2>8 DEF SimInv
<1>5. CASE Sim!UrcReady
  <2>1. /\ simState' = "ready" /\ cpinReadyCount' = (cpinReadyCount + 1) % CountMod
        /\ lastReady' = now /\ sinceReady' = 0 /\ contact' = "ready"
        /\ UNCHANGED <<lastRemoved, now, gap, sinceRemoved>>
    BY <1>5 DEF Sim!UrcReady
  <2>2. cpinReadyCount' \in 0 .. CountMod - 1
    <3>. DEFINE c == cpinReadyCount
    <3>1. c \in Nat /\ CountMod \in Nat \ {0}
      BY <1>0, <1>1 DEF SimAssumption
    <3>. HIDE DEF c
    <3>2. (c + 1) % CountMod \in 0 .. CountMod - 1
      BY <3>1
    <3>. QED  BY <2>1, <3>2 DEF c
  <2>3. Sim!TypeOK'
    <3>1. 0 \in 0 .. Sim!Never /\ "ready" \in Sim!SimStates /\ "ready" \in Sim!Contacts
      BY <1>0 DEF SimAssumption, Sim!SimStates, Sim!Contacts
    <3>. QED  BY <2>1, <2>2, <3>1 DEF SimInv, Sim!TypeOK
  <2>4. (now' - lastReady') % ClockMod = 0
    BY <1>0, <1>3, <2>1 DEF SimAssumption
  <2>5. ReadyAge' = 0 /\ sinceReady' # Sim!Never
    BY <1>0, <2>1 DEF ReadyAge, SimAssumption
  <2>. QED  BY <2>1, <2>3, <2>4, <2>5 DEF SimInv, Sim!PairIsReady, Sim!Since
<1>6. CASE Sim!UrcRemoved
  <2>1. /\ simState' = IF Sim!ReadyIsNear THEN "ready" ELSE "suspect_removed"
        /\ lastRemoved' = now /\ sinceRemoved' = 0 /\ contact' = Sim!ContactNow
        /\ UNCHANGED <<cpinReadyCount, lastReady, now, gap, sinceReady>>
    BY <1>6 DEF Sim!UrcRemoved
  <2>2. Sim!TypeOK'
    <3>1. 0 \in 0 .. HistoryCap /\ simState' \in Sim!SimStates /\ contact' \in Sim!Contacts
      BY <1>0, <2>1 DEF SimAssumption, Sim!SimStates, Sim!Contacts, Sim!ContactNow
    <3>. QED  BY <2>1, <3>1 DEF SimInv, Sim!TypeOK
  <2>3. (now' - lastRemoved') % ClockMod = 0
    BY <1>3, <2>1
  <2>4. Sim!ReadyIsNear <=> cpinReadyCount > 0 /\ Ready(now) <= PairWindow
    BY DEF Sim!ReadyIsNear, Sim!Since
  <2>. HIDE DEF Removed, Ready
  <2>5. contact' = "paired" /\ cpinReadyCount > 0 => Sim!ReadyIsNear
    <3>1. contact' = "paired" => sinceReady <= PairWindow
      BY <2>1 DEF Sim!ContactNow
    <3>2. sinceReady <= PairWindow => Ready(now) <= PairWindow
      BY <1>0, <1>1, <1>2 DEF ReadyAge, SimAssumption
    <3>. QED  BY <2>4, <3>1, <3>2
  <2>6. contact' = "alone" => ~Sim!ReadyIsNear
    <3>1. contact' = "alone" =>
            ~(sinceReady <= PairWindow) /\ sinceReady \notin ClockMod .. ClockMod + PairWindow
      BY <2>1 DEF Sim!ContactNow
    <3>2. /\ ~(sinceReady <= PairWindow) /\ sinceReady \notin ClockMod .. ClockMod + PairWindow
          /\ cpinReadyCount > 0
          => ~(Ready(now) <= PairWindow)
      BY <1>0, <1>1, <1>2 DEF ReadyAge, SimAssumption
    <3>. QED  BY <2>4, <3>1, <3>2
  <2>7. Sim!Count(0) = 0 /\ 0 < PairWindow + gap
    BY <1>0, <1>1 DEF Sim!Count, SimAssumption
  <2>8. contact' # "ready"
    BY <2>1 DEF Sim!ContactNow
  <2>9. /\ contact' = "alone" => simState' \in {"suspect_removed", "removed"}
        /\ Sim!PairIsReady'
        /\ simState' # "removed"
    BY <2>1, <2>5, <2>6, <2>8 DEF Sim!PairIsReady
  <2>10. /\ sinceReady' = sinceReady /\ cpinReadyCount' = cpinReadyCount /\ ReadyAge' = ReadyAge
         /\ Sim!Since(now, lastReady)' = Sim!Since(now, lastReady)
         /\ Sim!Since(now, lastRemoved)' = 0
    BY <2>1, <2>3 DEF ReadyAge, Sim!Since
  <2>. QED  BY <2>1, <2>2, <2>7, <2>9, <2>10 DEF SimInv
<1>7. CASE Sim!Tick
  <2>1. /\ gap < MaxLoopGap /\ gap' = gap + 1 /\ now' = (now + 1) % ClockMod
        /\ sinceReady' = Sim!Aged(sinceReady) /\ sinceRemoved' = Sim!Count(sinceRemoved + 1)
        /\ UNCHANGED <<simState, cpinReadyCount, lastReady, lastRemoved, contact>>
    BY <1>7 DEF Sim!Tick, Sim!Plus
  <2>2. /\ now' \in 0 .. ClockMod - 1
        /\ Removed(now') = IF Removed(now) + 1 < ClockMod THEN Removed(now) + 1 ELSE 0
        /\ Ready(now') = IF Ready(now) + 1 < ClockMod THEN Ready(now) + 1 ELSE 0
    BY <1>0, <1>1, <2>1, OneLater DEF SimAssumption
  <2>. HIDE DEF Removed, Ready
  <2>3. /\ sinceReady' = IF sinceReady = 2 * ClockMod THEN 2 * ClockMod
                         ELSE IF sinceReady + 1 = 2 * ClockMod THEN ClockMod ELSE sinceReady + 1
        /\ sinceRemoved' = IF sinceRemoved < HistoryCap THEN sinceRemoved + 1 ELSE HistoryCap
    BY <1>0, <1>1, <2>1 DEF Sim!Count, Sim!Aged, SimAssumption
  <2>4. Sim!TypeOK'
    <3>1. sinceReady' \in 0 .. 2 * ClockMod /\ sinceRemoved' \in 0 .. HistoryCap
      BY <1>0, <1>1, <2>3 DEF SimAssumption
    <3>2. gap' \in 0 .. MaxLoopGap
      BY <1>0, <1>1, <2>1 DEF SimAssumption
    <3>. QED  BY <1>0, <2>1, <2>2, <3>1, <3>2 DEF SimInv, Sim!TypeOK, Sim!Time
  <2>5. simState = "suspect_removed" =>
           Removed(now') < PairWindow + gap' /\ sinceRemoved' = Sim!Count(Removed(now'))
    BY <1>0, <1>1, <1>2, <1>3, <2>1, <2>2, <2>3 DEF Sim!Count, SimAssumption
  <2>6. simState = "removed" => sinceRemoved' >= PairWindow
    BY <1>0, <1>1, <1>2, <2>3 DEF SimAssumption
  <2>7. IF sinceReady' = 2 * ClockMod THEN cpinReadyCount = 0 ELSE Ready(now') = ReadyAge'
    <3>1. ReadyAge' = IF sinceReady' < ClockMod THEN sinceReady' ELSE sinceReady' - ClockMod
      BY DEF ReadyAge
    <3>2. CASE sinceReady = 2 * ClockMod
      BY <1>2, <2>3, <3>2
    <3>3. CASE sinceReady # 2 * ClockMod
      <4>1. Ready(now) = IF sinceReady < ClockMod THEN sinceReady ELSE sinceReady - ClockMod
        BY <1>2, <3>3 DEF ReadyAge
      <4>2. sinceReady \in 0 .. 2 * ClockMod - 1 /\ sinceReady' # 2 * ClockMod
        BY <1>0, <1>1, <2>3, <3>3 DEF SimAssumption
      <4>3. Ready(now') = ReadyAge'
        BY <1>0, <2>2, <2>3, <3>1, <4>1, <4>2 DEF SimAssumption
      <4>. QED  BY <4>2, <4>3
    <3>. QED  BY <3>2, <3>3
  <2>8. Sim!PairIsReady' /\ (contact' = "alone" => simState' \in {"suspect_removed", "removed"})
    BY <1>2, <2>1 DEF Sim!PairIsReady
  <2>9. /\ Sim!Since(now, lastReady)' = Ready(now') /\ Sim!Since(now, lastRemoved)' = Removed(now')
        /\ Sim!Never' = 2 * ClockMod
    BY <1>0, <2>1 DEF Sim!Since, Ready, Removed
  <2>. QED  BY <1>0, <2>1, <2>4, <2>5, <2>6, <2>7, <2>8, <2>9 DEF SimInv
<1>8. CASE UNCHANGED Sim!vars
  BY <1>8 DEF Sim!vars, SimInv, Sim!TypeOK, Sim!PairIsReady, Sim!Since, Sim!Time, ReadyAge
<1>. QED  BY <1>4, <1>5, <1>6, <1>7, <1>8 DEF Sim!Next

\* What the invariant says of the verdict.
LEMMA SimMeans == SimInv => Sim!TypeOK /\ Sim!VerdictInTime /\ Sim!PairIsReady
<1>. SUFFICES ASSUME SimInv PROVE Sim!VerdictInTime
  BY DEF SimInv
<1>1. (now - lastRemoved) % ClockMod \in 0 .. ClockMod - 1
  BY SimConstants, OneLater DEF SimAssumption, SimInv, Sim!TypeOK, Sim!Time
<1>. QED  BY <1>1, SimConstants DEF SimAssumption, SimInv, Sim!TypeOK, Sim!VerdictInTime,
             Sim!Since, Sim!Count

-----------------------------------------------------------------------------
(* WifiManager: the stamp of the last start. *)

WifiAssumption ==
  /\ ReconnectInterval \in Nat \ {0} /\ MaxLoopGap \in Nat \ {0} /\ MaxRequests \in Nat /\ HistoryCap \in Nat
  /\ ReconnectInterval <= HistoryCap
  /\ ClockMod \in Nat \ {0}

\* What WifiManager assumes of the constants.
LEMMA WifiConstants == WifiAssumption
  BY SmallPartsAssumption DEF WifiAssumption, Sim!ClockModAssumption, Wifi!WifiManagerAssumption

Cores == [has : BOOLEAN, requested : {FALSE}, last : 0 .. ClockMod - 1, status : Wifi!Statuses]

\* The stamp of the core is that of the last start or of something later.
WifiInv ==
  /\ Wifi!TypeOK
  /\ sinceStart = HistoryCap \/ Wifi!Since(now, core.last) <= sinceStart

\* A core that is asked to connect, and polled.
LEMMA PolledCore ==
  ASSUME NEW c \in [has : BOOLEAN, requested : BOOLEAN, last : 0 .. ClockMod - 1, status : Wifi!Statuses],
         c.has <=> c.status # "Unconfigured", now \in 0 .. ClockMod - 1, NEW connected \in BOOLEAN
  PROVE  LET p == Wifi!Polled(c, connected)
         IN  /\ [p EXCEPT !.requested = FALSE] \in Cores
             /\ p.has <=> p.status # "Unconfigured"
             /\ p.requested \in BOOLEAN
             /\ p.last \in {c.last, now}
             /\ p.requested => p.last = now \/ (c.requested /\ p.last = c.last)
             /\ ~c.has => ~p.requested
             /\ (p.requested /\ ~c.requested) => Wifi!Since(now, c.last) >= ReconnectInterval
  BY DEF Wifi!Polled, Wifi!Statuses, Cores

\* The core of a part that is not followed never connects.
LEMMA WifiIdleInit == Init /\ part # "wifi" => core.has = FALSE
  BY DEF Init, Wifi!Init

\* No start was asked for at the beginning.
LEMMA WifiInit == Init => WifiInv
<1>. SUFFICES ASSUME Init PROVE WifiInv
  OBVIOUS
<1>1. Wifi!Init /\ now = 0
  BY DEF Init
<1>2. 0 \in 0 .. ClockMod - 1 /\ 0 \in 0 .. MaxLoopGap /\ 0 \in 0 .. MaxRequests
      /\ 0 \in 0 .. HistoryCap /\ HistoryCap \in 0 .. HistoryCap /\ (0 - 0) % ClockMod = 0
  BY WifiConstants DEF WifiAssumption
<1>3. /\ core \in Cores /\ (core.has <=> core.status # "Unconfigured") /\ core.last = now
  BY <1>1, <1>2 DEF Wifi!Init, Cores, Wifi!Statuses
<1>4. sinceStart \in {0, HistoryCap}
  BY <1>1 DEF Wifi!Init
<1>5. Wifi!TypeOK
  BY <1>1, <1>2, <1>3, <1>4 DEF Wifi!Init, Wifi!TypeOK, Cores, Wifi!Time
<1>. QED  BY <1>1, <1>2, <1>3, <1>4, <1>5 DEF WifiInv, Wifi!Since

\* Every step keeps the stamp of the last start to the time that passed
\* (WifiManagerCore::poll).
LEMMA WifiStep == WifiInv /\ [Wifi!Next]_(Wifi!vars) => WifiInv'
<1>. SUFFICES ASSUME WifiInv, [Wifi!Next]_(Wifi!vars) PROVE WifiInv'
  OBVIOUS
<1>1. WifiAssumption
  BY WifiConstants
<1>2. /\ core \in Cores /\ (core.has <=> core.status # "Unconfigured")
      /\ reconnectRequested \in BOOLEAN /\ creds \in BOOLEAN /\ ap \in BOOLEAN
      /\ link \in {"off", "joining", "up"}
      /\ now \in 0 .. ClockMod - 1 /\ gap \in 0 .. MaxLoopGap /\ requests \in 0 .. MaxRequests
      /\ sinceStart \in 0 .. HistoryCap
  BY DEF WifiInv, Wifi!TypeOK, Wifi!Time, Cores
<1>3. sinceStart = HistoryCap \/ (now - core.last) % ClockMod <= sinceStart
  BY DEF WifiInv, Wifi!Since
<1>4. core.last \in 0 .. ClockMod - 1
  BY <1>2 DEF Cores
<1>5. (now - now) % ClockMod = 0
  BY <1>1, <1>2, OneLater DEF WifiAssumption
<1>6. CASE Wifi!Poll
  <2>. DEFINE takenDown == reconnectRequested /\ creds
              radio     == IF takenDown THEN "off" ELSE link
              wanted    == IF reconnectRequested THEN Wifi!RequestReconnect(core, creds) ELSE core
  <2>1. PICK connected \in {radio = "up"} \cup (IF takenDown /\ link = "up" THEN {TRUE} ELSE {}) :
          LET polled == Wifi!Polled(wanted, connected)
          IN  /\ core' = [polled EXCEPT !.requested = FALSE]
              /\ link' = IF polled.requested THEN "joining" ELSE radio
              /\ sinceStart' = IF polled.requested THEN 0 ELSE sinceStart
              /\ reconnectRequested' = FALSE
              /\ gap' = 0
              /\ UNCHANGED <<creds, ap, now, requests>>
    BY <1>6 DEF Wifi!Poll
  <2>. DEFINE polled == Wifi!Polled(wanted, connected)
  <2>2. connected \in BOOLEAN
    OBVIOUS
  <2>3. /\ wanted \in [has : BOOLEAN, requested : BOOLEAN, last : 0 .. ClockMod - 1, status : Wifi!Statuses]
        /\ wanted.has <=> wanted.status # "Unconfigured"
        /\ wanted.last \in {core.last, now}
        /\ wanted.requested => wanted.last = now
    BY <1>2 DEF Wifi!RequestReconnect, Cores, Wifi!Statuses
  <2>4. radio \in {"off", "joining", "up"}
    BY <1>2
  <2>. HIDE DEF wanted, radio
  <2>5. /\ [polled EXCEPT !.requested = FALSE] \in Cores
        /\ polled.has <=> polled.status # "Unconfigured"
        /\ polled.requested \in BOOLEAN
        /\ polled.last \in {wanted.last, now}
        /\ polled.requested => polled.last = now \/ (wanted.requested /\ polled.last = wanted.last)
    BY <1>2, <2>2, <2>3, PolledCore
  <2>6. /\ core' = [polled EXCEPT !.requested = FALSE]
        /\ link' = IF polled.requested THEN "joining" ELSE radio
        /\ sinceStart' = IF polled.requested THEN 0 ELSE sinceStart
        /\ reconnectRequested' = FALSE /\ gap' = 0
        /\ UNCHANGED <<creds, ap, now, requests>>
    BY <2>1
  <2>7. polled \in [has : BOOLEAN, requested : BOOLEAN, last : 0 .. ClockMod - 1, status : Wifi!Statuses]
    BY <1>2, <2>2, <2>3 DEF Wifi!Polled, Wifi!Statuses
  <2>. HIDE DEF polled
  <2>8. core' \in Cores /\ core'.has = polled.has /\ core'.status = polled.status /\ core'.last = polled.last
    BY <2>5, <2>6, <2>7
  <2>9. Wifi!TypeOK'
    <3>1. 0 \in 0 .. MaxLoopGap /\ 0 \in 0 .. HistoryCap
      BY <1>1 DEF WifiAssumption
    <3>. QED  BY <1>2, <2>4, <2>5, <2>6, <2>8, <3>1 DEF Wifi!TypeOK, Wifi!Time, Cores
  <2>10. CASE polled.requested
    BY <1>5, <2>3, <2>5, <2>6, <2>8, <2>9, <2>10 DEF WifiInv, Wifi!Since
  <2>11. CASE ~polled.requested
    <3>1. core'.last \in {core.last, now} /\ sinceStart' = sinceStart /\ now' = now
      BY <2>3, <2>5, <2>6, <2>8, <2>11
    <3>. QED  BY <1>2, <1>3, <1>5, <2>9, <3>1 DEF WifiInv, Wifi!Since
  <2>. QED  BY <2>10, <2>11
<1>7. CASE Wifi!UserReconnect
  <2>1. requests' \in 0 .. MaxRequests /\ reconnectRequested' = TRUE
        /\ UNCHANGED <<core, creds, link, ap, now, gap, sinceStart>>
    BY <1>1, <1>2, <1>7 DEF Wifi!UserReconnect, WifiAssumption
  <2>. QED  BY <2>1 DEF WifiInv, Wifi!TypeOK, Wifi!Since, Wifi!Time
<1>8. CASE Wifi!ConfigChanges
  <2>1. requests' \in 0 .. MaxRequests /\ creds' = ~creds
        /\ UNCHANGED <<core, reconnectRequested, link, ap, now, gap, sinceStart>>
    BY <1>1, <1>2, <1>8 DEF Wifi!ConfigChanges, WifiAssumption
  <2>2. creds' \in BOOLEAN
    BY <2>1
  <2>. QED  BY <2>1, <2>2 DEF WifiInv, Wifi!TypeOK, Wifi!Since, Wifi!Time
<1>9. CASE Wifi!Joined \/ Wifi!LinkLost
  <2>1. link' \in {"up", "off"} /\ UNCHANGED <<core, reconnectRequested, creds, ap, now, gap, requests, sinceStart>>
    BY <1>9 DEF Wifi!Joined, Wifi!LinkLost
  <2>. QED  BY <2>1 DEF WifiInv, Wifi!TypeOK, Wifi!Since, Wifi!Time
<1>10. CASE Wifi!AccessPoint
  <2>1. ap' \in BOOLEAN /\ UNCHANGED <<core, reconnectRequested, creds, link, now, gap, requests, sinceStart>>
    BY <1>10 DEF Wifi!AccessPoint
  <2>. QED  BY <2>1 DEF WifiInv, Wifi!TypeOK, Wifi!Since, Wifi!Time
<1>11. CASE Wifi!Tick
  <2>1. /\ gap' = gap + 1 /\ gap < MaxLoopGap /\ now' = (now + 1) % ClockMod
        /\ sinceStart' = IF sinceStart < HistoryCap THEN sinceStart + 1 ELSE sinceStart
        /\ UNCHANGED <<core, reconnectRequested, creds, link, ap, requests>>
    BY <1>11 DEF Wifi!Tick, Wifi!Plus
  <2>2. /\ now' \in 0 .. ClockMod - 1 /\ (now - core.last) % ClockMod \in 0 .. ClockMod - 1
        /\ (now' - core.last) % ClockMod = IF ((now - core.last) % ClockMod) + 1 < ClockMod
                                           THEN ((now - core.last) % ClockMod) + 1 ELSE 0
    BY <1>1, <1>2, <1>4, <2>1, OneLater DEF WifiAssumption
  <2>3. gap' \in 0 .. MaxLoopGap /\ sinceStart' \in 0 .. HistoryCap
    BY <1>1, <1>2, <2>1 DEF WifiAssumption
  <2>4. Wifi!TypeOK'
    BY <1>2, <2>1, <2>2, <2>3 DEF Wifi!TypeOK, Wifi!Time, Cores
  <2>. DEFINE s == (now - core.last) % ClockMod
              t == (now' - core.last) % ClockMod
  <2>5. /\ t = IF s + 1 < ClockMod THEN s + 1 ELSE 0
        /\ s \in 0 .. ClockMod - 1
        /\ sinceStart = HistoryCap \/ s <= sinceStart
    BY <1>3, <2>2
  <2>6. core' = core
    BY <2>1
  <2>7. t = (now' - core'.last) % ClockMod
    BY <2>6
  <2>. HIDE DEF s, t
  <2>8. sinceStart' = HistoryCap \/ t <= sinceStart'
    BY <1>1, <1>2, <2>1, <2>5 DEF WifiAssumption
  <2>. QED  BY <2>4, <2>7, <2>8 DEF WifiInv, Wifi!Since
<1>12. CASE UNCHANGED Wifi!vars
  BY <1>12 DEF Wifi!vars, WifiInv, Wifi!TypeOK, Wifi!Since, Wifi!Time
<1>. QED  BY <1>6, <1>7, <1>8, <1>9, <1>10, <1>11, <1>12 DEF Wifi!Next

\* A start that the user did not ask for.
StartsInTime ==
  Wifi!Poll /\ ~reconnectRequested /\ Wifi!Polled(core, link = "up").requested
    => sinceStart >= ReconnectInterval

WifiOrIdle ==
  /\ part = "wifi" => WifiInv
  /\ part # "wifi" => core \in Cores /\ ~core.has

\* The Wi-Fi manager begins idle.
LEMMA WifiOrIdleInit == Init => WifiOrIdle
<1>. SUFFICES ASSUME Init, part # "wifi" PROVE core \in Cores /\ ~core.has
  BY WifiInit DEF WifiOrIdle
<1>1. WifiInv
  BY WifiInit
<1>. QED  BY <1>1, WifiIdleInit DEF WifiInv, Wifi!TypeOK, Cores, Wifi!Time

\* It is idle as long as another part is followed.
LEMMA WifiOrIdleStep == WifiOrIdle /\ [Next]_vars => WifiOrIdle'
<1>1. CASE part = "wifi"
  BY <1>1, PartStays, WifiSteps, WifiStep DEF WifiOrIdle
<1>2. ASSUME part # "wifi", [Next]_vars PROVE core' = core
  BY <1>2 DEF Next, vars, wifiVars, SimOnly, WifiOnly, ConfigOnly, LogOnly, StatusOnly,
     DataOnly, ConsoleOnly, JsonOnly
<1>. QED  BY <1>1, <1>2, PartStays DEF WifiOrIdle

\* WifiManagerCore::poll() asks for a start by itself only when the interval is
\* over.
LEMMA WifiStarts == WifiOrIdle => StartsInTime
<1>. SUFFICES ASSUME WifiOrIdle, ~reconnectRequested, Wifi!Polled(core, link = "up").requested
              PROVE  sinceStart >= ReconnectInterval
  BY DEF StartsInTime
<1>1. part = "wifi"
  <2>. SUFFICES ASSUME core \in Cores, ~core.has PROVE ~Wifi!Polled(core, link = "up").requested
    BY DEF WifiOrIdle
  <2>. QED  BY DEF Wifi!Polled, Cores
<1>2. WifiInv /\ core \in Cores /\ now \in 0 .. ClockMod - 1 /\ sinceStart \in 0 .. HistoryCap
  BY <1>1 DEF WifiOrIdle, WifiInv, Wifi!TypeOK, Wifi!Time, Cores
<1>3. /\ core \in [has : BOOLEAN, requested : BOOLEAN, last : 0 .. ClockMod - 1, status : Wifi!Statuses]
      /\ ~core.requested /\ core.last \in 0 .. ClockMod - 1
      /\ core.has <=> core.status # "Unconfigured"
  BY <1>2 DEF Cores, WifiInv, Wifi!TypeOK
<1>4. (link = "up") \in BOOLEAN
  OBVIOUS
<1>5. Wifi!Since(now, core.last) >= ReconnectInterval
  BY <1>2, <1>3, <1>4, PolledCore
<1>6. Wifi!Since(now, core.last) \in Nat
  BY <1>2, <1>3, WifiConstants, OneLater DEF WifiAssumption, Wifi!Since
<1>. QED  BY <1>2, <1>5, <1>6, WifiConstants DEF WifiInv, WifiAssumption

-----------------------------------------------------------------------------
(* Reading a request. *)

\* The first of some places is one of them, and none is before it.
LEMMA FirstPlace ==
  ASSUME NEW S \in SUBSET Nat, S # {}
  PROVE  Config!Min(S) \in S /\ \A i \in S : Config!Min(S) <= i
<1>. DEFINE R == OpToRel(<, Nat)
<1>1. PICK x \in S : \A y \in S : ~ (<<y, x>> \in R)
  <2>1. IsWellFoundedOn(R, Nat)
    BY NatLessThanWellFounded
  <2>. HIDE DEF R
  <2>. QED  BY <2>1, WFMin
<1>2. \A y \in S : x <= y
  <2>. SUFFICES ASSUME NEW y \in S PROVE x <= y
    OBVIOUS
  <2>1. x \in Nat /\ y \in Nat
    OBVIOUS
  <2>2. ~ (<<y, x>> \in R)
    BY <1>1
  <2>3. ~(y < x)
    BY <2>1, <2>2 DEF OpToRel
  <2>. HIDE DEF R
  <2>. QED  BY <2>1, <2>3
<1>. QED  BY <1>2 DEF Config!Min

\* What Extract looks through.
Scanned(request) == Append(Config!Texts(request), Config!NotText)

\* A place followed by a colon holds the key of a member, and the next one its value.
LEMMA KeyPlace ==
  ASSUME Config!WebConfigAssumption, NEW r \in Requests, NEW k \in Config!Keys,
         NEW i \in DOMAIN Scanned(r), Scanned(r)[i] = Fields[k], Config!ColonFollows(i)
  PROVE  \E j \in DOMAIN r.members : /\ i = 2 * j - 1
                                     /\ r.members[j][1] = Fields[k]
                                     /\ Scanned(r)[i + 1] = r.members[j][2]
<1>1. r.members \in Seq(STRING \X (Values \cup {Config!TooLong, Config!NotText}))
  BY DEF Config!WebConfigAssumption
<1>. DEFINE n == Len(r.members)
<1>2. n \in Nat /\ DOMAIN r.members = 1 .. n
  BY <1>1
<1>3. DOMAIN Scanned(r) = 1 .. 2 * n + 1
  BY <1>2 DEF Scanned, Config!Texts
<1>4. Scanned(r)[2 * n + 1] = Config!NotText
  BY <1>2 DEF Scanned, Config!Texts
<1>5. Fields[k] # Config!NotText
  <2>1. Fields[k] \in Config!ToSet(Fields)
    BY DEF Config!WebConfigAssumption, Config!ToSet, Config!Keys
  <2>. QED  BY <2>1 DEF Config!WebConfigAssumption
<1>6. i \in 1 .. 2 * n /\ i % 2 = 1
  BY <1>2, <1>3, <1>4, <1>5 DEF Config!ColonFollows
<1>. DEFINE j == (i + 1) \div 2
<1>7. j \in 1 .. n /\ i = 2 * j - 1
  <2>. HIDE DEF n
  <2>1. i \in Nat /\ 1 <= i /\ i <= 2 * n /\ i % 2 = 1 /\ n \in Nat
    BY <1>2, <1>6
  <2>2. j \in Int /\ i = 2 * j - 1
    BY <2>1
  <2>. QED  BY <2>1, <2>2
<1>8. \A p \in 1 .. 2 * n : Scanned(r)[p] = r.members[(p + 1) \div 2][IF p % 2 = 1 THEN 1 ELSE 2]
  BY <1>2 DEF Scanned, Config!Texts
<1>9. Scanned(r)[i] = r.members[j][1]
  BY <1>6, <1>8
<1>10. i + 1 \in 1 .. 2 * n /\ (i + 1) % 2 = 0 /\ (i + 1 + 1) \div 2 = j
  BY <1>2, <1>7
<1>11. Scanned(r)[i + 1] = r.members[j][2]
  BY <1>8, <1>10
<1>. QED  BY <1>2, <1>7, <1>9, <1>11

\* A field that is found is that of the only member with its key, and one that
\* is absent is no key of the request.
LEMMA ExtractMeans ==
  ASSUME Config!WebConfigAssumption, NEW r \in Requests, NEW k \in Config!Keys,
         Config!Extract(r, Fields[k])[1] \notin {"InvalidJson", "ValueTooLong"}
  PROVE  LET given == {m \in Config!ToSet(r.members) : m[1] = Fields[k]}
         IN  \/ Config!Extract(r, Fields[k]) = <<"Absent", Empty>> /\ given = {}
             \/ \E m \in given : /\ given = {m} /\ m[2] \in Values
                                 /\ Config!Extract(r, Fields[k]) = <<"Found", m[2]>>
<1>. DEFINE given == {m \in Config!ToSet(r.members) : m[1] = Fields[k]}
            at == {i \in DOMAIN Scanned(r) : Scanned(r)[i] = Fields[k]}
            value == Scanned(r)[Config!Min(at) + 1]
<1>1. r.members \in Seq(STRING \X (Values \cup {Config!TooLong, Config!NotText}))
  BY DEF Config!WebConfigAssumption
<1>2. DOMAIN r.members = 1 .. Len(r.members) /\ Len(r.members) \in Nat
  BY <1>1
<1>3. Config!Extract(r, Fields[k]) =
        IF at = {} THEN <<"Absent", Empty>>
        ELSE IF ~Config!ColonFollows(Config!Min(at)) \/ value = Config!NotText THEN <<"InvalidJson", Empty>>
        ELSE IF value = Config!TooLong THEN <<"ValueTooLong", Empty>>
        ELSE <<"Found", value>>
  BY DEF Config!Extract, Scanned
<1>4. CASE at = {}
  <2>1. SUFFICES ASSUME NEW j \in DOMAIN r.members, r.members[j][1] = Fields[k] PROVE FALSE
    BY <1>3, <1>4 DEF Config!ToSet
  <2>2. 2 * j - 1 \in DOMAIN Scanned(r)
    BY <1>2 DEF Scanned, Config!Texts
  <2>3. Scanned(r)[2 * j - 1] = r.members[j][1]
    <3>1. 2 * j - 1 \in 1 .. 2 * Len(r.members)
      BY <1>2
    <3>2. (2 * j - 1) % 2 = 1 /\ (2 * j - 1 + 1) \div 2 = j
      BY <1>2
    <3>3. \A p \in 1 .. 2 * Len(r.members) :
            Scanned(r)[p] = r.members[(p + 1) \div 2][IF p % 2 = 1 THEN 1 ELSE 2]
      BY <1>2 DEF Scanned, Config!Texts
    <3>. QED  BY <3>1, <3>2, <3>3
  <2>. QED  BY <1>4, <2>1, <2>2, <2>3
<1>5. CASE at # {}
  <2>1. at \in SUBSET Nat
    BY <1>2 DEF Scanned, Config!Texts
  <2>2. Config!Min(at) \in at
    BY <1>5, <2>1, FirstPlace
  <2>3. Config!ColonFollows(Config!Min(at)) /\ value \notin {Config!NotText, Config!TooLong} /\ Config!Extract(r, Fields[k]) = <<"Found", value>>
    BY <1>3, <1>5
  <2>4. PICK j \in DOMAIN r.members : r.members[j][1] = Fields[k] /\ value = r.members[j][2]
    BY <2>2, <2>3, KeyPlace
  <2>5. given = {r.members[j]}
    BY <2>4 DEF Config!WebConfigAssumption, Config!ToSet
  <2>6. r.members[j] \in STRING \X (Values \cup {Config!TooLong, Config!NotText})
    BY <1>1, <2>4
  <2>7. value \in Values
    BY <2>3, <2>4, <2>6
  <2>. QED  BY <2>3, <2>4, <2>5, <2>7
<1>. QED  BY <1>4, <1>5

\* A sanitised configuration is left as it is.
LEMMA SanitizeTwice ==
  ASSUME Config!WebConfigAssumption, NEW c \in Config!Configs
  PROVE  /\ Config!Sanitize(c) \in Config!Configs
         /\ Config!Sanitize(Config!Sanitize(c)) = Config!Sanitize(c)
<1>1. Config!Sanitize(c) \in Config!Configs
  BY DEF Config!Sanitize, Config!Configs, Config!WebConfigAssumption
<1>2. Empty \notin BadHostnames
  BY DEF Config!WebConfigAssumption
<1>. QED  BY <1>1, <1>2 DEF Config!Sanitize, Config!Configs, Config!IsValidHostname

\* A request that is taken gives each field it names its value and leaves the
\* others, and what comes out needs no sanitising.
LEMMA ParseMeans ==
  ASSUME Config!WebConfigAssumption, NEW r \in Requests, NEW c \in Config!Configs,
         Config!ParseConfigSave(r, c).result = "Ok"
  PROVE  LET new == Config!Sanitize(Config!ParseConfigSave(r, c).config)
         IN  /\ new \in Config!Configs /\ Config!Sanitize(new) = new
             /\ \A k \in Config!Keys :
                  LET given == {m \in Config!ToSet(r.members) : m[1] = Fields[k]}
                  IN  new[k] = IF given = {} THEN c[k] ELSE (CHOOSE m \in given : TRUE)[2]
<1>. DEFINE wrong == {k \in Config!Keys : Config!ReadField(r, c, k)[1] # "Ok"}
            read == [k \in Config!Keys |-> Config!ReadField(r, c, k)[2]]
<1>1. wrong = {}
  <2>1. SUFFICES ASSUME wrong # {} PROVE FALSE
    OBVIOUS
  <2>2. Len(Fields) \in Nat
    BY DEF Config!WebConfigAssumption
  <2>3. Config!Min(wrong) \in wrong
    BY <2>1, <2>2, FirstPlace DEF Config!Keys
  <2>. QED  BY <2>1, <2>3 DEF Config!ParseConfigSave
<1>2. Config!ParseConfigSave(r, c).config = Config!Sanitize(read)
  BY <1>1 DEF Config!ParseConfigSave
<1>3. \A k \in Config!Keys :
        LET given == {m \in Config!ToSet(r.members) : m[1] = Fields[k]}
        IN  /\ read[k] \in Values
            /\ Fields[k] = "hostname" => Config!IsValidHostname(read[k])
            /\ read[k] = IF given = {} THEN c[k] ELSE (CHOOSE m \in given : TRUE)[2]
  <2>. SUFFICES ASSUME NEW k \in Config!Keys
                PROVE  LET given == {m \in Config!ToSet(r.members) : m[1] = Fields[k]}
                       IN  /\ read[k] \in Values
                           /\ Fields[k] = "hostname" => Config!IsValidHostname(read[k])
                           /\ read[k] = IF given = {} THEN c[k] ELSE (CHOOSE m \in given : TRUE)[2]
    OBVIOUS
  <2>. DEFINE field == Config!Extract(r, Fields[k])
              value == IF field[1] = "Found" THEN field[2] ELSE c[k]
              given == {m \in Config!ToSet(r.members) : m[1] = Fields[k]}
  <2>1. Config!ReadField(r, c, k)[1] = "Ok"
    BY <1>1
  <2>2. Config!ReadField(r, c, k) =
          IF field[1] \in {"InvalidJson", "ValueTooLong"} THEN field
          ELSE IF Fields[k] = "hostname" /\ ~Config!IsValidHostname(value) THEN <<"InvalidHostname", value>>
          ELSE <<"Ok", value>>
    BY DEF Config!ReadField
  <2>. HIDE DEF field
  <2>3. /\ field[1] \notin {"InvalidJson", "ValueTooLong"}
        /\ Fields[k] = "hostname" => Config!IsValidHostname(value)
        /\ read[k] = value
    BY <2>1, <2>2
  <2>4. \/ field = <<"Absent", Empty>> /\ given = {}
        \/ \E m \in given : given = {m} /\ m[2] \in Values /\ field = <<"Found", m[2]>>
    BY <2>3, ExtractMeans DEF field
  <2>5. c[k] \in Values
    BY DEF Config!Configs
  <2>. QED  BY <2>3, <2>4, <2>5
<1>4. read \in Config!Configs
  BY <1>3 DEF Config!Configs
<1>5. Config!Sanitize(read) = read
  BY <1>3, <1>4 DEF Config!Sanitize, Config!Configs
<1>. QED  BY <1>2, <1>3, <1>4, <1>5

-----------------------------------------------------------------------------
(* The save. *)

\* What is in flash after some keys, if no write has failed: the new values, but
\* for those that could not be removed; and `saved` only at the end.
KeysWritten ==
  /\ clean = Config!Sanitize(clean)
  /\ ok => \A k \in Config!Keys : k < step => nvs[k] = clean[k] \/ (k \in kept /\ clean[k] = Empty)
  /\ ok /\ step > Config!LastStep => nvsSaved
  /\ ~wasSaved => before = Fallback /\ (step <= Config!LastStep => ~nvsSaved)

ConfigInv ==
  /\ Config!TypeOK
  /\ Config!Saving => KeysWritten
  /\ Config!RequestsMeanWhatTheySay
  /\ Config!SavedIsWhatRestartLoads

\* Flash is empty and nothing is being saved at the start.
LEMMA ConfigInitial == ASSUME Config!ConfigStoreAssumption, Config!Init PROVE ConfigInv
<1>1. Len(Fields) \in Nat /\ Fallback \in Config!Configs /\ Empty \in Values
  BY DEF Config!ConfigStoreAssumption, Config!WebConfigAssumption
<1>2. ~Config!Saving /\ ~hasSavedConfig /\ nvs \in Config!Configs
  BY <1>1 DEF Config!Init, Config!Saving, Config!Configs
<1>3. Config!TypeOK
  <2>1. {nvs, currentConfig, clean, before} \subseteq Config!Configs
    BY <1>1, <1>2 DEF Config!Init
  <2>2. {nvsSaved, hasSavedConfig, preferencesOpen, ok, wasSaved, failed} \subseteq BOOLEAN
    BY DEF Config!Init
  <2>3. step \in 0 .. Config!LastStep + 1 /\ kept = {}
    BY <1>1 DEF Config!Init, Config!LastStep
  <2>. QED  BY <1>2, <2>1, <2>2, <2>3 DEF Config!TypeOK
<1>. QED  BY <1>2, <1>3 DEF ConfigInv, Config!RequestsMeanWhatTheySay,
             Config!SavedIsWhatRestartLoads

\* A restart loads a configuration.
LEMMA RestartType == ASSUME Config!ConfigStoreAssumption, Config!TypeOK PROVE Config!RestartConfig \in Config!Configs
  BY SanitizeTwice DEF Config!ConfigStoreAssumption, Config!TypeOK, Config!RestartConfig

\* configStoreBegin() keeps the invariant,
LEMMA ConfigBoot ==
  ASSUME Config!ConfigStoreAssumption, ConfigInv, NEW opened \in BOOLEAN, Config!Boot(opened)
  PROVE  ConfigInv'
<1>1. ~Config!Saving' /\ Config!RestartConfig' = Config!RestartConfig
  BY DEF Config!Boot, Config!Saving, Config!RestartConfig
<1>2. Config!TypeOK'
  <2>1. Len(Fields) \in Nat /\ Fallback \in Config!Configs
    BY DEF Config!ConfigStoreAssumption, Config!WebConfigAssumption
  <2>2. Config!TypeOK /\ Config!RestartConfig \in Config!Configs
    BY RestartType DEF ConfigInv
  <2>3. {nvs', currentConfig', clean', before'} \subseteq Config!Configs
    BY <2>1, <2>2 DEF Config!Boot, Config!TypeOK
  <2>4. {nvsSaved', preferencesOpen', ok', wasSaved', failed'} \subseteq BOOLEAN
    BY <2>2 DEF Config!Boot, Config!TypeOK
  <2>5. hasSavedConfig' \in BOOLEAN
    BY DEF Config!Boot
  <2>6. step' \in 0 .. Config!LastStep + 1 /\ kept' = {}
    BY <2>1 DEF Config!Boot, Config!LastStep
  <2>. QED  BY <1>1, <2>3, <2>4, <2>5, <2>6 DEF Config!TypeOK
<1>3. Config!SavedIsWhatRestartLoads'
  BY <1>1 DEF Config!Boot, Config!SavedIsWhatRestartLoads
<1>. QED  BY <1>1, <1>2, <1>3 DEF ConfigInv, Config!RequestsMeanWhatTheySay

\* as do the start of a save, after a request that is taken,
LEMMA ConfigSaveBegin ==
  ASSUME Config!ConfigStoreAssumption, ConfigInv, NEW r \in Requests, NEW put \in BOOLEAN, Config!SaveBegin(r, put)
  PROVE  ConfigInv'
<1>1. Config!WebConfigAssumption /\ currentConfig \in Config!Configs
  BY DEF Config!ConfigStoreAssumption, ConfigInv, Config!TypeOK
<1>2. /\ clean' \in Config!Configs /\ Config!Sanitize(clean') = clean'
      /\ \A k \in Config!Keys :
           LET given == {m \in Config!ToSet(asked') : m[1] = Fields[k]}
           IN  clean'[k] = IF given = {} THEN currentConfig'[k] ELSE (CHOOSE m \in given : TRUE)[2]
  BY <1>1, ParseMeans DEF Config!SaveBegin
<1>3. Len(Fields) \in Nat
  BY <1>1 DEF Config!WebConfigAssumption
<1>4. Config!TypeOK'
  <2>1. Config!RestartConfig \in Config!Configs /\ Config!TypeOK
    BY RestartType DEF ConfigInv
  <2>2. /\ UNCHANGED <<nvs, nvsSaved, currentConfig, hasSavedConfig, failed>>
        /\ before' = Config!RestartConfig /\ wasSaved' = nvsSaved /\ ok' = put
        /\ kept' = {} /\ step' = 1 /\ preferencesOpen' = TRUE
    BY DEF Config!SaveBegin, Config!Opened
  <2>3. {nvs', currentConfig', clean', before'} \subseteq Config!Configs
    BY <1>2, <2>1, <2>2 DEF Config!TypeOK
  <2>4. {nvsSaved', hasSavedConfig', preferencesOpen', ok', wasSaved', failed'} \subseteq BOOLEAN
    BY <2>1, <2>2 DEF Config!TypeOK
  <2>. QED  BY <1>3, <2>2, <2>3, <2>4 DEF Config!TypeOK, Config!LastStep
<1>5. Config!RequestsMeanWhatTheySay'
  BY <1>2 DEF Config!RequestsMeanWhatTheySay
<1>6. Config!SavedIsWhatRestartLoads'
  BY DEF Config!SavedIsWhatRestartLoads, Config!SaveBegin, Config!Saving
<1>7. KeysWritten'
  BY <1>2, <1>3 DEF KeysWritten, Config!SaveBegin, Config!LastStep, Config!Keys,
     Config!RestartConfig
<1>. QED  BY <1>4, <1>5, <1>6, <1>7 DEF ConfigInv

\* every key that is written or removed,
LEMMA ConfigSaveKey ==
  ASSUME Config!ConfigStoreAssumption, ConfigInv, NEW put \in BOOLEAN, Config!SaveKey(put)
  PROVE  ConfigInv'
<1>1. Len(Fields) \in Nat
  BY DEF Config!ConfigStoreAssumption, Config!WebConfigAssumption
<1>2. Config!Saving /\ step \in 1 .. Config!LastStep /\ step' = step + 1 /\ Config!Saving'
  BY <1>1 DEF ConfigInv, Config!TypeOK, Config!SaveKey, Config!Saving, Config!LastStep
<1>3. Config!TypeOK /\ KeysWritten
  BY <1>2 DEF ConfigInv
<1>4. UNCHANGED <<currentConfig, hasSavedConfig, preferencesOpen, clean, asked, before, wasSaved, failed>>
  BY DEF Config!SaveKey
<1>5. Config!RequestsMeanWhatTheySay'
  BY <1>2, <1>4 DEF ConfigInv, Config!RequestsMeanWhatTheySay
<1>6. Config!SavedIsWhatRestartLoads'
  BY <1>2 DEF Config!SavedIsWhatRestartLoads
<1>7. CASE step = Config!LastStep
  <2>1. /\ nvsSaved' = (put \/ nvsSaved) /\ ok' = (put /\ ok) /\ UNCHANGED <<nvs, kept>>
    BY <1>7 DEF Config!SaveKey, Config!KeyOf
  <2>2. Config!TypeOK'
    BY <1>1, <1>2, <1>3, <1>4, <1>7, <2>1 DEF Config!TypeOK, Config!LastStep
  <2>3. ok' => ok /\ nvsSaved'
    BY <1>3, <2>1 DEF Config!TypeOK
  <2>4. \A k \in Config!Keys : k < step
    BY <1>1, <1>7 DEF Config!LastStep, Config!Keys
  <2>5. ok' => \A k \in Config!Keys : nvs'[k] = clean'[k] \/ (k \in kept' /\ clean'[k] = Empty)
    BY <1>3, <1>4, <2>1, <2>3, <2>4 DEF KeysWritten
  <2>6. ~(step' <= Config!LastStep)
    BY <1>1, <1>2, <1>7 DEF Config!LastStep
  <2>7. clean' = Config!Sanitize(clean') /\ (~wasSaved' => before' = Fallback)
    BY <1>3, <1>4 DEF KeysWritten
  <2>8. KeysWritten'
    BY <2>3, <2>5, <2>6, <2>7 DEF KeysWritten, Config!LastStep
  <2>. QED  BY <1>5, <1>6, <2>2, <2>8 DEF ConfigInv
<1>8. CASE step # Config!LastStep
  <2>1. step \in Config!Keys
    BY <1>1, <1>2, <1>8 DEF Config!LastStep, Config!Keys
  <2>2. Config!WriteString(step, put) /\ UNCHANGED nvsSaved
    BY <1>1, <1>2, <1>8, <2>1 DEF Config!SaveKey, Config!KeyOf, Config!Keys
  <2>3. nvs \in Config!Configs /\ clean \in Config!Configs /\ kept \subseteq Config!Keys /\ ok \in BOOLEAN
    BY <1>3 DEF Config!TypeOK
  <2>4. nvs' \in Config!Configs /\ kept' \subseteq Config!Keys /\ ok' \in BOOLEAN /\ kept \subseteq kept'
    BY <2>1, <2>2, <2>3 DEF Config!WriteString, Config!Configs
  <2>5. Config!TypeOK'
    BY <1>1, <1>2, <1>3, <1>4, <1>8, <2>2, <2>4 DEF Config!TypeOK, Config!LastStep
  <2>6. ok' => ok /\ (nvs'[step] = clean[step] \/ (step \in kept' /\ clean[step] = Empty))
    BY <2>1, <2>2, <2>3 DEF Config!WriteString, Config!Configs
  <2>7. \A k \in Config!Keys : k # step => nvs'[k] = nvs[k]
    BY <2>1, <2>2, <2>3 DEF Config!WriteString, Config!Configs
  <2>8. ok' => \A k \in Config!Keys : k < step' => nvs'[k] = clean'[k] \/ (k \in kept' /\ clean'[k] = Empty)
    <3>. SUFFICES ASSUME ok', NEW k \in Config!Keys, k < step + 1
                  PROVE  nvs'[k] = clean[k] \/ (k \in kept' /\ clean[k] = Empty)
      BY <1>2, <1>4
    <3>1. CASE k = step
      BY <2>6, <3>1
    <3>2. CASE k # step
      <4>1. k < step
        BY <1>1, <1>2, <3>2 DEF Config!Keys
      <4>. QED  BY <1>3, <2>4, <2>6, <2>7, <3>2, <4>1 DEF KeysWritten
    <3>. QED  BY <3>1, <3>2
  <2>9. KeysWritten'
    BY <1>1, <1>2, <1>3, <1>4, <1>8, <2>2, <2>8 DEF KeysWritten, Config!LastStep
  <2>. QED  BY <1>5, <1>6, <2>5, <2>9 DEF ConfigInv
<1>. QED  BY <1>7, <1>8

\* the end of a save
LEMMA ConfigSaveEnd ==
  ASSUME Config!ConfigStoreAssumption, ConfigInv, Config!SaveEnd
  PROVE  ConfigInv'
<1>1. Len(Fields) \in Nat
  BY DEF Config!ConfigStoreAssumption, Config!WebConfigAssumption
<1>2. step = Config!LastStep + 1 /\ Config!Saving /\ ~Config!Saving'
  BY <1>1 DEF ConfigInv, Config!TypeOK, Config!SaveEnd, Config!LastStep, Config!Saving
<1>3. Config!TypeOK /\ KeysWritten
  BY <1>2 DEF ConfigInv
<1>4. Config!TypeOK'
  BY <1>1, <1>2, <1>3 DEF Config!SaveEnd, Config!TypeOK, Config!LastStep
<1>5. Config!SavedIsWhatRestartLoads'
  <2>. SUFFICES ASSUME ok
                PROVE  /\ nvsSaved'
                       /\ \A k \in Config!Keys : Config!RestartConfig'[k] # currentConfig'[k] =>
                            k \in kept' /\ currentConfig'[k] = Empty
    BY DEF Config!SaveEnd, Config!SavedIsWhatRestartLoads
  <2>1. currentConfig' = clean /\ UNCHANGED <<nvs, nvsSaved, kept>>
    BY DEF Config!SaveEnd
  <2>2. nvsSaved /\ Config!RestartConfig' = Config!Sanitize(nvs)
    BY <1>1, <1>2, <1>3, <2>1 DEF KeysWritten, Config!LastStep, Config!RestartConfig
  <2>3. \A k \in Config!Keys : nvs[k] = clean[k] \/ (k \in kept /\ clean[k] = Empty)
    BY <1>1, <1>2, <1>3 DEF KeysWritten, Config!LastStep, Config!Keys
  <2>4. \A k \in Config!Keys : nvs[k] = clean[k] => Config!Sanitize(nvs)[k] = clean[k]
    BY <1>3 DEF KeysWritten, Config!Sanitize
  <2>. QED  BY <2>1, <2>2, <2>3, <2>4
<1>6. Config!RequestsMeanWhatTheySay'
  BY <1>2 DEF Config!RequestsMeanWhatTheySay
<1>. QED  BY <1>2, <1>4, <1>5, <1>6 DEF ConfigInv

\* and configStoreReset().
LEMMA ConfigReset ==
  ASSUME Config!ConfigStoreAssumption, ConfigInv, NEW cleared \in BOOLEAN, Config!Reset(cleared)
  PROVE  ConfigInv'
<1>1. Config!TypeOK'
  <2>1. Config!TypeOK
    BY DEF ConfigInv
  <2>2. [k \in Config!Keys |-> Empty] \in Config!Configs
    BY DEF Config!ConfigStoreAssumption, Config!WebConfigAssumption, Config!Configs
  <2>3. nvs' \in Config!Configs /\ currentConfig' \in Config!Configs
    BY <2>1, <2>2 DEF Config!Reset, Config!TypeOK
  <2>4. nvsSaved' \in BOOLEAN /\ hasSavedConfig' = FALSE /\ failed' = FALSE /\ preferencesOpen' = TRUE
    BY <2>1 DEF Config!Reset, Config!Opened, Config!TypeOK
  <2>5. UNCHANGED <<step, ok, clean, before, wasSaved, kept>>
    BY DEF Config!Reset
  <2>. QED  BY <2>1, <2>3, <2>4, <2>5 DEF Config!TypeOK, Config!LastStep
<1>. QED  BY <1>1 DEF Config!Reset, ConfigInv, Config!Saving, Config!RequestsMeanWhatTheySay,
             Config!SavedIsWhatRestartLoads

\* So does a step of another part.
LEMMA ConfigStutter == ASSUME ConfigInv, UNCHANGED Config!vars PROVE ConfigInv'
  BY DEF ConfigInv, Config!vars, Config!TypeOK, Config!Saving, KeysWritten, Config!LastStep,
     Config!RequestsMeanWhatTheySay,
         Config!SavedIsWhatRestartLoads, Config!RestartConfig

\* Every step keeps the invariant.
LEMMA ConfigStep ==
  Config!ConfigStoreAssumption /\ ConfigInv /\ [Config!Next]_(Config!vars) => ConfigInv'
  BY ConfigBoot, ConfigSaveBegin, ConfigSaveKey, ConfigSaveEnd, ConfigReset,
     ConfigStutter DEF Config!Next

\* After any number of keys of a first save, flash has all of the old
\* configuration or all of the new one.
LEMMA FirstSaveIsWhole ==
  ASSUME Config!ConfigStoreAssumption, ConfigInv
  PROVE  Config!FirstSaveIsAtomic
<1>. SUFFICES ASSUME Config!Saving, ~wasSaved, ok, kept = {} PROVE Config!RestartConfig \in {before, clean}
  BY DEF Config!FirstSaveIsAtomic
<1>1. Len(Fields) \in Nat /\ Config!TypeOK /\ KeysWritten
  BY DEF Config!ConfigStoreAssumption, Config!WebConfigAssumption, ConfigInv
<1>2. CASE step <= Config!LastStep
  BY <1>1, <1>2 DEF KeysWritten, Config!RestartConfig
<1>3. CASE ~(step <= Config!LastStep)
  <2>1. step = Config!LastStep + 1
    BY <1>1, <1>3 DEF Config!TypeOK, Config!LastStep
  <2>2. \A k \in Config!Keys : nvs[k] = clean[k]
    BY <1>1, <2>1 DEF KeysWritten, Config!LastStep, Config!Keys
  <2>3. nvs = clean
    BY <1>1, <2>2 DEF Config!TypeOK, Config!Configs
  <2>. QED  BY <1>1, <2>3 DEF KeysWritten, Config!RestartConfig
<1>. QED  BY <1>2, <1>3

-----------------------------------------------------------------------------
(* LoggerCore: the ring. *)

LogEntry == [sequence : Nat, message : Messages \cup {""}]

\* A position that went round at most once.
LEMMA RoundOnce ==
  ASSUME Log!LoggerCoreAssumption, NEW p \in 0 .. Capacity - 1, NEW d \in 0 .. Capacity
  PROVE  (p + d) % Capacity = IF p + d < Capacity THEN p + d ELSE p + d - Capacity
  BY DEF Log!LoggerCoreAssumption

\* The last n elements of a sequence are a suffix of it.
LEMMA TailIsSuffix ==
  ASSUME NEW S, NEW t \in Seq(S), NEW n \in 0 .. Len(t), NEW s \in Seq(S), Len(s) = n,
         \A i \in 1 .. n : s[i] = t[Len(t) - n + i]
  PROVE  Log!IsSuffix(s, t)
<1>. DEFINE rs == Log!Reverse(s)
            rt == Log!Reverse(t)
<1>1. rs = [i \in 1 .. n |-> s[n - i + 1]] /\ rt = [i \in 1 .. Len(t) |-> t[Len(t) - i + 1]]
  BY DEF Log!Reverse
<1>2. Len(t) \in Nat /\ n \in Nat /\ n <= Len(t)
  OBVIOUS
<1>3. rs \in Seq(S) /\ Len(rs) = n /\ rt \in Seq(S) /\ Len(rt) = Len(t)
  BY <1>1, <1>2
<1>4. \A i \in 1 .. n : rs[i] = rt[i]
  <2>. SUFFICES ASSUME NEW i \in 1 .. n PROVE rs[i] = rt[i]
    OBVIOUS
  <2>1. rs[i] = s[n - i + 1] /\ rt[i] = t[Len(t) - i + 1]
    BY <1>1, <1>2
  <2>2. n - i + 1 \in 1 .. n /\ Len(t) - n + (n - i + 1) = Len(t) - i + 1
    BY <1>2
  <2>. QED  BY <2>1, <2>2
<1>. HIDE DEF rs, rt
<1>5. SubSeq(rs, 1, n) = SubSeq(rt, 1, n)
  <2>1. SubSeq(rs, 1, n) = [i \in 1 .. n |-> rs[i]] /\ SubSeq(rt, 1, n) = [i \in 1 .. n |-> rt[i]]
    BY <1>2, <1>3
  <2>. QED  BY <2>1, <1>4
<1>6. Log!IsPrefix(rs, rt)
  BY <1>2, <1>3, <1>5 DEF Log!IsPrefix
<1>. QED  BY <1>6 DEF Log!IsSuffix, rs, rt

-----------------------------------------------------------------------------

RingType ==
  /\ start \in Log!Indices /\ count \in 0 .. Capacity /\ nextSequence \in Nat
  /\ entries \in [Log!Indices -> LogEntry]
  /\ shown \in Seq(LogEntry)

\* The entry i of those shown is in the i-th place behind the start.
RingHoldsLatest ==
  /\ count = IF Len(shown) < Capacity THEN Len(shown) ELSE Capacity
  /\ \A i \in 0 .. count - 1 : entries[Log!PhysicalIndex(i)] = shown[Len(shown) - count + i + 1]

LogInv == RingType /\ RingHoldsLatest

\* An entry of the log is in the ring.
LEMMA IndexType == ASSUME Log!LoggerCoreAssumption, RingType
                   PROVE  \A i \in 0 .. Capacity : Log!PhysicalIndex(i) \in Log!Indices
  BY DEF Log!LoggerCoreAssumption, RingType, Log!Indices, Log!PhysicalIndex

\* The ring begins empty.
LEMMA InitRing == ASSUME Log!LoggerCoreAssumption, Log!Init PROVE LogInv
<1>1. Log!Blank \in LogEntry
  BY DEF Log!Blank, LogEntry
<1>2. <<>> \in Seq(LogEntry) /\ Len(<<>>) = 0
  OBVIOUS
<1>. QED  BY <1>1, <1>2 DEF Log!Init, LogInv, RingType, RingHoldsLatest,
             Log!LoggerCoreAssumption, Log!Indices

\* LoggerCore::clear() empties it.
LEMMA ClearRing == ASSUME Log!LoggerCoreAssumption, LogInv, Log!Clear PROVE LogInv'
<1>1. Log!Blank \in LogEntry
  BY DEF Log!Blank, LogEntry
<1>2. <<>> \in Seq(LogEntry) /\ Len(<<>>) = 0
  OBVIOUS
<1>. QED  BY <1>1, <1>2 DEF Log!Clear, Log!Erased, LogInv, RingType, RingHoldsLatest,
             Log!LoggerCoreAssumption, Log!Indices

\* A write goes behind the last entry; in a full ring that is the place of the
\* oldest, which is the one that is no longer shown.
LEMMA WriteRing ==
  ASSUME Log!LoggerCoreAssumption, LogInv, NEW message \in Messages, Log!Write(message)
  PROVE  LogInv'
<1>. DEFINE full  == count >= Capacity
            index == IF full THEN start ELSE Log!PhysicalIndex(count)
            entry == [sequence |-> nextSequence, message |-> message]
<1>1. /\ entries' = [entries EXCEPT ![index] = entry]
      /\ start' = IF full THEN (start + 1) % Capacity ELSE start
      /\ count' = IF full THEN count ELSE count + 1
      /\ nextSequence' = nextSequence + 1
      /\ shown' = Append(shown, entry)
  BY DEF Log!Write
<1>2. /\ Capacity \in Nat \ {0} /\ start \in 0 .. Capacity - 1 /\ count \in 0 .. Capacity
      /\ nextSequence \in Nat /\ entries \in [0 .. Capacity - 1 -> LogEntry] /\ shown \in Seq(LogEntry)
  BY DEF LogInv, RingType, Log!LoggerCoreAssumption, Log!Indices
<1>3. entry \in LogEntry
  BY <1>2 DEF LogEntry
<1>4. index \in 0 .. Capacity - 1
  BY <1>2, IndexType DEF LogInv, Log!Indices
<1>. HIDE DEF entry, index
<1>5. shown' \in Seq(LogEntry) /\ Len(shown') = Len(shown) + 1 /\ shown'[Len(shown) + 1] = entry
      /\ \A j \in 1 .. Len(shown) : shown'[j] = shown[j]
  BY <1>1, <1>2, <1>3
<1>6. entries' \in [0 .. Capacity - 1 -> LogEntry]
      /\ \A p \in 0 .. Capacity - 1 : entries'[p] = IF p = index THEN entry ELSE entries[p]
  BY <1>1, <1>2, <1>3, <1>4
<1>7. Len(shown) \in Nat /\ count = IF Len(shown) < Capacity THEN Len(shown) ELSE Capacity
  BY <1>2 DEF LogInv, RingHoldsLatest
<1>8. RingType'
  BY <1>1, <1>2, <1>5, <1>6 DEF RingType, Log!Indices
<1>9. count' = IF Len(shown') < Capacity THEN Len(shown') ELSE Capacity
  BY <1>1, <1>2, <1>5, <1>7
<1>10. \A p \in 0 .. Capacity - 1, d \in 0 .. Capacity :
         (p + d) % Capacity = IF p + d < Capacity THEN p + d ELSE p + d - Capacity
  BY RoundOnce
<1>11. ASSUME NEW i \in 0 .. count' - 1
       PROVE  entries'[Log!PhysicalIndex(i)'] = shown'[Len(shown') - count' + i + 1]
  <2>1. CASE full
    <3>1. count = Capacity /\ count' = Capacity /\ index = start
      BY <1>1, <1>2, <2>1 DEF index
    <3>2. start' = IF start + 1 < Capacity THEN start + 1 ELSE 0
      <4>1. 1 \in 0 .. Capacity
        BY <1>2
      <4>2. (start + 1) % Capacity = IF start + 1 < Capacity THEN start + 1 ELSE start + 1 - Capacity
        BY <1>2, <1>10, <4>1
      <4>. QED  BY <1>1, <1>2, <2>1, <4>2
    <3>3. Log!PhysicalIndex(i)' = IF start' + i < Capacity THEN start' + i ELSE start' + i - Capacity
      <4>1. start' \in 0 .. Capacity - 1 /\ i \in 0 .. Capacity
        BY <1>2, <3>1, <3>2
      <4>2. Log!PhysicalIndex(i)' = (start' + i) % Capacity
        BY DEF Log!PhysicalIndex
      <4>. QED  BY <1>10, <4>1, <4>2
    <3>4. CASE i = Capacity - 1
      <4>1. Log!PhysicalIndex(i)' = start
        BY <1>2, <3>2, <3>3, <3>4
      <4>2. entries'[start] = entry
        BY <1>2, <1>6, <3>1
      <4>3. Len(shown') - count' + i + 1 = Len(shown) + 1
        BY <1>2, <1>5, <1>7, <3>1, <3>4
      <4>. QED  BY <1>5, <4>1, <4>2, <4>3
    <3>5. CASE i < Capacity - 1
      <4>1. Log!PhysicalIndex(i)' # start /\ Log!PhysicalIndex(i)' = Log!PhysicalIndex(i + 1)
            /\ Log!PhysicalIndex(i)' \in 0 .. Capacity - 1
        <5>1. Log!PhysicalIndex(i + 1) = IF start + (i + 1) < Capacity THEN start + (i + 1)
                                     ELSE start + (i + 1) - Capacity
          <6>1. i + 1 \in 0 .. Capacity
            BY <1>2, <3>1, <3>5
          <6>. QED  BY <1>2, <1>10, <6>1 DEF Log!PhysicalIndex
        <5>. QED  BY <1>2, <3>1, <3>2, <3>3, <3>5, <5>1
      <4>2. i + 1 \in 0 .. count - 1
        BY <1>2, <3>1, <3>5
      <4>3. entries[Log!PhysicalIndex(i + 1)] = shown[Len(shown) - count + (i + 1) + 1]
        BY <4>2 DEF LogInv, RingHoldsLatest
      <4>4. entries'[Log!PhysicalIndex(i)'] = entries[Log!PhysicalIndex(i + 1)]
        BY <1>6, <3>1, <4>1
      <4>5. Len(shown) - count + (i + 1) + 1 \in 1 .. Len(shown)
            /\ Len(shown') - count' + i + 1 = Len(shown) - count + (i + 1) + 1
        <5>1. Capacity \in Nat /\ i \in Nat /\ i + 1 < Capacity /\ Capacity <= Len(shown)
          BY <1>2, <1>7, <3>1, <4>2
        <5>2. Len(shown') = Len(shown) + 1 /\ count = Capacity /\ count' = Capacity /\ Len(shown) \in Nat
          BY <1>5, <1>7, <3>1
        <5>. QED  BY <5>1, <5>2
      <4>. QED  BY <1>5, <4>3, <4>4, <4>5
    <3>. QED  BY <1>2, <3>1, <3>4, <3>5
  <2>2. CASE ~full
    <3>1. count' = count + 1 /\ start' = start /\ index = Log!PhysicalIndex(count) /\ Len(shown) = count
      BY <1>1, <1>2, <1>7, <2>2 DEF index
    <3>2. Log!PhysicalIndex(i)' = Log!PhysicalIndex(i)
      BY <3>1 DEF Log!PhysicalIndex
    <3>3. CASE i = count
      BY <1>2, <1>4, <1>5, <1>6, <3>1, <3>2, <3>3
    <3>4. CASE i < count
      <4>1. i \in 0 .. count - 1 /\ count < Capacity
        BY <1>2, <2>2, <3>1, <3>4
      <4>2. Log!PhysicalIndex(i) # index /\ Log!PhysicalIndex(i) \in 0 .. Capacity - 1
        <5>1. /\ Log!PhysicalIndex(i) = IF start + i < Capacity THEN start + i ELSE start + i - Capacity
              /\ Log!PhysicalIndex(count) = IF start + count < Capacity THEN start + count
                                        ELSE start + count - Capacity
          <6>1. i \in 0 .. Capacity /\ count \in 0 .. Capacity
            BY <1>2, <4>1
          <6>. QED  BY <1>2, <1>10, <6>1 DEF Log!PhysicalIndex
        <5>. QED  BY <1>2, <3>1, <4>1, <5>1
      <4>3. entries[Log!PhysicalIndex(i)] = shown[Len(shown) - count + i + 1]
        BY <4>1 DEF LogInv, RingHoldsLatest
      <4>4. Len(shown) - count + i + 1 = i + 1 /\ Len(shown') - count' + i + 1 = i + 1
            /\ i + 1 \in 1 .. Len(shown)
        BY <1>2, <1>5, <3>1, <4>1
      <4>. QED  BY <1>5, <1>6, <3>2, <4>2, <4>3, <4>4
    <3>. QED  BY <1>2, <3>1, <3>3, <3>4
  <2>. QED  BY <2>1, <2>2
<1>. QED  BY <1>8, <1>9, <1>11 DEF LogInv, RingHoldsLatest

\* Every step keeps the latest entries in the ring.
LEMMA StepRing == ASSUME Log!LoggerCoreAssumption, LogInv, [Log!Next]_(Log!vars) PROVE LogInv'
<1>1. CASE UNCHANGED Log!vars
  BY <1>1 DEF Log!vars, LogInv, RingType, RingHoldsLatest, Log!PhysicalIndex
<1>. QED  BY <1>1, ClearRing, WriteRing DEF Log!Next

\* A ring that holds the latest entries shows them.
LEMMA RingShows == ASSUME Log!LoggerCoreAssumption, LogInv PROVE Log!ShowsTheLatest
<1>1. /\ Capacity \in Nat \ {0} /\ count \in 0 .. Capacity /\ shown \in Seq(LogEntry)
      /\ entries \in [Log!Indices -> LogEntry]
  BY DEF LogInv, RingType, Log!LoggerCoreAssumption
<1>2. count = IF Len(shown) < Capacity THEN Len(shown) ELSE Capacity
  BY DEF LogInv, RingHoldsLatest
<1>3. \A i \in 1 .. count : /\ entries[Log!PhysicalIndex(i - 1)] \in LogEntry
                            /\ entries[Log!PhysicalIndex(i - 1)] = shown[Len(shown) - count + i]
  <2>. SUFFICES ASSUME NEW i \in 1 .. count
                PROVE  /\ entries[Log!PhysicalIndex(i - 1)] \in LogEntry
                       /\ entries[Log!PhysicalIndex(i - 1)] = shown[Len(shown) - count + i]
    OBVIOUS
  <2>1. i - 1 \in 0 .. count - 1 /\ i - 1 \in 0 .. Capacity
        /\ Len(shown) - count + (i - 1) + 1 = Len(shown) - count + i
    BY <1>1
  <2>2. entries[Log!PhysicalIndex(i - 1)] = shown[Len(shown) - count + (i - 1) + 1]
    BY <2>1 DEF LogInv, RingHoldsLatest
  <2>. QED  BY <1>1, <2>1, <2>2, IndexType DEF LogInv
<1>4. Log!Entries \in Seq(LogEntry) /\ Len(Log!Entries) = count
      /\ \A i \in 1 .. count : Log!Entries[i] = entries[Log!PhysicalIndex(i - 1)]
  <2>1. Log!Entries = [i \in 1 .. count |-> entries[Log!PhysicalIndex(i - 1)]]
    BY DEF Log!Entries
  <2>. HIDE DEF Log!Entries
  <2>. QED  BY <1>1, <1>3, <2>1
<1>5. count \in 0 .. Len(shown)
  BY <1>1, <1>2
<1>6. Log!IsSuffix(Log!Entries, shown)
  <2>1. \A i \in 1 .. count : Log!Entries[i] = shown[Len(shown) - count + i]
    BY <1>3, <1>4
  <2>. QED  BY <1>1, <1>4, <1>5, <2>1, TailIsSuffix
<1>. QED  BY <1>2, <1>6 DEF Log!ShowsTheLatest

-----------------------------------------------------------------------------
(* Sequences and loops. *)

\* A function on the first numbers is a sequence of what its values are.
LEMMA SequenceOf ==
  ASSUME NEW S, NEW m \in Nat, NEW f, f = [i \in 1 .. m |-> f[i]], \A i \in 1 .. m : f[i] \in S
  PROVE  f \in Seq(S) /\ Len(f) = m /\ DOMAIN f = 1 .. m
<1>1. f \in [1 .. m -> S]
  OBVIOUS
<1>. QED  BY <1>1

\* A set of numbers that holds 0 and every successor up to n holds 0 .. n.
LEMMA UpTo ==
  ASSUME NEW n \in Nat, NEW S, 0 \in S, \A m \in 1 .. n : m - 1 \in S => m \in S
  PROVE  0 .. n \subseteq S
<1>. SUFFICES ASSUME NEW k \in 0 .. n, k \notin S PROVE FALSE
  OBVIOUS
<1>. DEFINE T == {m \in 0 .. n : m \notin S}
<1>1. T \in SUBSET Nat /\ T # {}
  OBVIOUS
<1>2. \E m \in T : \A i \in T : m <= i
  <2>. HIDE DEF T
  <2>. QED  BY <1>1, FirstPlace
<1>3. PICK m \in T : \A i \in T : m <= i
  BY <1>2
<1>4. m \in 1 .. n /\ m - 1 \in 0 .. n
  OBVIOUS
<1>5. m - 1 \notin T
  <2>. HIDE DEF T
  <2>. QED  BY <1>3, <1>4
<1>. QED  BY <1>4, <1>5

\* A loop of n rounds over values of one set has a value after each of them.
IsLoop(n, X, base, Step) == n \in Nat /\ base \in X /\ Step \in [1 .. n -> [X -> X]]

HasValues(n, X, base, Step) ==
  \E f \in [0 .. n -> X] : f[0] = base /\ \A p \in 1 .. n : f[p] = Step[p][f[p - 1]]

\* A loop has a value in every round.
LEMMA Rounds == ASSUME NEW n, NEW X, NEW base, NEW Step, IsLoop(n, X, base, Step)
                PROVE  HasValues(n, X, base, Step)
<1>. SUFFICES ASSUME n \in Nat, base \in X, Step \in [1 .. n -> [X -> X]]
              PROVE  \E f \in [0 .. n -> X] : f[0] = base /\ \A p \in 1 .. n : f[p] = Step[p][f[p - 1]]
  BY DEF IsLoop, HasValues
<1>. DEFINE Good(m, f) == f[0] = base /\ \A p \in 1 .. m : f[p] = Step[p][f[p - 1]]
            Has == {m \in 0 .. n : \E f \in [0 .. m -> X] : Good(m, f)}
<1>1. 0 \in Has
  <2>. DEFINE g == [p \in 0 .. 0 |-> base]
  <2>1. g \in [0 .. 0 -> X] /\ Good(0, g)
    OBVIOUS
  <2>2. 0 \in 0 .. n
    OBVIOUS
  <2>. HIDE DEF g, Good
  <2>. QED  BY <2>1, <2>2
<1>2. ASSUME NEW m \in 1 .. n, m - 1 \in Has PROVE m \in Has
  <2>1. PICK f \in [0 .. m - 1 -> X] : Good(m - 1, f)
    BY <1>2
  <2>. DEFINE g == [p \in 0 .. m |-> IF p = m THEN Step[m][f[m - 1]] ELSE f[p]]
  <2>2. m - 1 \in 0 .. m - 1 /\ f[m - 1] \in X
    OBVIOUS
  <2>3. Step[m][f[m - 1]] \in X
    BY <2>2
  <2>4. g \in [0 .. m -> X]
    BY <2>3
  <2>5. Good(m, g)
    <3>1. g[0] = base
      BY <2>1
    <3>2. ASSUME NEW p \in 1 .. m PROVE g[p] = Step[p][g[p - 1]]
      <4>1. g[p - 1] = f[p - 1]
        OBVIOUS
      <4>2. CASE p = m
        BY <4>1, <4>2
      <4>3. CASE p # m
        BY <2>1, <4>1, <4>3
      <4>. QED  BY <4>2, <4>3
    <3>. QED  BY <3>1, <3>2
  <2>. HIDE DEF g, Good
  <2>. QED  BY <2>4, <2>5
<1>3. \E f \in [0 .. n -> X] : Good(n, f)
  <2>1. 0 .. n \subseteq Has
    <3>. HIDE DEF Has
    <3>. QED  BY <1>1, <1>2, UpTo
  <2>. HIDE DEF Good
  <2>. QED  BY <2>1
<1>. QED  BY <1>3

\* A set that holds a number when it holds the greater ones up to b holds all from a to b.
LEMMA Downward ==
  ASSUME NEW a \in Nat, NEW b \in Nat, NEW S,
         \A j \in a .. b : (\A i \in j + 1 .. b : i \in S) => j \in S
  PROVE  a .. b \subseteq S
<1>. DEFINE T == {d \in 0 .. b + 1 : \A i \in a .. b : i > b - d => i \in S}
<1>1. 0 \in T
  OBVIOUS
<1>2. ASSUME NEW d \in 1 .. b + 1, d - 1 \in T PROVE d \in T
  <2>1. ASSUME NEW i \in a .. b, i > b - d PROVE i \in S
    <3>1. \A k \in i + 1 .. b : k \in S
      <4>. SUFFICES ASSUME NEW k \in i + 1 .. b PROVE k \in S
        OBVIOUS
      <4>1. k \in a .. b /\ k > b - (d - 1)
        BY <2>1
      <4>. QED  BY <1>2, <4>1
    <3>. QED  BY <3>1
  <2>. QED  BY <2>1
<1>3. 0 .. b + 1 \subseteq T
  <2>1. b + 1 \in Nat
    OBVIOUS
  <2>. HIDE DEF T
  <2>. QED  BY <1>1, <1>2, <2>1, UpTo
<1>4. b + 1 \in T
  <2>. HIDE DEF T
  <2>1. b + 1 \in 0 .. b + 1
    OBVIOUS
  <2>. QED  BY <1>3, <2>1
<1>. QED  BY <1>4

\* A loop that runs from b down to 1, and in each round sees all rounds before.
IsBackward(b, X, Step) ==
  /\ b \in Nat
  /\ \A i \in 1 .. b : Step[i] \in [[i + 1 .. b -> X] -> X]

Backward(b, Step, f) == \A i \in 1 .. b : f[i] = Step[i][[j \in i + 1 .. b |-> f[j]]]

\* Such a loop has a value in every round.
LEMMA BackwardLoop ==
  ASSUME NEW b, NEW X, NEW Step, IsBackward(b, X, Step)
  PROVE  \E f \in [1 .. b -> X] : Backward(b, Step, f)
<1>. DEFINE Good(m, f) == \A i \in m .. b : f[i] = Step[i][[j \in i + 1 .. b |-> f[j]]]
            Has == {m \in 1 .. b + 1 : \E f \in [m .. b -> X] : Good(m, f)}
<1>0. /\ b \in Nat
      /\ \A i \in 1 .. b : Step[i] \in [[i + 1 .. b -> X] -> X]
  BY Zenon DEF IsBackward
<1>1. b \in Nat /\ b + 1 \in Nat
  BY <1>0
<1>2. ASSUME NEW m \in 1 .. b + 1, \A i \in m + 1 .. b + 1 : i \in Has PROVE m \in Has
  <2>1. CASE m = b + 1
    <3>. DEFINE g == [i \in m .. b |-> b]
    <3>1. \A i \in m .. b : FALSE
      BY <1>1, <2>1
    <3>2. g \in [m .. b -> X] /\ Good(m, g)
      BY <3>1
    <3>. HIDE DEF g, Good
    <3>. QED  BY <3>2
  <2>2. CASE m # b + 1
    <3>1. m \in 1 .. b /\ m + 1 \in Has
      <4>. HIDE DEF Has
      <4>1. m \in 1 .. b /\ m + 1 \in m + 1 .. b + 1
        BY <1>1, <2>2
      <4>. QED  BY <1>2, <4>1
    <3>2. PICK f \in [m + 1 .. b -> X] : Good(m + 1, f)
      BY <3>1
    <3>. DEFINE g == [i \in m .. b |-> IF i = m THEN Step[m][f] ELSE f[i]]
    <3>3. Step[m][f] \in X
      BY <1>0, <3>1
    <3>4. g \in [m .. b -> X]
      BY <1>1, <3>1, <3>3
    <3>5. \A i \in m .. b : [j \in i + 1 .. b |-> g[j]] = [j \in i + 1 .. b |-> f[j]]
      BY <1>1, <3>1
    <3>6. f = [j \in m + 1 .. b |-> f[j]]
      OBVIOUS
    <3>7. ASSUME NEW i \in m .. b PROVE g[i] = Step[i][[j \in i + 1 .. b |-> g[j]]]
      <4>0. [j \in i + 1 .. b |-> g[j]] = [j \in i + 1 .. b |-> f[j]]
        BY <3>5
      <4>1. CASE i = m
        <5>1. g[i] = Step[m][f]
          BY <4>1
        <5>. HIDE DEF g
        <5>. QED  BY <3>6, <4>0, <4>1, <5>1
      <4>2. CASE i # m
        <5>1. i \in m + 1 .. b
          BY <1>1, <3>1, <4>2
        <5>2. g[i] = f[i]
          BY <4>2
        <5>. HIDE DEF g
        <5>. QED  BY <3>2, <4>0, <5>1, <5>2
      <4>. QED  BY <4>1, <4>2
    <3>8. Good(m, g)
      <4>. HIDE DEF g
      <4>. QED  BY <3>7
    <3>. HIDE DEF g, Good
    <3>. QED  BY <3>4, <3>8
  <2>. QED  BY <2>1, <2>2
<1>3. 1 \in Has
  <2>1. 1 .. b + 1 \subseteq Has
    <3>. HIDE DEF Has
    <3>. QED  BY <1>1, <1>2, Downward
  <2>2. 1 \in 1 .. b + 1
    BY <1>1
  <2>. HIDE DEF Has
  <2>. QED  BY <2>1, <2>2
<1>. QED  BY <1>3 DEF Backward

\* The rest of a sequence, from a place on.
LEMMA Rest ==
  ASSUME NEW S, NEW v \in Seq(S), NEW m, m = Len(v)
  PROVE  /\ SubSeq(v, m + 1, m) = <<>>
         /\ SubSeq(v, 1, m) = v
         /\ \A i \in 1 .. m : SubSeq(v, i, m) = <<v[i]>> \o SubSeq(v, i + 1, m)
<1>1. m \in Nat
  OBVIOUS
<1>2. SubSeq(v, m + 1, m) = <<>> /\ SubSeq(v, 1, m) = v
  OBVIOUS
<1>3. ASSUME NEW i \in 1 .. m PROVE SubSeq(v, i, m) = <<v[i]>> \o SubSeq(v, i + 1, m)
  <2>. DEFINE a == SubSeq(v, i, m)
              b == SubSeq(v, i + 1, m)
              c == <<v[i]>> \o b
  <2>1. a \in Seq(S) /\ Len(a) = m - i + 1 /\ \A j \in 1 .. m - i + 1 : a[j] = v[i + j - 1]
    BY <1>1
  <2>2. b \in Seq(S) /\ Len(b) = m - i /\ \A j \in 1 .. m - i : b[j] = v[i + j]
    BY <1>1
  <2>3. <<v[i]>> \in Seq(S) /\ Len(<<v[i]>>) = 1 /\ <<v[i]>>[1] = v[i]
    OBVIOUS
  <2>. HIDE DEF a, b
  <2>4. c \in Seq(S) /\ Len(c) = m - i + 1 /\ c[1] = v[i] /\ \A j \in 1 .. m - i : c[j + 1] = b[j]
    BY <1>1, <2>2, <2>3
  <2>. HIDE DEF c
  <2>5. \A j \in 1 .. m - i + 1 : a[j] = c[j]
    <3>. SUFFICES ASSUME NEW j \in 1 .. m - i + 1 PROVE a[j] = c[j]
      OBVIOUS
    <3>1. CASE j = 1
      BY <1>1, <2>1, <2>4, <3>1
    <3>2. CASE j # 1
      <4>. DEFINE k == j - 1
      <4>1. k \in 1 .. m - i /\ j = k + 1 /\ i + j - 1 = i + k
        BY <1>1, <3>2
      <4>. HIDE DEF k
      <4>. QED  BY <2>1, <2>2, <2>4, <4>1
    <3>. QED  BY <3>1, <3>2
  <2>6. a = c
    BY <2>1, <2>4, <2>5
  <2>. QED  BY <2>6 DEF a, c, b
<1>. QED  BY <1>2, <1>3

\* Two sequences with the same elements are the same,
LEMMA SameSequence ==
  ASSUME NEW S, NEW a \in Seq(S), NEW b \in Seq(S), NEW m, Len(a) = m, Len(b) = m,
         \A j \in 1 .. m : a[j] = b[j]
  PROVE  a = b
OBVIOUS

\* two put together have the elements of both,
LEMMA Joined ==
  ASSUME NEW S, NEW a \in Seq(S), NEW b \in Seq(S)
  PROVE  /\ a \o b \in Seq(S) /\ Len(a \o b) = Len(a) + Len(b)
         /\ Len(a) \in Nat /\ Len(b) \in Nat
         /\ \A j \in 1 .. Len(a) : (a \o b)[j] = a[j]
         /\ \A j \in 1 .. Len(b) : (a \o b)[Len(a) + j] = b[j]
OBVIOUS

\* and the order in which some are put together does not matter.
LEMMA Regrouped ==
  ASSUME NEW S, NEW a \in Seq(S), NEW b \in Seq(S), NEW c \in Seq(S)
  PROVE  a \o (b \o c) = (a \o b) \o c
<1>. DEFINE l == Len(a)
            m == Len(b)
            n == Len(c)
            d == b \o c
            e == a \o b
            x == a \o d
            y == e \o c
<1>1. l \in Nat /\ m \in Nat /\ n \in Nat
  OBVIOUS
<1>2. /\ d \in Seq(S) /\ Len(d) = m + n
      /\ \A j \in 1 .. m : d[j] = b[j]
      /\ \A j \in 1 .. n : d[m + j] = c[j]
  BY Joined
<1>3. /\ e \in Seq(S) /\ Len(e) = l + m
      /\ \A j \in 1 .. l : e[j] = a[j]
      /\ \A j \in 1 .. m : e[l + j] = b[j]
  BY Joined
<1>. HIDE DEF d, e
<1>4. /\ x \in Seq(S) /\ Len(x) = l + Len(d)
      /\ \A j \in 1 .. l : x[j] = a[j]
      /\ \A j \in 1 .. Len(d) : x[l + j] = d[j]
  <2>1. d \in Seq(S)
    BY <1>2
  <2>. QED  BY <2>1, Joined
<1>5. /\ y \in Seq(S) /\ Len(y) = Len(e) + n
      /\ \A j \in 1 .. Len(e) : y[j] = e[j]
      /\ \A j \in 1 .. n : y[Len(e) + j] = c[j]
  <2>1. e \in Seq(S)
    BY <1>3
  <2>. QED  BY <2>1, Joined
<1>. HIDE DEF l, m, n, x, y
<1>6. ASSUME NEW j \in 1 .. l + m + n PROVE x[j] = y[j]
  <2>1. CASE j <= l
    <3>1. j \in 1 .. l /\ j \in 1 .. Len(e)
      BY <1>1, <1>3, <2>1
    <3>. QED  BY <1>3, <1>4, <1>5, <3>1
  <2>2. CASE j > l /\ j <= l + m
    <3>. DEFINE k == j - l
    <3>1. k \in 1 .. m /\ k \in 1 .. Len(d) /\ j = l + k /\ j \in 1 .. Len(e)
      BY <1>1, <1>2, <1>3, <2>2
    <3>. HIDE DEF k
    <3>2. x[l + k] = d[k] /\ d[k] = b[k]
      BY <1>2, <1>4, <3>1
    <3>3. y[j] = e[j] /\ e[l + k] = b[k]
      BY <1>3, <1>5, <3>1
    <3>. QED  BY <3>1, <3>2, <3>3
  <2>3. CASE j > l + m
    <3>. DEFINE k == j - l - m
    <3>1. k \in 1 .. n /\ m + k \in 1 .. Len(d) /\ j = l + (m + k) /\ j = Len(e) + k
      BY <1>1, <1>2, <1>3, <2>3
    <3>. HIDE DEF k
    <3>2. x[l + (m + k)] = d[m + k] /\ d[m + k] = c[k]
      BY <1>2, <1>4, <3>1
    <3>3. y[Len(e) + k] = c[k]
      BY <1>5, <3>1
    <3>. QED  BY <3>1, <3>2, <3>3
  <2>. QED  BY <1>1, <2>1, <2>2, <2>3
<1>7. Len(x) = l + m + n /\ Len(y) = l + m + n
  BY <1>1, <1>2, <1>3, <1>4, <1>5
<1>8. x = y
  BY <1>4, <1>5, <1>6, <1>7, SameSequence
<1>. QED  BY <1>8 DEF x, y, d, e

-----------------------------------------------------------------------------
(* DataConnection: the loops of the parsers. *)

DataAssumption ==
  /\ MaxPdpContexts \in Nat \ {0}
  /\ \A l \in Listings :
       /\ l.contexts \in Seq([cid : Nat, apn : STRING])
       /\ \A i, j \in DOMAIN l.contexts : l.contexts[i].cid = l.contexts[j].cid => i = j
  /\ BareOk \in BOOLEAN

\* What DataConnection assumes of the constants.
LEMMA DataConstants == DataAssumption
  BY SmallPartsAssumption DEF DataAssumption, Data!DataConnectionAssumption

Contexts == [cid : Nat, known : BOOLEAN, ignored : BOOLEAN, apn : STRING \cup {""},
             activationKnown : BOOLEAN, active : BOOLEAN]

ContextLines == [prefix : {"+CGDCONT:"}, cid : Nat, apn : STRING]

ActiveLines == [prefix : {"+CGACT:"}, cid : Nat, state : {0, 1}]

\* A line changes contexts into contexts.
LEMMA ContextTypes ==
  ASSUME NEW all \in Seq(Contexts), NEW cid \in Nat
  PROVE  /\ Data!WithContext(all, cid) \in Seq(Contexts)
         /\ \A line_ \in ContextLines : line_.cid = cid => Data!ListContext(all, line_) \in Seq(Contexts)
         /\ \A line_ \in ActiveLines : line_.cid = cid => Data!TellActivation(all, line_) \in Seq(Contexts)
<1>1. Data!WithContext(all, cid) \in Seq(Contexts)
  <2>. DEFINE new == [ cid |-> cid, known |-> FALSE, ignored |-> FALSE, apn |-> "",
                       activationKnown |-> FALSE, active |-> FALSE ]
  <2>1. new \in Contexts
    BY DEF Contexts
  <2>2. Data!WithContext(all, cid) \in {all, Append(all, new)}
    BY DEF Data!WithContext
  <2>. HIDE DEF new
  <2>3. Append(all, new) \in Seq(Contexts)
    BY <2>1
  <2>. QED  BY <2>2, <2>3
<1>. DEFINE w == Data!WithContext(all, cid)
<1>2. w \in Seq(Contexts) /\ DOMAIN w = 1 .. Len(w) /\ Len(w) \in Nat /\ \A i \in 1 .. Len(w) : w[i] \in Contexts
  BY <1>1
<1>. HIDE DEF w
<1>3. ASSUME NEW line_ \in ContextLines, line_.cid = cid PROVE Data!ListContext(all, line_) \in Seq(Contexts)
  <2>1. Data!ListContext(all, line_) =
          [i \in DOMAIN w |-> IF w[i].cid = line_.cid
             THEN [w[i] EXCEPT !.known = TRUE, !.ignored = Data!IsIms(line_.apn), !.apn = line_.apn]
             ELSE w[i]]
    BY <1>3 DEF Data!ListContext, w
  <2>2. Data!IsIms(line_.apn) \in BOOLEAN /\ line_.apn \in STRING
    BY DEF Data!IsIms, ContextLines
  <2>3. \A i \in 1 .. Len(w) :
          [w[i] EXCEPT !.known = TRUE, !.ignored = Data!IsIms(line_.apn), !.apn = line_.apn] \in Contexts
    BY <1>2, <2>2 DEF Contexts
  <2>. DEFINE f == Data!ListContext(all, line_)
  <2>4. f = [i \in 1 .. Len(w) |-> f[i]] /\ \A i \in 1 .. Len(w) : f[i] \in Contexts
    BY <1>2, <2>1, <2>3
  <2>. HIDE DEF f
  <2>5. f \in Seq(Contexts)
    BY <1>2, <2>4, SequenceOf
  <2>. QED  BY <2>5 DEF f
<1>4. ASSUME NEW line_ \in ActiveLines, line_.cid = cid PROVE Data!TellActivation(all, line_) \in Seq(Contexts)
  <2>1. Data!TellActivation(all, line_) =
          [i \in DOMAIN w |-> IF w[i].cid = line_.cid
             THEN [w[i] EXCEPT !.activationKnown = TRUE, !.active = (line_.state = 1)]
             ELSE w[i]]
    BY <1>4 DEF Data!TellActivation, w
  <2>2. \A i \in 1 .. Len(w) :
          [w[i] EXCEPT !.activationKnown = TRUE, !.active = (line_.state = 1)] \in Contexts
    BY <1>2 DEF Contexts
  <2>. DEFINE f == Data!TellActivation(all, line_)
  <2>3. f = [i \in 1 .. Len(w) |-> f[i]] /\ \A i \in 1 .. Len(w) : f[i] \in Contexts
    BY <1>2, <2>1, <2>2
  <2>. HIDE DEF f
  <2>4. f \in Seq(Contexts)
    BY <1>2, <2>3, SequenceOf
  <2>. QED  BY <2>4 DEF f
<1>. QED  BY <1>1, <1>3, <1>4 DEF w

\* The loops of the parsers, line by line.
LEMMA ListLoop ==
  ASSUME NEW base \in Seq(Contexts), NEW response \in Seq(ContextLines)
  PROVE  \E after \in [0 .. Len(response) -> Seq(Contexts)] :
           /\ after[0] = base
           /\ \A p \in 1 .. Len(response) : after[p] = Data!ListContext(after[p - 1], response[p])
           /\ Data!ListContexts(base, response) = after[Len(response)]
<1>. DEFINE n == Len(response)
            X == Seq(Contexts)
            Step == [p \in 1 .. n |-> [x \in X |-> Data!ListContext(x, response[p])]]
            Loop(f) == [p \in 0 .. n |-> IF p = 0 THEN base
                                         ELSE IF p \in Data!LinesOf(response, "+CGDCONT:")
                                         THEN Data!ListContext(f[p - 1], response[p])
                                         ELSE f[p - 1]]
            after == CHOOSE f : f = Loop(f)
<1>1. n \in Nat /\ DOMAIN response = 1 .. n /\ \A p \in 1 .. n : response[p] \in ContextLines
  OBVIOUS
<1>2. \A p \in 1 .. n : response[p].cid \in Nat /\ p \in Data!LinesOf(response, "+CGDCONT:")
  BY <1>1 DEF ContextLines, Data!LinesOf
<1>3. \A p \in 1 .. n : \A x \in X : Data!ListContext(x, response[p]) \in X
  BY <1>1, <1>2, ContextTypes
<1>4. Step \in [1 .. n -> [X -> X]]
  BY <1>3
<1>5. \E f \in [0 .. n -> X] : f[0] = base /\ \A p \in 1 .. n : f[p] = Step[p][f[p - 1]]
  <2>1. IsLoop(n, X, base, Step)
    BY <1>1, <1>4 DEF IsLoop
  <2>. HIDE DEF n, X, Step
  <2>2. HasValues(n, X, base, Step)
    BY <2>1, Rounds
  <2>. QED  BY <2>2 DEF HasValues
<1>6. PICK f \in [0 .. n -> X] : f[0] = base /\ \A p \in 1 .. n : f[p] = Step[p][f[p - 1]]
  BY <1>5
<1>7. \A p \in 1 .. n : f[p] = Data!ListContext(f[p - 1], response[p])
  <2>. SUFFICES ASSUME NEW p \in 1 .. n PROVE f[p] = Data!ListContext(f[p - 1], response[p])
    OBVIOUS
  <2>1. p - 1 \in 0 .. n
    BY <1>1
  <2>. HIDE DEF X
  <2>2. f[p - 1] \in X
    BY <1>6, <2>1
  <2>. QED  BY <1>6, <2>2
<1>8. f = Loop(f)
  <2>. HIDE DEF n, X, Step
  <2>1. \A p \in 0 .. n : p # 0 => p \in 1 .. n
    BY <1>1
  <2>. QED  BY <1>2, <1>6, <1>7, <2>1
<1>9. after = Loop(after)
  <2>. HIDE DEF Loop
  <2>. QED  BY <1>8
<1>10. Data!ListContexts(base, response) = after[n]
  BY DEF Data!ListContexts
<1>. HIDE DEF after, n, X, Step
<1>11. after[0] = base /\ \A p \in 1 .. n : after[p] = Data!ListContext(after[p - 1], response[p])
  <2>1. 0 \in 0 .. n /\ \A p \in 1 .. n : p \in 0 .. n /\ p # 0
    BY <1>1
  <2>. QED  BY <1>2, <1>9, <2>1
<1>12. \A p \in 0 .. n : after[p] \in X
  <2>. DEFINE S == {p \in 0 .. n : after[p] \in X}
  <2>1. 0 \in S
    BY <1>1, <1>11 DEF X
  <2>2. ASSUME NEW p \in 1 .. n, p - 1 \in S PROVE p \in S
    BY <1>1, <1>3, <1>11, <2>2
  <2>3. 0 .. n \subseteq S
    <3>. HIDE DEF S
    <3>. QED  BY <1>1, <2>1, <2>2, UpTo
  <2>. QED  BY <2>3
<1>13. after \in [0 .. n -> X]
  BY <1>9, <1>12
<1>. QED  BY <1>10, <1>11, <1>13 DEF n, X

\* The loop over the lines of +CGACT has values.
LEMMA TellLoop ==
  ASSUME NEW base \in Seq(Contexts), NEW response \in Seq(ActiveLines)
  PROVE  \E after \in [0 .. Len(response) -> Seq(Contexts)] :
           /\ after[0] = base
           /\ \A p \in 1 .. Len(response) : after[p] = Data!TellActivation(after[p - 1], response[p])
           /\ Data!TellActivations(base, response) = after[Len(response)]
<1>. DEFINE n == Len(response)
            X == Seq(Contexts)
            Step == [p \in 1 .. n |-> [x \in X |-> Data!TellActivation(x, response[p])]]
            Loop(f) == [p \in 0 .. n |-> IF p = 0 THEN base
                                         ELSE IF p \in Data!LinesOf(response, "+CGACT:")
                                         THEN Data!TellActivation(f[p - 1], response[p])
                                         ELSE f[p - 1]]
            after == CHOOSE f : f = Loop(f)
<1>1. n \in Nat /\ DOMAIN response = 1 .. n /\ \A p \in 1 .. n : response[p] \in ActiveLines
  OBVIOUS
<1>2. \A p \in 1 .. n : response[p].cid \in Nat /\ p \in Data!LinesOf(response, "+CGACT:")
  BY <1>1 DEF ActiveLines, Data!LinesOf
<1>3. \A p \in 1 .. n : \A x \in X : Data!TellActivation(x, response[p]) \in X
  BY <1>1, <1>2, ContextTypes
<1>4. Step \in [1 .. n -> [X -> X]]
  BY <1>3
<1>5. \E f \in [0 .. n -> X] : f[0] = base /\ \A p \in 1 .. n : f[p] = Step[p][f[p - 1]]
  <2>1. IsLoop(n, X, base, Step)
    BY <1>1, <1>4 DEF IsLoop
  <2>. HIDE DEF n, X, Step
  <2>2. HasValues(n, X, base, Step)
    BY <2>1, Rounds
  <2>. QED  BY <2>2 DEF HasValues
<1>6. PICK f \in [0 .. n -> X] : f[0] = base /\ \A p \in 1 .. n : f[p] = Step[p][f[p - 1]]
  BY <1>5
<1>7. \A p \in 1 .. n : f[p] = Data!TellActivation(f[p - 1], response[p])
  <2>. SUFFICES ASSUME NEW p \in 1 .. n PROVE f[p] = Data!TellActivation(f[p - 1], response[p])
    OBVIOUS
  <2>1. p - 1 \in 0 .. n
    BY <1>1
  <2>. HIDE DEF X
  <2>2. f[p - 1] \in X
    BY <1>6, <2>1
  <2>. QED  BY <1>6, <2>2
<1>8. f = Loop(f)
  <2>. HIDE DEF n, X, Step
  <2>1. \A p \in 0 .. n : p # 0 => p \in 1 .. n
    BY <1>1
  <2>. QED  BY <1>2, <1>6, <1>7, <2>1
<1>9. after = Loop(after)
  <2>. HIDE DEF Loop
  <2>. QED  BY <1>8
<1>10. Data!TellActivations(base, response) = after[n]
  BY DEF Data!TellActivations
<1>. HIDE DEF after, n, X, Step
<1>11. after[0] = base /\ \A p \in 1 .. n : after[p] = Data!TellActivation(after[p - 1], response[p])
  <2>1. 0 \in 0 .. n /\ \A p \in 1 .. n : p \in 0 .. n /\ p # 0
    BY <1>1
  <2>. QED  BY <1>2, <1>9, <2>1
<1>12. \A p \in 0 .. n : after[p] \in X
  <2>. DEFINE S == {p \in 0 .. n : after[p] \in X}
  <2>1. 0 \in S
    BY <1>1, <1>11 DEF X
  <2>2. ASSUME NEW p \in 1 .. n, p - 1 \in S PROVE p \in S
    BY <1>1, <1>3, <1>11, <2>2
  <2>3. 0 .. n \subseteq S
    <3>. HIDE DEF S
    <3>. QED  BY <1>1, <2>1, <2>2, UpTo
  <2>. QED  BY <2>3
<1>13. after \in [0 .. n -> X]
  BY <1>9, <1>12
<1>. QED  BY <1>10, <1>11, <1>13 DEF n, X

NamesApn(context) == context.known /\ ~context.ignored /\ context.apn # ""

\* Contexts that are known alike up to unknown ones at the end name the same APN.
LEMMA SameApn ==
  ASSUME NEW a, NEW b, NEW m \in Nat, NEW n \in Nat, m <= n, DOMAIN a = 1 .. m, DOMAIN b = 1 .. n,
         \A i \in 1 .. m : (NamesApn(a[i]) <=> NamesApn(b[i])) /\ a[i].apn = b[i].apn,
         \A i \in 1 .. n : i > m => ~NamesApn(b[i])
  PROVE  Data!FirstApn(b) = Data!FirstApn(a)
<1>. DEFINE Named(c) == {i \in DOMAIN c : NamesApn(c[i])}
<1>1. Named(a) = Named(b)
  OBVIOUS
<1>2. Named(a) # {} => Data!Min(Named(a)) \in Named(a)
  <2>1. Named(a) \in SUBSET Nat
    OBVIOUS
  <2>2. Data!Min(Named(a)) = Config!Min(Named(a))
    BY DEF Data!Min, Config!Min
  <2>. HIDE DEF Named
  <2>. QED  BY <2>1, <2>2, FirstPlace
<1>3. Data!FirstApn(a) = IF Named(a) = {} THEN "" ELSE a[Data!Min(Named(a))].apn
  BY DEF Data!FirstApn, NamesApn
<1>4. Data!FirstApn(b) = IF Named(b) = {} THEN "" ELSE b[Data!Min(Named(b))].apn
  BY DEF Data!FirstApn, NamesApn
<1>5. \A i \in Named(a) : a[i].apn = b[i].apn
  OBVIOUS
<1>. HIDE DEF Named
<1>6. CASE Named(a) = {}
  BY <1>1, <1>3, <1>4, <1>6
<1>7. CASE Named(a) # {}
  <2>. DEFINE i == Data!Min(Named(a))
  <2>1. Data!FirstApn(a) = a[i].apn /\ Data!FirstApn(b) = b[i].apn
    BY <1>1, <1>3, <1>4, <1>7
  <2>. HIDE DEF i
  <2>. QED  BY <1>2, <1>5, <1>7, <2>1 DEF i
<1>. QED  BY <1>6, <1>7

NewContext(cid) == [ cid |-> cid, known |-> FALSE, ignored |-> FALSE, apn |-> "",
                     activationKnown |-> FALSE, active |-> FALSE ]

Listed(told) == [ cid |-> told.cid, known |-> TRUE, ignored |-> Data!IsIms(told.apn), apn |-> told.apn,
                  activationKnown |-> FALSE, active |-> FALSE ]

IsListed(all, cid) == \E i \in DOMAIN all : all[i].cid = cid

\* A context is added at the end, if it is new and there is room.
LEMMA AddedContext ==
  \A all, cid :
    Data!WithContext(all, cid) = IF IsListed(all, cid) \/ Len(all) >= MaxPdpContexts
                                 THEN all ELSE Append(all, NewContext(cid))
  BY DEF Data!WithContext, NewContext, IsListed

\* A context that is added.
LEMMA NewContextType == \A cid \in Nat : NewContext(cid) \in Contexts
  BY DEF NewContext, Contexts

\* A sequence with one element more.
LEMMA LongerSequence ==
  ASSUME NEW S, NEW s \in Seq(S), NEW e \in S
  PROVE  /\ Append(s, e) \in Seq(S) /\ Len(Append(s, e)) = Len(s) + 1
         /\ DOMAIN Append(s, e) = 1 .. Len(s) + 1
         /\ \A i \in 1 .. Len(s) : Append(s, e)[i] = s[i]
         /\ Append(s, e)[Len(s) + 1] = e
  OBVIOUS

\* A context is what its fields are.
LEMMA SameContext ==
  ASSUME NEW S
  PROVE  \A a, b \in [cid : Nat, known : BOOLEAN, ignored : BOOLEAN, apn : S,
                      activationKnown : BOOLEAN, active : BOOLEAN] :
           (/\ a.cid = b.cid /\ (a.known <=> b.known) /\ (a.ignored <=> b.ignored)
            /\ a.apn = b.apn /\ (a.activationKnown <=> b.activationKnown)
            /\ (a.active <=> b.active))
           => a = b
  BY SMT

\* A line of a context that is not there yet adds it, if there is room.
LEMMA ListedContext ==
  ASSUME NEW all \in Seq(Contexts), NEW told \in ContextLines, ~IsListed(all, told.cid),
         MaxPdpContexts \in Nat
  PROVE  LET c == Data!ListContext(all, told)
         IN  /\ c \in Seq(Contexts)
             /\ Len(all) >= MaxPdpContexts => c = all
             /\ Len(all) < MaxPdpContexts =>
                  /\ Len(c) = Len(all) + 1
                  /\ \A i \in 1 .. Len(all) : c[i] = all[i]
                  /\ c[Len(all) + 1] = Listed(told)
<1>. DEFINE w == Data!WithContext(all, told.cid)
            c == Data!ListContext(all, told)
            Filled(x) == [x EXCEPT !.known = TRUE, !.ignored = Data!IsIms(told.apn), !.apn = told.apn]
<1>1. told.cid \in Nat /\ Len(all) \in Nat /\ DOMAIN all = 1 .. Len(all)
  BY DEF ContextLines
<1>2. c \in Seq(Contexts)
  BY <1>1, ContextTypes
<1>3. c = [i \in DOMAIN w |-> IF w[i].cid = told.cid THEN Filled(w[i]) ELSE w[i]]
  BY DEF Data!ListContext
<1>. HIDE DEF c, w, Filled
<1>4. w = IF Len(all) >= MaxPdpContexts THEN all ELSE Append(all, NewContext(told.cid))
  BY AddedContext DEF w
<1>5. \A i \in 1 .. Len(all) : all[i].cid # told.cid
  BY <1>1 DEF IsListed
<1>6. CASE Len(all) >= MaxPdpContexts
  <2>1. w = all
    BY <1>4, <1>6
  <2>2. c = [i \in 1 .. Len(all) |-> all[i]]
    BY <1>1, <1>3, <1>5, <2>1
  <2>3. c = all
    BY <1>1, <2>2
  <2>4. Len(all) < MaxPdpContexts => FALSE
    BY <1>1, <1>6
  <2>. QED  BY <1>2, <2>3, <2>4 DEF c
<1>7. CASE Len(all) < MaxPdpContexts
  <2>. DEFINE new == NewContext(told.cid)
  <2>0. new \in Contexts
    BY <1>1, NewContextType
  <2>. HIDE DEF new
  <2>1. w = Append(all, new)
    BY <1>1, <1>4, <1>7 DEF new
  <2>2. /\ DOMAIN w = 1 .. Len(all) + 1
        /\ \A i \in 1 .. Len(all) : w[i] = all[i]
        /\ w[Len(all) + 1] = new
    BY <2>0, <2>1, LongerSequence
  <2>3. DOMAIN c = 1 .. Len(all) + 1
    BY <1>3, <2>2
  <2>4. Len(c) = Len(all) + 1
    BY <1>1, <1>2, <2>3
  <2>5. \A i \in 1 .. Len(all) : c[i] = all[i]
    BY <1>1, <1>3, <1>5, <2>2
  <2>6. c[Len(all) + 1] = IF new.cid = told.cid THEN Filled(new) ELSE new
    BY <1>1, <1>3, <2>2
  <2>7. c[Len(all) + 1] = Filled(new)
    BY <2>6 DEF new, NewContext
  <2>8. Filled(NewContext(told.cid)) = Listed(told)
    <3>. DEFINE x == NewContext(told.cid)
                y == Filled(x)
                z == Listed(told)
    <3>1. Data!IsIms(told.apn) \in BOOLEAN /\ told.apn \in STRING
      BY DEF Data!IsIms, ContextLines
    <3>2. z \in Contexts
      BY <1>1, <3>1 DEF Listed, Contexts
    <3>3. x \in Contexts /\ x.cid = told.cid /\ x.activationKnown = FALSE /\ x.active = FALSE
      BY <1>1 DEF NewContext, Contexts
    <3>. HIDE DEF x
    <3>4. /\ y \in Contexts
          /\ y.cid = x.cid /\ y.activationKnown = x.activationKnown /\ y.active = x.active
          /\ y.known = TRUE /\ y.apn = told.apn
      BY <3>1, <3>3 DEF Contexts, Filled
    <3>5. y.ignored = Data!IsIms(told.apn)
      BY <3>1, <3>3 DEF Contexts, Filled
    <3>6. /\ z.cid = told.cid /\ z.activationKnown = FALSE /\ z.active = FALSE
          /\ z.known = TRUE /\ z.apn = told.apn /\ z.ignored = Data!IsIms(told.apn)
      BY Zenon DEF Listed
    <3>7. \A a, b \in Contexts :
            (/\ a.cid = b.cid /\ (a.known <=> b.known) /\ (a.ignored <=> b.ignored)
             /\ a.apn = b.apn /\ (a.activationKnown <=> b.activationKnown)
             /\ (a.active <=> b.active))
            => a = b
      BY Zenon, SameContext DEF Contexts
    <3>. HIDE DEF y, z
    <3>8. y = z
      BY <3>2, <3>3, <3>4, <3>5, <3>6, <3>7, Zenon
    <3>. QED  BY <3>8 DEF x, y, z
  <2>9. c[Len(all) + 1] = Listed(told)
    BY <2>7, <2>8 DEF new
  <2>. QED  BY <1>1, <1>2, <1>7, <2>4, <2>5, <2>9 DEF c
<1>. QED  BY <1>1, <1>6, <1>7

\* parseCgdccontResponse(): the contexts are those of the lines, as many as fit.
LEMMA ListMeans ==
  ASSUME DataAssumption, NEW response \in Seq(ContextLines),
         \A i, j \in DOMAIN response : response[i].cid = response[j].cid => i = j
  PROVE  LET c == Data!ListContexts(<<>>, response)
         IN  /\ c \in Seq(Contexts)
             /\ Len(c) = IF Len(response) < MaxPdpContexts THEN Len(response) ELSE MaxPdpContexts
             /\ \A i \in 1 .. Len(c) : c[i] = Listed(response[i])
<1>. DEFINE n == Len(response)
            Upto(p) == IF p < MaxPdpContexts THEN p ELSE MaxPdpContexts
<1>1. n \in Nat /\ DOMAIN response = 1 .. n /\ MaxPdpContexts \in Nat \ {0}
      /\ \A p \in 1 .. n : response[p] \in ContextLines
  BY DEF DataAssumption
<1>2. <<>> \in Seq(Contexts)
  OBVIOUS
<1>3. PICK after \in [0 .. n -> Seq(Contexts)] :
           /\ after[0] = <<>>
           /\ \A p \in 1 .. n : after[p] = Data!ListContext(after[p - 1], response[p])
           /\ Data!ListContexts(<<>>, response) = after[n]
  BY <1>2, ListLoop
<1>. DEFINE Good(c, p) == Len(c) = Upto(p) /\ \A i \in 1 .. Len(c) : c[i] = Listed(response[i])
            S == {p \in 0 .. n : Good(after[p], p)}
<1>. HIDE DEF n
<1>4. 0 \in S
  BY <1>1, <1>3
<1>5. ASSUME NEW p \in 1 .. n, p - 1 \in S PROVE p \in S
  <2>. DEFINE all == after[p - 1]
              told == response[p]
              c == after[p]
  <2>1. p - 1 \in 0 .. n /\ p \in 0 .. n
    BY <1>1
  <2>2. all \in Seq(Contexts) /\ told \in ContextLines /\ c = Data!ListContext(all, told)
    BY <1>1, <1>3, <2>1
  <2>3. Len(all) = Upto(p - 1) /\ \A i \in 1 .. Len(all) : all[i] = Listed(response[i])
    BY <1>5
  <2>. HIDE DEF all, c
  <2>4. Len(all) \in Nat /\ Len(all) < p
    BY <1>1, <2>2, <2>3
  <2>5. ~IsListed(all, told.cid)
    <3>. SUFFICES ASSUME NEW i \in 1 .. Len(all) PROVE all[i].cid # told.cid
      BY <2>2 DEF IsListed
    <3>1. all[i].cid = response[i].cid
      <4>1. all[i] = Listed(response[i])
        BY <2>3
      <4>. QED  BY <4>1 DEF Listed
    <3>2. i \in 1 .. n /\ i # p
      BY <1>1, <2>4
    <3>. QED  BY <1>1, <3>1, <3>2
  <2>. HIDE DEF told
  <2>6. /\ c \in Seq(Contexts)
        /\ Len(all) >= MaxPdpContexts => c = all
        /\ Len(all) < MaxPdpContexts =>
             /\ Len(c) = Len(all) + 1
             /\ \A i \in 1 .. Len(all) : c[i] = all[i]
             /\ c[Len(all) + 1] = Listed(told)
    BY <1>1, <2>2, <2>5, ListedContext
  <2>7. CASE Len(all) >= MaxPdpContexts
    <3>1. c = all /\ Upto(p - 1) = Upto(p)
      BY <1>1, <2>3, <2>4, <2>6, <2>7
    <3>. QED  BY <2>1, <2>3, <3>1 DEF c
  <2>8. CASE Len(all) < MaxPdpContexts
    <3>1. Len(all) = p - 1 /\ Len(c) = p /\ Upto(p) = p
      BY <1>1, <2>3, <2>6, <2>8
    <3>2. ASSUME NEW i \in 1 .. p PROVE c[i] = Listed(response[i])
      <4>1. CASE i = p
        BY <1>1, <2>6, <2>8, <3>1, <4>1 DEF told
      <4>2. CASE i # p
        <5>1. i \in 1 .. Len(all)
          BY <1>1, <3>1, <4>2
        <5>. QED  BY <2>3, <2>6, <2>8, <5>1
      <4>. QED  BY <4>1, <4>2
    <3>. QED  BY <2>1, <3>1, <3>2 DEF c
  <2>. QED  BY <1>1, <2>4, <2>7, <2>8
<1>6. n \in S
  <2>. HIDE DEF S
  <2>1. 0 .. n \subseteq S
    BY <1>1, <1>4, <1>5, UpTo
  <2>. QED  BY <1>1, <2>1
<1>7. Good(after[n], n) /\ after[n] \in Seq(Contexts)
  BY <1>1, <1>3, <1>6
<1>. QED  BY <1>3, <1>7 DEF n

\* The elements of two sequences in a row.
LEMMA InARow ==
  ASSUME NEW S, NEW a \in Seq(S), NEW b \in Seq(S)
  PROVE  /\ a \o b \in Seq(S) /\ Len(a \o b) = Len(a) + Len(b)
         /\ \A j \in 1 .. Len(a) : (a \o b)[j] = a[j]
         /\ \A j \in Len(a) + 1 .. Len(a) + Len(b) : (a \o b)[j] = b[j - Len(a)]
  OBVIOUS

\* A sequence without one of its elements.
LEMMA Removed ==
  ASSUME NEW S, NEW s \in Seq(S), NEW i \in DOMAIN s
  PROVE  LET r == Data!RemoveAt(s, i)
         IN  /\ r \in Seq(S) /\ Len(r) = Len(s) - 1
             /\ \A j \in 1 .. Len(r) : r[j] = IF j < i THEN s[j] ELSE s[j + 1]
<1>1. i \in 1 .. Len(s) /\ Len(s) \in Nat
  OBVIOUS
<1>2. Data!RemoveAt(s, i) = SubSeq(s, 1, i - 1) \o SubSeq(s, i + 1, Len(s))
  BY DEF Data!RemoveAt
<1>. DEFINE a == SubSeq(s, 1, i - 1)
            b == SubSeq(s, i + 1, Len(s))
<1>3. a \in Seq(S) /\ Len(a) = i - 1 /\ \A j \in 1 .. i - 1 : a[j] = s[j]
  BY <1>1
<1>4. b \in Seq(S) /\ Len(b) = Len(s) - i /\ \A j \in 1 .. Len(s) - i : b[j] = s[j + i]
  BY <1>1
<1>. HIDE DEF a, b
<1>5. a \o b \in Seq(S) /\ Len(a \o b) = Len(s) - 1
  BY <1>1, <1>3, <1>4
<1>6. ASSUME NEW j \in 1 .. Len(s) - 1 PROVE (a \o b)[j] = IF j < i THEN s[j] ELSE s[j + 1]
  <2>1. CASE j < i
    <3>1. j \in 1 .. i - 1 /\ j \in 1 .. Len(a)
      BY <1>1, <1>3, <2>1
    <3>2. (a \o b)[j] = a[j]
      BY <1>3, <1>4, <3>1
    <3>. QED  BY <1>3, <2>1, <3>1, <3>2
  <2>2. CASE j >= i
    <3>0. j \in Len(a) + 1 .. Len(a) + Len(b)
      <4>1. j \in (i - 1) + 1 .. (i - 1) + (Len(s) - i)
        BY <1>1, <2>2
      <4>2. Len(a) = i - 1 /\ Len(b) = Len(s) - i
        BY <1>3, <1>4
      <4>. QED  BY <4>1, <4>2
    <3>1. (a \o b)[j] = b[j - Len(a)]
      BY <1>3, <1>4, <3>0, InARow
    <3>2. j - Len(a) \in 1 .. Len(s) - i /\ (j - Len(a)) + i = j + 1
      BY <1>1, <1>3, <2>2
    <3>3. b[j - Len(a)] = s[(j - Len(a)) + i]
      BY <1>4, <3>2
    <3>4. ~(j < i)
      BY <1>1, <2>2
    <3>. QED  BY <3>1, <3>2, <3>3, <3>4
  <2>3. j < i \/ j >= i
    BY <1>1
  <2>. QED  BY <2>1, <2>2, <2>3, Zenon
<1>. QED  BY <1>2, <1>5, <1>6 DEF a, b

Snapshots == [ contexts : Seq(Contexts), apn : STRING \cup {""},
               mipCallKnown : BOOLEAN, mipCallActive : BOOLEAN,
               dataConnectionKnown : BOOLEAN, dataConnectionActive : BOOLEAN ]

\* FirstApn of a parser's contexts is that of the lines, as many as fit.
LEMMA ListedNames ==
  ASSUME DataAssumption, NEW response \in Seq(ContextLines),
         \A i, j \in DOMAIN response : response[i].cid = response[j].cid => i = j
  PROVE  Data!FirstApn(Data!ListContexts(<<>>, response)) = Data!FirstNamed(response)
<1>. DEFINE c == Data!ListContexts(<<>>, response)
            A == {i \in DOMAIN c : NamesApn(c[i])}
            B == {i \in DOMAIN response :
                    i <= MaxPdpContexts /\ ~Data!IsIms(response[i].apn) /\ response[i].apn # ""}
<1>1. /\ c \in Seq(Contexts)
      /\ Len(c) = IF Len(response) < MaxPdpContexts THEN Len(response) ELSE MaxPdpContexts
      /\ \A i \in 1 .. Len(c) : c[i] = Listed(response[i])
  BY ListMeans
<1>. HIDE DEF c
<1>2. /\ DOMAIN c = 1 .. Len(c) /\ DOMAIN response = 1 .. Len(response)
      /\ Len(response) \in Nat /\ MaxPdpContexts \in Nat
  BY <1>1 DEF DataAssumption
<1>3. \A told : /\ Listed(told).known = TRUE /\ Listed(told).ignored = Data!IsIms(told.apn)
                /\ Listed(told).apn = told.apn
  BY DEF Listed
<1>4. \A i \in 1 .. Len(c) :
        /\ NamesApn(c[i]) <=> (~Data!IsIms(response[i].apn) /\ response[i].apn # "")
        /\ c[i].apn = response[i].apn
  BY <1>1, <1>3 DEF NamesApn
<1>5. A = B
  <2>1. \A i \in 1 .. Len(response) : i \in 1 .. Len(c) <=> i <= MaxPdpContexts
    BY <1>1, <1>2
  <2>2. 1 .. Len(c) \subseteq 1 .. Len(response)
    BY <1>1, <1>2
  <2>3. A = {i \in 1 .. Len(c) : NamesApn(c[i])}
    BY <1>2
  <2>4. B = {i \in 1 .. Len(response) :
               i <= MaxPdpContexts /\ ~Data!IsIms(response[i].apn) /\ response[i].apn # ""}
    BY <1>2
  <2>. QED  BY <1>4, <2>1, <2>2, <2>3, <2>4, Zenon
<1>6. Data!FirstApn(c) = IF A = {} THEN "" ELSE c[Data!Min(A)].apn
  BY DEF Data!FirstApn, NamesApn
<1>7. Data!FirstNamed(response) = IF B = {} THEN "" ELSE response[Data!Min(B)].apn
  BY DEF Data!FirstNamed
<1>8. A # {} => Data!Min(A) \in A
  <2>1. A \in SUBSET Nat
    BY <1>2
  <2>2. Data!Min(A) = Config!Min(A)
    BY DEF Data!Min, Config!Min
  <2>. HIDE DEF A
  <2>. QED  BY <2>1, <2>2, FirstPlace
<1>9. \A i \in A : c[i].apn = response[i].apn
  BY <1>2, <1>4
<1>. HIDE DEF A, B
<1>10. Data!FirstApn(c) = Data!FirstNamed(response)
  BY <1>5, <1>6, <1>7, <1>8, <1>9
<1>. QED  BY <1>10 DEF c

\* The contexts all and a line of one of them that tells its activation.
ToldBy(all, told, c) ==
  /\ c \in Seq(Contexts) /\ Len(all) <= Len(c) /\ (Len(all) <= MaxPdpContexts => Len(c) <= MaxPdpContexts)
  /\ \A i \in 1 .. Len(all) : /\ (NamesApn(c[i]) <=> NamesApn(all[i])) /\ c[i].apn = all[i].apn
                              /\ c[i].cid = all[i].cid
                              /\ c[i].active => all[i].active \/ (told.state = 1 /\ c[i].cid = told.cid)
  /\ \A i \in Len(all) + 1 .. Len(c) :
       ~NamesApn(c[i]) /\ (c[i].active => told.state = 1 /\ c[i].cid = told.cid)

\* A context after a line of +CGACT that tells of one.
LEMMA ToldContext ==
  ASSUME NEW all \in Seq(Contexts), NEW told \in ActiveLines, MaxPdpContexts \in Nat
  PROVE  ToldBy(all, told, Data!TellActivation(all, told))
<1>. DEFINE w == Data!WithContext(all, told.cid)
            c == Data!TellActivation(all, told)
            Filled(x) == [x EXCEPT !.activationKnown = TRUE, !.active = (told.state = 1)]
            new == NewContext(told.cid)
<1>1. told.cid \in Nat /\ Len(all) \in Nat /\ DOMAIN all = 1 .. Len(all)
      /\ \A i \in 1 .. Len(all) : all[i] \in Contexts
  BY DEF ActiveLines
<1>2. c \in Seq(Contexts)
  BY <1>1, ContextTypes
<1>3. c = [i \in DOMAIN w |-> IF w[i].cid = told.cid THEN Filled(w[i]) ELSE w[i]]
  BY DEF Data!TellActivation
<1>4. \A x \in Contexts :
        /\ (NamesApn(Filled(x)) <=> NamesApn(x)) /\ Filled(x).apn = x.apn /\ Filled(x).cid = x.cid
        /\ Filled(x).active <=> told.state = 1
  BY DEF Contexts, NamesApn
<1>5. new \in Contexts /\ ~NamesApn(new) /\ ~new.active
  BY <1>1, NewContextType DEF NewContext, NamesApn
<1>6. w = IF IsListed(all, told.cid) \/ Len(all) >= MaxPdpContexts THEN all ELSE Append(all, new)
  BY AddedContext
<1>. HIDE DEF c, w, Filled, new
<1>7. /\ DOMAIN w = 1 .. Len(w) /\ Len(w) \in Nat
      /\ \A i \in 1 .. Len(w) : w[i] \in Contexts
      /\ Len(all) <= Len(w) /\ (Len(all) <= MaxPdpContexts => Len(w) <= MaxPdpContexts)
      /\ \A i \in 1 .. Len(all) : w[i] = all[i]
      /\ \A i \in Len(all) + 1 .. Len(w) : w[i] = new
  <2>1. CASE w = all
    BY <1>1, <2>1
  <2>2. CASE Len(all) < MaxPdpContexts /\ w = Append(all, new)
    <3>1. /\ w \in Seq(Contexts) /\ Len(w) = Len(all) + 1 /\ DOMAIN w = 1 .. Len(all) + 1
          /\ \A i \in 1 .. Len(all) : w[i] = all[i]
          /\ w[Len(all) + 1] = new
      BY <1>5, <2>2, LongerSequence
    <3>2. \A i \in 1 .. Len(w) : w[i] \in Contexts
      BY <3>1
    <3>3. \A i \in Len(all) + 1 .. Len(w) : i = Len(all) + 1
      BY <1>1, <3>1
    <3>. QED  BY <1>1, <2>2, <3>1, <3>2, <3>3
  <2>3. w = all \/ (Len(all) < MaxPdpContexts /\ w = Append(all, new))
    <3>1. \A k, l \in Nat : k >= l \/ k < l
      OBVIOUS
    <3>2. Len(all) >= MaxPdpContexts \/ Len(all) < MaxPdpContexts
      BY <1>1, <3>1, Zenon
    <3>. QED  BY <1>6, <3>2, Zenon
  <2>. QED  BY <2>1, <2>2, <2>3, Zenon
<1>8. DOMAIN c = 1 .. Len(w) /\ Len(c) = Len(w)
  BY <1>2, <1>3, <1>7
<1>9. \A i \in 1 .. Len(w) : c[i] = IF w[i].cid = told.cid THEN Filled(w[i]) ELSE w[i]
  BY <1>3, <1>7
<1>10. \A i \in 1 .. Len(w) :
         /\ (NamesApn(c[i]) <=> NamesApn(w[i])) /\ c[i].apn = w[i].apn /\ c[i].cid = w[i].cid
         /\ c[i].active => w[i].active \/ (told.state = 1 /\ c[i].cid = told.cid)
  BY <1>4, <1>7, <1>9
<1>11. 1 .. Len(all) \subseteq 1 .. Len(w) /\ Len(all) + 1 .. Len(w) \subseteq 1 .. Len(w)
  BY <1>1, <1>7
<1>12. \A i \in 1 .. Len(all) :
         /\ (NamesApn(c[i]) <=> NamesApn(all[i])) /\ c[i].apn = all[i].apn
         /\ c[i].cid = all[i].cid
         /\ c[i].active => all[i].active \/ (told.state = 1 /\ c[i].cid = told.cid)
  BY <1>7, <1>10, <1>11
<1>13. \A i \in Len(all) + 1 .. Len(w) :
        ~NamesApn(c[i]) /\ (c[i].active => told.state = 1 /\ c[i].cid = told.cid)
  BY <1>5, <1>7, <1>10, <1>11
<1>14. ToldBy(all, told, c)
  <2>1. \A i \in Len(all) + 1 .. Len(c) :
          ~NamesApn(c[i]) /\ (c[i].active => told.state = 1 /\ c[i].cid = told.cid)
    BY <1>8, <1>13, Zenon
  <2>2. Len(all) <= Len(c) /\ (Len(all) <= MaxPdpContexts => Len(c) <= MaxPdpContexts)
    BY <1>7, <1>8, Zenon
  <2>. QED  BY <1>2, <1>12, <2>1, <2>2 DEF ToldBy
<1>. QED  BY <1>14 DEF c

\* parseCgactResponse(): the activations of the lines, and the same APN.
Told(base, response, c) ==
  /\ c \in Seq(Contexts) /\ Len(c) <= MaxPdpContexts
  /\ Data!FirstApn(c) = Data!FirstApn(base)
  /\ \A i \in DOMAIN c :
       c[i].active => c[i].cid \in {response[j].cid : j \in {k \in DOMAIN response : response[k].state = 1}}

\* The contexts after all lines of +CGACT: those before, active only if told so.
LEMMA TellMeans ==
  ASSUME DataAssumption, NEW base \in Seq(Contexts), NEW response \in Seq(ActiveLines),
         Len(base) <= MaxPdpContexts, \A i \in DOMAIN base : ~base[i].active
  PROVE  Told(base, response, Data!TellActivations(base, response))
<1>. DEFINE n == Len(response)
            b == Len(base)
<1>1. /\ n \in Nat /\ DOMAIN response = 1 .. n /\ MaxPdpContexts \in Nat
      /\ \A p \in 1 .. n : response[p] \in ActiveLines
      /\ b \in Nat /\ b <= MaxPdpContexts /\ DOMAIN base = 1 .. b
  BY DEF DataAssumption
<1>2. PICK after \in [0 .. n -> Seq(Contexts)] :
           /\ after[0] = base
           /\ \A p \in 1 .. n : after[p] = Data!TellActivation(after[p - 1], response[p])
           /\ Data!TellActivations(base, response) = after[n]
  BY TellLoop
<1>. DEFINE Active(c, p) == \A i \in 1 .. Len(c) : c[i].active =>
                   \E j \in 1 .. p : response[j].state = 1 /\ response[j].cid = c[i].cid
            Same(c) == /\ b <= Len(c) /\ Len(c) <= MaxPdpContexts
                       /\ \A i \in 1 .. b : (NamesApn(c[i]) <=> NamesApn(base[i])) /\ c[i].apn = base[i].apn
                       /\ \A i \in b + 1 .. Len(c) : ~NamesApn(c[i])
            S == {p \in 0 .. n : Same(after[p]) /\ Active(after[p], p)}
<1>3. 0 \in S
  <2>1. Same(base)
    BY <1>1
  <2>2. Active(base, 0)
    BY <1>1
  <2>. HIDE DEF Same, Active
  <2>. QED  BY <1>1, <1>2, <2>1, <2>2
<1>. HIDE DEF n, b
<1>4. ASSUME NEW p \in 1 .. n, p - 1 \in S PROVE p \in S
  <2>. DEFINE all == after[p - 1]
              told == response[p]
              c == after[p]
  <2>1. p - 1 \in 0 .. n /\ p \in 0 .. n
    BY <1>1
  <2>2. all \in Seq(Contexts) /\ told \in ActiveLines /\ c = Data!TellActivation(all, told)
    BY <1>1, <1>2, <2>1
  <2>3. Same(all) /\ Active(all, p - 1)
    BY <1>4
  <2>. HIDE DEF all, c
  <2>4. ToldBy(all, told, c)
    <3>. HIDE DEF told
    <3>. QED  BY <1>1, <2>2, ToldContext
  <2>5. Len(all) \in Nat /\ Len(c) \in Nat
    BY <2>2, <2>4 DEF ToldBy
  <2>6. Same(c)
    <3>1. b <= Len(c) /\ Len(c) <= MaxPdpContexts
      BY <1>1, <2>3, <2>4, <2>5 DEF ToldBy
    <3>2. ASSUME NEW i \in 1 .. b PROVE (NamesApn(c[i]) <=> NamesApn(base[i])) /\ c[i].apn = base[i].apn
      <4>1. i \in 1 .. Len(all)
        BY <1>1, <2>3, <2>5
      <4>. QED  BY <2>3, <2>4, <4>1 DEF ToldBy
    <3>3. ASSUME NEW i \in b + 1 .. Len(c) PROVE ~NamesApn(c[i])
      <4>1. CASE i \in b + 1 .. Len(all)
        <5>1. i \in 1 .. Len(all)
          BY <1>1, <2>5, <4>1
        <5>. QED  BY <2>3, <2>4, <4>1, <5>1 DEF ToldBy
      <4>2. CASE i \in Len(all) + 1 .. Len(c)
        BY <2>4, <4>2 DEF ToldBy
      <4>3. i \in b + 1 .. Len(all) \/ i \in Len(all) + 1 .. Len(c)
        BY <1>1, <2>5
      <4>. QED  BY <4>1, <4>2, <4>3
    <3>. QED  BY <3>1, <3>2, <3>3
  <2>7. Active(c, p)
    <3>. SUFFICES ASSUME NEW i \in 1 .. Len(c), c[i].active
                  PROVE  \E j \in 1 .. p : response[j].state = 1 /\ response[j].cid = c[i].cid
      OBVIOUS
    <3>1. CASE told.state = 1 /\ c[i].cid = told.cid
      <4>1. p \in 1 .. p
        BY <1>1
      <4>. QED  BY <3>1, <4>1
    <3>2. CASE ~(told.state = 1 /\ c[i].cid = told.cid)
      <4>1. i \in 1 .. Len(all) \/ i \in Len(all) + 1 .. Len(c)
        BY <2>5
      <4>. HIDE DEF told
      <4>2. i \in 1 .. Len(all) /\ all[i].active /\ all[i].cid = c[i].cid
        BY <2>4, <3>2, <4>1 DEF ToldBy
      <4>3. PICK j \in 1 .. p - 1 : response[j].state = 1 /\ response[j].cid = all[i].cid
        BY <2>3, <4>2
      <4>4. j \in 1 .. p
        BY <1>1, <4>3
      <4>. QED  BY <4>2, <4>3, <4>4
    <3>. QED  BY <3>1, <3>2
  <2>. HIDE DEF Same, Active
  <2>. QED  BY <2>1, <2>6, <2>7 DEF c
<1>5. n \in S
  <2>. HIDE DEF S
  <2>1. 0 .. n \subseteq S
    BY <1>1, <1>3, <1>4, UpTo
  <2>. QED  BY <1>1, <2>1
<1>. DEFINE c == after[n]
<1>6. c \in Seq(Contexts) /\ Same(c) /\ Active(c, n)
  BY <1>1, <1>2, <1>5
<1>. HIDE DEF c
<1>7. DOMAIN c = 1 .. Len(c) /\ Len(c) \in Nat
  BY <1>6
<1>8. Data!FirstApn(c) = Data!FirstApn(base)
  <2>1. ASSUME NEW i \in 1 .. Len(c), i > b PROVE ~NamesApn(c[i])
    <3>1. i \in b + 1 .. Len(c)
      BY <1>1, <1>7, <2>1
    <3>. QED  BY <1>6, <3>1
  <2>2. \A i \in 1 .. b : (NamesApn(base[i]) <=> NamesApn(c[i])) /\ base[i].apn = c[i].apn
    BY <1>6
  <2>3. b <= Len(c)
    BY <1>6
  <2>. QED  BY <1>1, <1>7, <2>1, <2>2, <2>3, SameApn
<1>9. ASSUME NEW i \in DOMAIN c, c[i].active
      PROVE  c[i].cid \in {response[j].cid : j \in {k \in DOMAIN response : response[k].state = 1}}
  BY <1>1, <1>6, <1>7, <1>9
<1>10. Told(base, response, c)
  BY <1>6, <1>8, <1>9 DEF Told
<1>. QED  BY <1>2, <1>10 DEF c

-----------------------------------------------------------------------------
(* The parsers. *)

\* What a parser leaves of the fields that it does not read.
KeepsCall(s, t) == (t.mipCallKnown <=> s.mipCallKnown) /\ (t.mipCallActive <=> s.mipCallActive)

Unsummarised(s, t) ==
  /\ t.apn = s.apn
  /\ t.dataConnectionKnown <=> s.dataConnectionKnown
  /\ t.dataConnectionActive <=> s.dataConnectionActive

Summarised(t) ==
  /\ t.apn = Data!FirstApn(t.contexts)
  /\ t.dataConnectionKnown <=> t.mipCallKnown
  /\ t.dataConnectionActive <=> t.mipCallKnown /\ t.mipCallActive

\* The name of the first context is a text.
LEMMA FirstApnType == ASSUME NEW c \in Seq(Contexts) PROVE Data!FirstApn(c) \in STRING \cup {""}
<1>. DEFINE A == {i \in DOMAIN c : NamesApn(c[i])}
<1>1. Data!FirstApn(c) = IF A = {} THEN "" ELSE c[Data!Min(A)].apn
  BY DEF Data!FirstApn, NamesApn
<1>2. A # {} => Data!Min(A) \in A
  <2>1. A \in SUBSET Nat
    OBVIOUS
  <2>2. Data!Min(A) = Config!Min(A)
    BY DEF Data!Min, Config!Min
  <2>. HIDE DEF A
  <2>. QED  BY <2>1, <2>2, FirstPlace
<1>3. \A i \in A : c[i].apn \in STRING \cup {""}
  <2>1. \A i \in DOMAIN c : c[i] \in Contexts
    OBVIOUS
  <2>2. \A x \in Contexts : x.apn \in STRING \cup {""}
    BY Zenon DEF Contexts
  <2>. QED  BY <2>1, <2>2, Zenon
<1>. HIDE DEF A
<1>. QED  BY <1>1, <1>2, <1>3, Zenon

\* updateDataConnectionSummary() shows the first name and the state of the call.
LEMMA SummaryMeans ==
  ASSUME NEW s \in Snapshots
  PROVE  /\ Data!Summary(s) \in Snapshots /\ Data!Summary(s).contexts = s.contexts
         /\ KeepsCall(s, Data!Summary(s)) /\ Summarised(Data!Summary(s))
<1>. DEFINE f == Data!FirstApn(s.contexts)
            t == Data!Summary(s)
<1>1. f \in STRING \cup {""}
  BY FirstApnType DEF Snapshots
<1>2. t = [s EXCEPT !.apn = f, !.dataConnectionKnown = s.mipCallKnown,
                    !.dataConnectionActive = s.mipCallKnown /\ s.mipCallActive]
  BY DEF Data!Summary
<1>. HIDE DEF f, t
<1>3. t \in Snapshots /\ t.contexts = s.contexts /\ t.apn = f
  BY <1>1, <1>2 DEF Snapshots
<1>4. KeepsCall(s, t)
  BY <1>2 DEF Snapshots, KeepsCall
<1>5. (t.dataConnectionKnown <=> s.mipCallKnown) /\ (t.dataConnectionActive <=> s.mipCallKnown /\ s.mipCallActive)
  BY <1>2 DEF Snapshots
<1>6. Summarised(t)
  BY <1>3, <1>4, <1>5 DEF Summarised, KeepsCall, f
<1>. QED  BY <1>3, <1>4, <1>6 DEF t

\* A new list of contexts in a snapshot.
LEMMA WithContexts ==
  ASSUME NEW s \in Snapshots, NEW c \in Seq(Contexts)
  PROVE  LET t == [s EXCEPT !.contexts = c]
         IN  t \in Snapshots /\ t.contexts = c /\ KeepsCall(s, t) /\ Unsummarised(s, t)
BY DEF Snapshots, KeepsCall, Unsummarised

\* parseCgdccontResponse()
ListParsed(s, response, t) ==
  /\ t \in Snapshots /\ t.contexts = Data!ListContexts(<<>>, response) /\ KeepsCall(s, t)
  /\ IF response = <<>> THEN Unsummarised(s, t) ELSE Summarised(t)

\* parsePdpContexts() lists the contexts of the answer,
LEMMA ListParse ==
  ASSUME DataAssumption, NEW s \in Snapshots, NEW response \in Seq(ContextLines),
         \A i, j \in DOMAIN response : response[i].cid = response[j].cid => i = j
  PROVE  ListParsed(s, response, Data!ParseCgdcont(s, response).snapshot)
<1>. DEFINE c == Data!ListContexts(<<>>, response)
            t == [s EXCEPT !.contexts = c]
<1>1. c \in Seq(Contexts)
  BY ListMeans
<1>2. t \in Snapshots /\ t.contexts = c /\ KeepsCall(s, t) /\ Unsummarised(s, t)
  <2>. HIDE DEF c
  <2>. QED  BY <1>1, WithContexts
<1>3. Data!ParseCgdcont(s, response).snapshot =
        IF Data!LinesOf(response, "+CGDCONT:") = {} THEN t ELSE Data!Summary(t)
  BY DEF Data!ParseCgdcont, Data!Parsed
<1>4. Data!LinesOf(response, "+CGDCONT:") = {} <=> response = <<>>
  <2>0. \A i \in DOMAIN response : response[i] \in ContextLines
    OBVIOUS
  <2>1. \A i \in DOMAIN response : response[i].prefix = "+CGDCONT:"
    BY <2>0 DEF ContextLines
  <2>2. Data!LinesOf(response, "+CGDCONT:") = DOMAIN response
    BY <2>1 DEF Data!LinesOf
  <2>. QED  BY <2>2
<1>5. /\ Data!Summary(t) \in Snapshots /\ Data!Summary(t).contexts = c
      /\ KeepsCall(t, Data!Summary(t)) /\ Summarised(Data!Summary(t))
  <2>. HIDE DEF t
  <2>. QED  BY <1>2, SummaryMeans
<1>. HIDE DEF t
<1>6. KeepsCall(s, Data!Summary(t))
  BY <1>2, <1>5 DEF KeepsCall
<1>. HIDE DEF c
<1>. QED  BY <1>2, <1>3, <1>4, <1>5, <1>6 DEF ListParsed, c

\* parseCgactResponse()
TellParsed(s, response, t) ==
  /\ t \in Snapshots /\ Len(t.contexts) <= MaxPdpContexts /\ KeepsCall(s, t)
  /\ Data!FirstApn(t.contexts) = Data!FirstApn(s.contexts)
  /\ \A i \in DOMAIN t.contexts :
       t.contexts[i].active =>
         t.contexts[i].cid \in {response[j].cid : j \in {k \in DOMAIN response : response[k].state = 1}}
  /\ Unsummarised(s, t) \/ Summarised(t)

\* and parseCgactResponse() tells which of them are active.
LEMMA TellParse ==
  ASSUME DataAssumption, NEW s \in Snapshots, Len(s.contexts) <= MaxPdpContexts,
         NEW response \in Seq(ActiveLines)
  PROVE  TellParsed(s, response, Data!ParseCgact(s, response).snapshot)
<1>. DEFINE old == s.contexts
            base == [i \in DOMAIN old |-> [old[i] EXCEPT !.activationKnown = FALSE, !.active = FALSE]]
            c == Data!TellActivations(base, response)
            t == [s EXCEPT !.contexts = c]
<1>1. /\ old \in Seq(Contexts) /\ DOMAIN old = 1 .. Len(old) /\ Len(old) \in Nat
      /\ \A i \in 1 .. Len(old) : old[i] \in Contexts
  <2>1. old \in Seq(Contexts)
    BY DEF Snapshots
  <2>. HIDE DEF old
  <2>. QED  BY <2>1
<1>2. Len(old) <= MaxPdpContexts
  OBVIOUS
<1>. HIDE DEF old
<1>3. \A x \in Contexts :
        LET y == [x EXCEPT !.activationKnown = FALSE, !.active = FALSE]
        IN  y \in Contexts /\ (NamesApn(y) <=> NamesApn(x)) /\ y.apn = x.apn /\ ~y.active
  BY DEF Contexts, NamesApn
<1>4. base = [i \in 1 .. Len(old) |-> base[i]] /\ \A i \in 1 .. Len(old) : base[i] \in Contexts
  BY <1>1, <1>3
<1>5. \A i \in 1 .. Len(old) :
        (NamesApn(old[i]) <=> NamesApn(base[i])) /\ old[i].apn = base[i].apn /\ ~base[i].active
  BY <1>1, <1>3
<1>. HIDE DEF base
<1>6. base \in Seq(Contexts) /\ Len(base) = Len(old) /\ DOMAIN base = 1 .. Len(old)
  BY <1>1, <1>4, SequenceOf
<1>7. Data!FirstApn(base) = Data!FirstApn(old)
  <2>. DEFINE m == Len(old)
  <2>1. m \in Nat /\ m <= m /\ DOMAIN old = 1 .. m /\ DOMAIN base = 1 .. m
    BY <1>1, <1>6
  <2>2. \A i \in 1 .. m : i > m => ~NamesApn(base[i])
    BY <1>1
  <2>3. \A i \in 1 .. m : (NamesApn(old[i]) <=> NamesApn(base[i])) /\ old[i].apn = base[i].apn
    BY <1>5
  <2>. HIDE DEF m
  <2>. QED  BY <2>1, <2>2, <2>3, SameApn
<1>8. Told(base, response, c)
  <2>1. Len(base) <= MaxPdpContexts /\ \A i \in DOMAIN base : ~base[i].active
    BY <1>2, <1>5, <1>6
  <2>. QED  BY <1>6, <2>1, TellMeans
<1>. HIDE DEF c
<1>9. t \in Snapshots /\ t.contexts = c /\ KeepsCall(s, t) /\ Unsummarised(s, t)
  BY <1>8, WithContexts DEF Told
<1>10. Data!ParseCgact(s, response).snapshot =
        IF Data!LinesOf(response, "+CGACT:") = {} THEN t ELSE Data!Summary(t)
  BY DEF Data!ParseCgact, Data!Parsed, old, base, c
<1>11. /\ Data!Summary(t) \in Snapshots /\ Data!Summary(t).contexts = c
       /\ KeepsCall(t, Data!Summary(t)) /\ Summarised(Data!Summary(t))
  <2>. HIDE DEF t
  <2>. QED  BY <1>9, SummaryMeans
<1>. HIDE DEF t
<1>12. KeepsCall(s, Data!Summary(t))
  BY <1>9, <1>11 DEF KeepsCall
<1>13. \A u : u \in {t, Data!Summary(t)} => TellParsed(s, response, u)
  <2>1. TellParsed(s, response, t)
    BY <1>7, <1>8, <1>9 DEF TellParsed, Told, old
  <2>2. TellParsed(s, response, Data!Summary(t))
    BY <1>7, <1>8, <1>11, <1>12 DEF TellParsed, Told, old
  <2>. QED  BY <2>1, <2>2
<1>. QED  BY <1>10, <1>13

-----------------------------------------------------------------------------
(* The answers of the modem. *)

DataCommands == ({"status"} \X {"CGDCONT?", "CGACT?", "MIPCALL?"})
           \cup ({"guard"} \X {"MIPCALL?", "MIPCALL=0"})

\* The APN of the contexts, and the one shown, are that of the listing before,
\* or none after a listing without a line.
NamesFirst ==
  /\ Data!FirstApn(snapshot.contexts) \in {"", Data!FirstNamed(listed)}
  /\ snapshot.apn \in {"", Data!FirstNamed(listed)}
  /\ fresh => /\ Data!FirstApn(snapshot.contexts) = Data!FirstNamed(listed)
              /\ snapshot.apn = Data!FirstNamed(listed)

ActiveTold ==
  \A i \in DOMAIN snapshot.contexts :
    snapshot.contexts[i].active => snapshot.contexts[i].cid \in activeTold

CallAsTold ==
  callTold # "nothing" =>
    /\ snapshot.mipCallKnown /\ (snapshot.mipCallActive <=> callTold = "up")
    /\ snapshot.dataConnectionKnown /\ (snapshot.dataConnectionActive <=> callTold = "up")

DataInv ==
  /\ snapshot \in Snapshots /\ Len(snapshot.contexts) <= MaxPdpContexts
  /\ channel \in Seq(DataCommands) /\ query \in 1 .. 3 /\ modem \in Data!Modems
  /\ NamesFirst
  /\ ActiveTold
  /\ ~BareOk => CallAsTold

\* The lines of an answer.
LEMMA ModemContexts ==
  ASSUME DataAssumption, modem \in Data!Modems
  PROVE  /\ modem.contexts \in Seq([cid : Nat, apn : STRING])
         /\ \A i, j \in DOMAIN modem.contexts : modem.contexts[i].cid = modem.contexts[j].cid => i = j
<1>1. PICK l \in Listings, b \in BOOLEAN : modem = [contexts |-> l.contexts, active |-> l.active, call |-> b]
  BY DEF Data!Modems
<1>2. modem.contexts = l.contexts
  BY <1>1
<1>. QED  BY <1>2 DEF DataAssumption

\* The answer to +CGDCONT? lists what the modem has,
LEMMA ListingAnswer ==
  ASSUME DataAssumption, modem \in Data!Modems, NEW response \in Data!Answers("CGDCONT?")
  PROVE  /\ response \in Seq(ContextLines)
         /\ \A i, j \in DOMAIN response : response[i].cid = response[j].cid => i = j
<1>. DEFINE all == modem.contexts
            full == [i \in DOMAIN all |-> [prefix |-> "+CGDCONT:", cid |-> all[i].cid, apn |-> all[i].apn]]
<1>1. /\ all \in Seq([cid : Nat, apn : STRING]) /\ DOMAIN all = 1 .. Len(all) /\ Len(all) \in Nat
      /\ \A i, j \in DOMAIN all : all[i].cid = all[j].cid => i = j
  BY ModemContexts
<1>2. full = Data!FullAnswer("CGDCONT?")
  BY DEF Data!FullAnswer
<1>. HIDE DEF all
<1>3. \A i \in 1 .. Len(all) : all[i] \in [cid : Nat, apn : STRING]
  <2>. DEFINE R == [cid : Nat, apn : STRING]
  <2>1. all \in Seq(R) /\ DOMAIN all = 1 .. Len(all)
    BY <1>1
  <2>. HIDE DEF R
  <2>2. \A i \in 1 .. Len(all) : all[i] \in R
    BY <2>1
  <2>. QED  BY <2>2 DEF R
<1>4. full = [i \in 1 .. Len(all) |-> full[i]]
      /\ \A i \in 1 .. Len(all) : full[i] \in ContextLines /\ full[i].cid = all[i].cid
  BY <1>1, <1>3 DEF ContextLines
<1>. HIDE DEF full
<1>5. full \in Seq(ContextLines) /\ Len(full) = Len(all) /\ DOMAIN full = 1 .. Len(all)
  BY <1>1, <1>4, SequenceOf
<1>6. \A i, j \in DOMAIN full : full[i].cid = full[j].cid => i = j
  BY <1>1, <1>4, <1>5
<1>7. CASE response = full
  BY <1>5, <1>6, <1>7
<1>8. CASE \E i \in DOMAIN full : response = Data!RemoveAt(full, i)
  <2>1. PICK i \in DOMAIN full : response = Data!RemoveAt(full, i)
    BY <1>8
  <2>2. /\ response \in Seq(ContextLines) /\ Len(response) = Len(full) - 1
        /\ \A j \in 1 .. Len(response) : response[j] = IF j < i THEN full[j] ELSE full[j + 1]
    BY <1>5, <2>1, Removed
  <2>3. ASSUME NEW j \in DOMAIN response, NEW k \in DOMAIN response, response[j].cid = response[k].cid
        PROVE  j = k
    <3>1. j \in 1 .. Len(response) /\ k \in 1 .. Len(response) /\ Len(response) + 1 = Len(all) /\ i \in 1 .. Len(all)
      BY <1>1, <1>5, <2>2
    <3>2. \A m \in 1 .. Len(response) : m \in DOMAIN full /\ m + 1 \in DOMAIN full
      BY <1>1, <1>5, <2>2
    <3>. DEFINE At(m) == IF m < i THEN m ELSE m + 1
    <3>3. At(j) \in DOMAIN full /\ At(k) \in DOMAIN full /\ full[At(j)].cid = full[At(k)].cid
      BY <2>2, <2>3, <3>1, <3>2
    <3>4. At(j) = At(k)
      <4>. HIDE DEF At
      <4>. QED  BY <1>6, <3>3
    <3>. QED  BY <3>1, <3>4
  <2>. QED  BY <2>2, <2>3
<1>. QED  BY <1>2, <1>7, <1>8 DEF Data!Answers

\* that to +CGACT? tells which of it is active,
LEMMA ActivationAnswer ==
  ASSUME DataAssumption, modem \in Data!Modems, NEW response \in Data!Answers("CGACT?")
  PROVE  response \in Seq(ActiveLines)
<1>. DEFINE all == modem.contexts
            full == [i \in DOMAIN all |-> [prefix |-> "+CGACT:", cid |-> all[i].cid,
                                           state |-> IF all[i].cid \in modem.active THEN 1 ELSE 0]]
<1>1. all \in Seq([cid : Nat, apn : STRING]) /\ DOMAIN all = 1 .. Len(all) /\ Len(all) \in Nat
  BY ModemContexts
<1>2. full = Data!FullAnswer("CGACT?")
  BY DEF Data!FullAnswer
<1>. HIDE DEF all
<1>3. \A i \in 1 .. Len(all) : all[i] \in [cid : Nat, apn : STRING]
  <2>. DEFINE R == [cid : Nat, apn : STRING]
  <2>1. all \in Seq(R) /\ DOMAIN all = 1 .. Len(all)
    BY <1>1
  <2>. HIDE DEF R
  <2>2. \A i \in 1 .. Len(all) : all[i] \in R
    BY <2>1
  <2>. QED  BY <2>2 DEF R
<1>4. full = [i \in 1 .. Len(all) |-> full[i]] /\ \A i \in 1 .. Len(all) : full[i] \in ActiveLines
  BY <1>1, <1>3 DEF ActiveLines
<1>. HIDE DEF full
<1>5. full \in Seq(ActiveLines)
  BY <1>1, <1>4, SequenceOf
<1>6. \A i \in DOMAIN full : Data!RemoveAt(full, i) \in Seq(ActiveLines)
  BY <1>5, Removed
<1>. QED  BY <1>2, <1>5, <1>6 DEF Data!Answers

\* and that to +MIPCALL? whether there is a call.
LEMMA CallAnswer ==
  ASSUME NEW response \in Data!Answers("MIPCALL?"), ~BareOk
  PROVE  /\ Data!FullAnswer("MIPCALL?") # <<>>
         /\ response \in {<<>>, <<[prefix |-> "+MIPCALL:", cid |-> 1, state |-> IF modem.call THEN 1 ELSE 0]>>}
<1>. DEFINE l == [prefix |-> "+MIPCALL:", cid |-> 1, state |-> IF modem.call THEN 1 ELSE 0]
<1>1. Data!FullAnswer("MIPCALL?") = <<l>>
  BY DEF Data!FullAnswer
<1>. HIDE DEF l
<1>2. \A i \in DOMAIN <<l>> : Data!RemoveAt(<<l>>, i) = <<>>
  <2>1. \A i \in DOMAIN <<l>> : i = 1
    OBVIOUS
  <2>2. <<l>> \in Seq({l}) /\ 1 \in DOMAIN <<l>> /\ Len(<<l>>) = 1
    OBVIOUS
  <2>. DEFINE one == <<l>>
              S == {l}
  <2>3. Data!RemoveAt(<<l>>, 1) \in Seq({l}) /\ Len(Data!RemoveAt(<<l>>, 1)) = 0
    <3>1. one \in Seq(S) /\ 1 \in DOMAIN one /\ Len(one) = 1
      BY <2>2
    <3>. HIDE DEF one, S
    <3>2. Data!RemoveAt(one, 1) \in Seq(S) /\ Len(Data!RemoveAt(one, 1)) = Len(one) - 1
      BY <3>1, Removed
    <3>3. Len(Data!RemoveAt(one, 1)) = 0
      BY <3>1, <3>2
    <3>. QED  BY <3>2, <3>3 DEF one, S
  <2>4. Data!RemoveAt(<<l>>, 1) = <<>>
    BY <2>3
  <2>. QED  BY <2>1, <2>4
<1>3. response = <<l>> \/ \E i \in DOMAIN <<l>> : response = Data!RemoveAt(<<l>>, i)
  BY <1>1 DEF Data!Answers
<1>. QED  BY <1>1, <1>2, <1>3 DEF l

-----------------------------------------------------------------------------
(* What is shown. *)

\* parseMipCallResponse()
LEMMA CallParse ==
  ASSUME NEW s \in Snapshots, NEW response
  PROVE  LET t == Data!ParseMipCall(s, response).snapshot
         IN  /\ t \in Snapshots /\ t.contexts = s.contexts
             /\ t = s \/ Summarised(t)
             /\ response = <<>> => t = s
<1>. DEFINE ls == Data!LinesOf(response, "+MIPCALL:")
            act == (response[Data!Min(ls)].state = 1)
            u == [s EXCEPT !.mipCallKnown = TRUE, !.mipCallActive = act]
            t == Data!ParseMipCall(s, response).snapshot
<1>1. t = IF ls = {} THEN s ELSE Data!Summary(u)
  BY DEF Data!ParseMipCall, Data!Parsed
<1>2. \A a \in BOOLEAN : LET v == [s EXCEPT !.mipCallKnown = TRUE, !.mipCallActive = a]
                         IN  v \in Snapshots /\ v.contexts = s.contexts
  BY DEF Snapshots
<1>3. act \in BOOLEAN
  OBVIOUS
<1>4. u \in Snapshots /\ u.contexts = s.contexts
  <2>. HIDE DEF act
  <2>. QED  BY <1>2, <1>3
<1>. HIDE DEF u
<1>5. Data!Summary(u) \in Snapshots /\ Data!Summary(u).contexts = s.contexts /\ Summarised(Data!Summary(u))
  BY <1>4, SummaryMeans
<1>6. response = <<>> => ls = {}
  BY DEF Data!LinesOf
<1>. HIDE DEF ls, t
<1>7. t \in Snapshots /\ t.contexts = s.contexts /\ (t = s \/ Summarised(t)) /\ (response = <<>> => t = s)
  BY <1>1, <1>5, <1>6
<1>. QED  BY <1>7 DEF t

\* The same of the line that a modem with a line for every state answers.
LEMMA CallLineParse ==
  ASSUME NEW s \in Snapshots, NEW n \in {0, 1}
  PROVE  LET t == Data!ParseMipCall(s, <<[prefix |-> "+MIPCALL:", cid |-> 1, state |-> n]>>).snapshot
         IN  t.mipCallKnown /\ (t.mipCallActive <=> n = 1) /\ Summarised(t)
<1>. DEFINE l == [prefix |-> "+MIPCALL:", cid |-> 1, state |-> n]
            response == <<l>>
            ls == Data!LinesOf(response, "+MIPCALL:")
            u == [s EXCEPT !.mipCallKnown = TRUE, !.mipCallActive = (n = 1)]
            t == Data!ParseMipCall(s, response).snapshot
<1>1. l.prefix = "+MIPCALL:" /\ l.state = n
  OBVIOUS
<1>. HIDE DEF l
<1>2. ls = {1}
  BY <1>1 DEF Data!LinesOf
<1>3. Data!Min(ls) = 1
  <2>1. Data!Min({1}) = Config!Min({1})
    BY DEF Data!Min, Config!Min
  <2>2. Config!Min({1}) \in {1}
    BY FirstPlace
  <2>. QED  BY <1>2, <2>1, <2>2
<1>4. t = Data!Summary(u)
  <2>1. response[Data!Min(ls)].state = n
    <3>1. response[1] = l
      OBVIOUS
    <3>. HIDE DEF response, ls
    <3>. QED  BY <1>1, <1>3, <3>1
  <2>2. ls # {}
    BY <1>2
  <2>3. t = IF ls = {} THEN s ELSE Data!Summary([s EXCEPT !.mipCallKnown = TRUE,
              !.mipCallActive = (response[Data!Min(ls)].state = 1)])
    BY DEF Data!ParseMipCall, Data!Parsed
  <2>. HIDE DEF t, response, ls
  <2>. QED  BY <2>1, <2>2, <2>3
<1>5. u \in Snapshots /\ u.mipCallKnown /\ (u.mipCallActive <=> n = 1)
  BY DEF Snapshots
<1>. HIDE DEF u
<1>6. KeepsCall(u, Data!Summary(u)) /\ Summarised(Data!Summary(u))
  BY <1>5, SummaryMeans
<1>7. t.mipCallKnown /\ (t.mipCallActive <=> n = 1) /\ Summarised(t)
  <2>. HIDE DEF t
  <2>. QED  BY <1>4, <1>5, <1>6 DEF KeepsCall
<1>. QED  BY <1>7 DEF t, response, l

\* cellularStatusSetDataConnection()
LEMMA Disconnected ==
  ASSUME NEW s \in Snapshots
  PROVE  LET t == Data!SetDisconnected(s)
         IN  /\ t \in Snapshots /\ t.contexts = s.contexts /\ t.apn = s.apn
             /\ t.mipCallKnown /\ ~t.mipCallActive /\ t.dataConnectionKnown /\ ~t.dataConnectionActive
BY DEF Snapshots, Data!SetDisconnected

\* What an answer does to what is shown and to what was told.
ContextsStay ==
  /\ snapshot'.contexts = snapshot.contexts
  /\ snapshot'.apn \in {snapshot.apn, Data!FirstApn(snapshot.contexts)}
  /\ UNCHANGED <<listed, fresh, activeTold>>

NothingShown == UNCHANGED <<snapshot, listed, fresh, activeTold, callTold>>

ListingShown ==
  \E response \in Seq(ContextLines) :
    /\ \A i, j \in DOMAIN response : response[i].cid = response[j].cid => i = j
    /\ ListParsed(snapshot, response, snapshot')
    /\ listed' = IF response # <<>> THEN response ELSE listed
    /\ fresh' = (response # <<>>)
    /\ UNCHANGED <<activeTold, callTold>>

ActivationShown ==
  \E response \in Seq(ActiveLines) :
    /\ TellParsed(snapshot, response, snapshot')
    /\ activeTold' = {response[i].cid : i \in {j \in DOMAIN response : response[j].state = 1}}
    /\ UNCHANGED <<listed, fresh, callTold>>

CallShown ==
  /\ ContextsStay /\ snapshot' \in Snapshots
  /\ ~BareOk => \/ UNCHANGED <<snapshot, callTold>>
                \/ /\ callTold' \in {"up", "down"}
                   /\ snapshot'.mipCallKnown /\ (snapshot'.mipCallActive <=> callTold' = "up")
                   /\ snapshot'.dataConnectionKnown
                   /\ snapshot'.dataConnectionActive <=> callTold' = "up"

Shown == NothingShown \/ ListingShown \/ ActivationShown \/ CallShown

\* What the status client does with an answer,
LEMMA StatusShows ==
  ASSUME DataAssumption, DataInv,
         NEW cmd \in {"CGDCONT?", "CGACT?", "MIPCALL?"}, NEW result \in {"Ok", "Error", "Timeout"},
         NEW response \in (IF result = "Ok" THEN Data!Answers(cmd) ELSE {<<>>}),
         Data!StatusResult(cmd, result, response)
  PROVE  Shown
<1>1. snapshot \in Snapshots /\ Len(snapshot.contexts) <= MaxPdpContexts /\ modem \in Data!Modems
  BY DEF DataInv
<1>2. CASE result # "Ok"
  BY <1>2 DEF Data!StatusResult, Shown, NothingShown
<1>3. CASE result = "Ok" /\ cmd = "CGDCONT?"
  <2>1. response \in Data!Answers("CGDCONT?")
    BY <1>3
  <2>2. /\ response \in Seq(ContextLines)
        /\ \A i, j \in DOMAIN response : response[i].cid = response[j].cid => i = j
    BY <1>1, <2>1, ListingAnswer
  <2>3. snapshot' = Data!ParseCgdcont(snapshot, response).snapshot
    BY <1>3 DEF Data!StatusResult, Data!ParseStep
  <2>4. ListParsed(snapshot, response, snapshot')
    BY <1>1, <2>2, <2>3, ListParse
  <2>5. /\ listed' = IF response # <<>> THEN response ELSE listed
        /\ fresh' = (response # <<>>) /\ UNCHANGED <<activeTold, callTold>>
    BY <1>3 DEF Data!StatusResult
  <2>6. ListingShown
    BY <2>2, <2>4, <2>5 DEF ListingShown
  <2>. QED  BY <2>6 DEF Shown
<1>4. CASE result = "Ok" /\ cmd = "CGACT?"
  <2>1. response \in Data!Answers("CGACT?")
    BY <1>4
  <2>2. response \in Seq(ActiveLines)
    BY <1>1, <2>1, ActivationAnswer
  <2>3. snapshot' = Data!ParseCgact(snapshot, response).snapshot
    BY <1>4 DEF Data!StatusResult, Data!ParseStep
  <2>4. TellParsed(snapshot, response, snapshot')
    BY <1>1, <2>2, <2>3, TellParse
  <2>5. /\ activeTold' = {response[i].cid : i \in {j \in DOMAIN response : response[j].state = 1}}
        /\ UNCHANGED <<listed, fresh, callTold>>
    BY <1>4 DEF Data!StatusResult
  <2>6. ActivationShown
    BY <2>2, <2>4, <2>5 DEF ActivationShown
  <2>. QED  BY <2>6 DEF Shown
<1>5. CASE result = "Ok" /\ cmd = "MIPCALL?"
  <2>1. response \in Data!Answers("MIPCALL?")
    BY <1>5
  <2>2. snapshot' = Data!ParseMipCall(snapshot, response).snapshot
    BY <1>5 DEF Data!StatusResult, Data!ParseStep
  <2>3. /\ snapshot' \in Snapshots /\ snapshot'.contexts = snapshot.contexts
        /\ snapshot' = snapshot \/ Summarised(snapshot')
        /\ response = <<>> => snapshot' = snapshot
    BY <1>1, <2>2, CallParse
  <2>4. UNCHANGED <<listed, fresh, activeTold>> /\ callTold' = Data!Told(cmd, response)
    BY <1>5 DEF Data!StatusResult
  <2>5. ContextsStay
    BY <2>3, <2>4 DEF ContextsStay, Summarised
  <2>6. ASSUME ~BareOk
        PROVE  \/ UNCHANGED <<snapshot, callTold>>
               \/ /\ callTold' \in {"up", "down"}
                  /\ snapshot'.mipCallKnown /\ (snapshot'.mipCallActive <=> callTold' = "up")
                  /\ snapshot'.dataConnectionKnown
                  /\ snapshot'.dataConnectionActive <=> callTold' = "up"
    <3>. DEFINE n == IF modem.call THEN 1 ELSE 0
                l == [prefix |-> "+MIPCALL:", cid |-> 1, state |-> n]
    <3>1. Data!FullAnswer("MIPCALL?") # <<>> /\ response \in {<<>>, <<l>>}
      BY <2>1, <2>6, CallAnswer
    <3>2. CASE response = <<>>
      BY <1>5, <2>3, <2>4, <3>1, <3>2 DEF Data!Told
    <3>3. CASE response = <<l>>
      <4>1. callTold' = IF modem.call THEN "up" ELSE "down"
        BY <2>4, <3>3 DEF Data!Told
      <4>2. n \in {0, 1} /\ (n = 1 <=> callTold' = "up") /\ callTold' \in {"up", "down"}
        BY <4>1
      <4>. HIDE DEF n
      <4>3. /\ snapshot'.mipCallKnown /\ (snapshot'.mipCallActive <=> n = 1) /\ Summarised(snapshot')
        BY <1>1, <2>2, <3>3, <4>2, CallLineParse
      <4>. QED  BY <4>2, <4>3 DEF Summarised
    <3>. QED  BY <3>1, <3>2, <3>3
  <2>7. CallShown
    BY <2>3, <2>5, <2>6 DEF CallShown
  <2>. QED  BY <2>7 DEF Shown
<1>. QED  BY <1>2, <1>3, <1>4, <1>5

\* and what the PDP guard does.
LEMMA GuardShows ==
  ASSUME DataInv, NEW cmd, NEW result, NEW response, Data!GuardResult(cmd, result, response)
  PROVE  Shown
<1>1. CASE cmd = "MIPCALL=0" /\ result = "Ok"
  <2>1. snapshot \in Snapshots /\ snapshot' = Data!SetDisconnected(snapshot) /\ callTold' = "down"
        /\ UNCHANGED <<listed, fresh, activeTold>>
    BY <1>1 DEF DataInv, Data!GuardResult
  <2>2. /\ snapshot' \in Snapshots /\ snapshot'.contexts = snapshot.contexts /\ snapshot'.apn = snapshot.apn
        /\ snapshot'.mipCallKnown /\ ~snapshot'.mipCallActive
        /\ snapshot'.dataConnectionKnown /\ ~snapshot'.dataConnectionActive
    BY <2>1, Disconnected
  <2>3. CallShown
    BY <2>1, <2>2 DEF CallShown, ContextsStay
  <2>. QED  BY <2>3 DEF Shown
<1>2. CASE ~(cmd = "MIPCALL=0" /\ result = "Ok")
  <2>1. NothingShown
    BY <1>2 DEF NothingShown, Data!GuardResult
  <2>. QED  BY <2>1 DEF Shown
<1>. QED  BY <1>1, <1>2

SnapshotInv ==
  /\ snapshot \in Snapshots /\ Len(snapshot.contexts) <= MaxPdpContexts
  /\ NamesFirst
  /\ ActiveTold
  /\ ~BareOk => CallAsTold

\* An answer that is shown keeps the page to what the modem told.
LEMMA ShownInv ==
  ASSUME DataAssumption, SnapshotInv, Shown
  PROVE  SnapshotInv'
<1>1. CASE NothingShown
  BY <1>1 DEF NothingShown, SnapshotInv, NamesFirst, ActiveTold, CallAsTold
<1>2. CASE ListingShown
  <2>1. PICK response \in Seq(ContextLines) :
          /\ \A i, j \in DOMAIN response : response[i].cid = response[j].cid => i = j
          /\ ListParsed(snapshot, response, snapshot')
          /\ listed' = IF response # <<>> THEN response ELSE listed
          /\ fresh' = (response # <<>>)
          /\ UNCHANGED <<activeTold, callTold>>
    BY <1>2 DEF ListingShown
  <2>. DEFINE c == snapshot'.contexts
  <2>2. /\ snapshot' \in Snapshots /\ c = Data!ListContexts(<<>>, response)
        /\ KeepsCall(snapshot, snapshot')
        /\ IF response = <<>> THEN Unsummarised(snapshot, snapshot') ELSE Summarised(snapshot')
    BY <2>1 DEF ListParsed
  <2>3. /\ Len(c) = IF Len(response) < MaxPdpContexts THEN Len(response) ELSE MaxPdpContexts
        /\ \A i \in 1 .. Len(c) : c[i] = Listed(response[i])
        /\ c \in Seq(Contexts)
    BY <2>1, <2>2, ListMeans
  <2>4. Data!FirstApn(c) = Data!FirstNamed(response)
    BY <2>1, <2>2, ListedNames
  <2>5. Data!FirstNamed(<<>>) = ""
    BY DEF Data!FirstNamed
  <2>6. Len(c) <= MaxPdpContexts
    <3>. HIDE DEF c
    <3>1. Len(response) \in Nat /\ MaxPdpContexts \in Nat
      BY DEF DataAssumption
    <3>. QED  BY <2>3, <3>1
  <2>7. NamesFirst'
    <3>1. CASE response = <<>>
      <4>1. Data!FirstApn(c) = "" /\ snapshot'.apn = snapshot.apn /\ listed' = listed /\ ~fresh'
        BY <2>1, <2>2, <2>4, <2>5, <3>1 DEF Unsummarised
      <4>. QED  BY <4>1 DEF NamesFirst, SnapshotInv, Data!FirstNamed
    <3>2. CASE response # <<>>
      <4>1. listed' = response /\ snapshot'.apn = Data!FirstApn(c) /\ Data!FirstApn(c) = Data!FirstNamed(response)
        BY <2>1, <2>2, <2>4, <3>2 DEF Summarised
      <4>. QED  BY <4>1 DEF NamesFirst, Data!FirstNamed
    <3>. QED  BY <3>1, <3>2
  <2>8. ActiveTold'
    <3>1. DOMAIN c = 1 .. Len(c)
      BY <2>3
    <3>2. \A i \in DOMAIN c : ~c[i].active
      <4>1. \A told : Listed(told).active = FALSE
        BY DEF Listed
      <4>. QED  BY <2>3, <3>1, <4>1
    <3>. QED  BY <3>2 DEF ActiveTold
  <2>9. ~BareOk => CallAsTold'
    BY <2>1, <2>2 DEF SnapshotInv, CallAsTold, KeepsCall, Unsummarised, Summarised
  <2>. QED  BY <2>2, <2>6, <2>7, <2>8, <2>9 DEF SnapshotInv
<1>3. CASE ActivationShown
  <2>1. PICK response \in Seq(ActiveLines) :
          /\ TellParsed(snapshot, response, snapshot')
          /\ activeTold' = {response[i].cid : i \in {j \in DOMAIN response : response[j].state = 1}}
          /\ UNCHANGED <<listed, fresh, callTold>>
    BY <1>3 DEF ActivationShown
  <2>2. NamesFirst'
    BY <2>1 DEF SnapshotInv, TellParsed, NamesFirst, Unsummarised, Summarised, Data!FirstNamed
  <2>3. ActiveTold'
    BY <2>1 DEF TellParsed, ActiveTold
  <2>4. ~BareOk => CallAsTold'
    BY <2>1 DEF SnapshotInv, TellParsed, CallAsTold, KeepsCall, Unsummarised, Summarised
  <2>. QED  BY <2>1, <2>2, <2>3, <2>4 DEF SnapshotInv, TellParsed
<1>4. CASE CallShown
  <2>1. NamesFirst'
    BY <1>4 DEF SnapshotInv, CallShown, ContextsStay, NamesFirst, Data!FirstNamed
  <2>2. ActiveTold'
    BY <1>4 DEF SnapshotInv, CallShown, ContextsStay, ActiveTold
  <2>3. ~BareOk => CallAsTold'
    BY <1>4 DEF SnapshotInv, CallShown, CallAsTold
  <2>. QED  BY <1>4, <2>1, <2>2, <2>3 DEF SnapshotInv, CallShown, ContextsStay
<1>. QED  BY <1>1, <1>2, <1>3, <1>4 DEF Shown

\* Nothing is shown at the start.
LEMMA DataInit == DataAssumption /\ Data!Init => DataInv
<1>. SUFFICES ASSUME DataAssumption, Data!Init PROVE DataInv
  OBVIOUS
<1>1. /\ snapshot = Data!EmptySnapshot /\ query = 1 /\ channel = <<>> /\ modem \in Data!Modems
      /\ listed = <<>> /\ fresh = FALSE /\ callTold = "nothing"
  BY DEF Data!Init
<1>2. snapshot \in Snapshots /\ snapshot.contexts = <<>> /\ snapshot.apn = ""
  <2>1. \A S : \A c \in Seq(S) : \A T : \A x \in T :
          LET e == [ contexts |-> c, apn |-> x, mipCallKnown |-> FALSE, mipCallActive |-> FALSE,
                     dataConnectionKnown |-> FALSE, dataConnectionActive |-> FALSE ]
          IN  /\ e \in [ contexts : Seq(S), apn : T, mipCallKnown : BOOLEAN, mipCallActive : BOOLEAN,
                         dataConnectionKnown : BOOLEAN, dataConnectionActive : BOOLEAN ]
              /\ e.contexts = c /\ e.apn = x
    OBVIOUS
  <2>2. <<>> \in Seq(Contexts) /\ "" \in STRING \cup {""}
    OBVIOUS
  <2>. QED  BY <1>1, <2>1, <2>2, Zenon DEF Snapshots, Data!EmptySnapshot
<1>3. Len(snapshot.contexts) <= MaxPdpContexts
  <2>1. Len(<<>>) = 0 /\ MaxPdpContexts \in Nat
    BY DEF DataAssumption
  <2>2. 0 <= MaxPdpContexts
    BY <2>1
  <2>. QED  BY <1>2, <2>1, <2>2, Zenon
<1>4. channel \in Seq(DataCommands)
  BY <1>1
<1>5. Data!FirstApn(snapshot.contexts) = "" /\ Data!FirstNamed(listed) = ""
  <2>1. Data!FirstApn(<<>>) = "" /\ Data!FirstNamed(<<>>) = ""
    BY DEF Data!FirstApn, Data!FirstNamed
  <2>. QED  BY <1>1, <1>2, <2>1, Zenon
<1>6. NamesFirst
  BY <1>1, <1>2, <1>5 DEF NamesFirst
<1>7. ActiveTold
  <2>1. DOMAIN <<>> = {}
    OBVIOUS
  <2>2. DOMAIN snapshot.contexts = {}
    BY <1>2, <2>1, Zenon
  <2>. QED  BY <2>2 DEF ActiveTold
<1>8. CallAsTold
  BY <1>1 DEF CallAsTold
<1>9. query \in 1 .. 3
  BY <1>1
<1>. QED  BY <1>1, <1>2, <1>3, <1>4, <1>6, <1>7, <1>8, <1>9, Zenon DEF DataInv

\* Every step keeps the page to what the modem told.
LEMMA DataStep == DataAssumption /\ DataInv /\ [Data!Next]_(Data!vars) => DataInv'
<1>. SUFFICES ASSUME DataAssumption, DataInv, [Data!Next]_(Data!vars) PROVE DataInv'
  OBVIOUS
<1>1. SnapshotInv
  BY DEF DataInv, SnapshotInv
<1>2. SnapshotInv' /\ channel' \in Seq(DataCommands) /\ query' \in 1 .. 3 /\ modem' \in Data!Modems => DataInv'
  BY DEF DataInv, SnapshotInv
<1>3. NothingShown => SnapshotInv'
  BY <1>1, ShownInv DEF Shown
<1>4. channel \in Seq(DataCommands) /\ query \in 1 .. 3 /\ modem \in Data!Modems
  BY DEF DataInv
<1>5. \A e \in DataCommands : Append(channel, e) \in Seq(DataCommands)
  BY <1>4
<1>6. CASE Data!StatusPoll
  <2>1. Data!DataSteps[query] \in {"CGDCONT?", "CGACT?", "MIPCALL?"}
    BY <1>4 DEF Data!DataSteps
  <2>2. <<"status", Data!DataSteps[query]>> \in DataCommands
    BY <2>1 DEF DataCommands
  <2>. QED  BY <1>2, <1>3, <1>4, <1>5, <1>6, <2>2 DEF Data!StatusPoll, NothingShown
<1>7. CASE Data!GuardPoll
  <2>1. <<"guard", IF guardState = "Query" THEN "MIPCALL?" ELSE "MIPCALL=0">> \in DataCommands
    BY DEF DataCommands
  <2>. QED  BY <1>2, <1>3, <1>4, <1>5, <1>7, <2>1 DEF Data!GuardPoll, NothingShown
<1>8. ASSUME NEW result \in {"Ok", "Error", "Timeout"}, Data!Answer(result) PROVE DataInv'
  <2>. DEFINE cmd == Head(channel)[2]
  <2>1. channel # <<>> /\ channel' = Tail(channel)
    BY <1>8 DEF Data!Answer
  <2>2. PICK response \in (IF result = "Ok" THEN Data!Answers(cmd) ELSE {<<>>}) :
          IF Head(channel)[1] = "status" THEN Data!StatusResult(cmd, result, response)
          ELSE Data!GuardResult(cmd, result, response)
    BY <1>8 DEF Data!Answer
  <2>3. Head(channel) \in DataCommands /\ channel' \in Seq(DataCommands)
    <3>. HIDE DEF cmd
    <3>. QED  BY <1>4, <2>1
  <2>4. CASE Head(channel)[1] = "status"
    <3>1. Data!StatusResult(cmd, result, response)
      BY <2>2, <2>4
    <3>2. cmd \in {"CGDCONT?", "CGACT?", "MIPCALL?"}
      BY <2>3, <2>4 DEF DataCommands
    <3>. HIDE DEF cmd
    <3>3. Shown
      BY <2>2, <3>1, <3>2, StatusShows
    <3>4. query' \in 1 .. 3 /\ modem' = modem
      <4>1. query' = (query % 3) + 1 /\ modem' = modem
        BY <3>1 DEF Data!StatusResult, Data!DataSteps
      <4>. QED  BY <1>4, <4>1
    <3>. QED  BY <1>1, <1>2, <1>4, <2>3, <3>3, <3>4, ShownInv
  <2>5. CASE Head(channel)[1] # "status"
    <3>. HIDE DEF cmd
    <3>1. Data!GuardResult(cmd, result, response)
      BY <2>2, <2>5
    <3>2. Shown
      BY <3>1, GuardShows
    <3>3. PICK b \in BOOLEAN : modem' = [modem EXCEPT !.call = b]
      BY <3>1 DEF Data!GuardResult
    <3>4. modem' \in Data!Modems
      <4>1. PICK l \in Listings, call \in BOOLEAN :
                 modem = [contexts |-> l.contexts, active |-> l.active, call |-> call]
        BY <1>4 DEF Data!Modems
      <4>2. modem' = [contexts |-> l.contexts, active |-> l.active, call |-> b]
        BY <3>3, <4>1
      <4>. QED  BY <4>2 DEF Data!Modems
    <3>5. query' = query
      BY <3>1 DEF Data!GuardResult
    <3>. QED  BY <1>1, <1>2, <1>4, <2>3, <3>2, <3>4, <3>5, ShownInv
  <2>. QED  BY <2>4, <2>5
<1>9. CASE Data!ModemChanges
  BY <1>2, <1>3, <1>4, <1>9 DEF Data!ModemChanges, NothingShown, Data!Modems
<1>10. CASE UNCHANGED Data!vars
  BY <1>2, <1>3, <1>4, <1>10 DEF Data!vars, NothingShown, Data!Modems
<1>. QED  BY <1>6, <1>7, <1>8, <1>9, <1>10 DEF Data!Next

-----------------------------------------------------------------------------
(* SerialAtConsole. *)

\* A line without its last character.
LEMMA FrontType == \A s \in Seq(Characters) : s # <<>> => Console!Front(s) \in Seq(Characters)
  BY DEF Console!Front

\* A line that is submitted is "at" with an argument that begins with AT, is no
\* command of the refused kind, and comes when none is pending.
LEMMA SubmitMeans ==
  ASSUME NEW s, NEW pending, Console!ProcessLine(s, pending) = "Submit"
  PROVE  /\ ~pending
         /\ Console!IsPrefix(<<"at", " ">>, s)
         /\ Console!IsPrefix(<<"at">>, Console!Argument(s))
         /\ ~Console!IsUnsafeCommand(Console!Argument(s))
  BY DEF Console!ProcessLine, Console!ProcessCommand

\* A text that begins with something is not empty.
LEMMA PrefixedIsNotEmpty == \A s : Console!IsPrefix(<<"at">>, s) => s # <<>>
  BY DEF Console!IsPrefix

-----------------------------------------------------------------------------

\* The editor: as long as nothing was cut off the line is what the terminal shows.
LineIsTyped ==
  /\ line \in Seq(Characters) /\ typed \in Seq(Characters)
  /\ ~overflowed => line = typed

\* The line is empty at the start.
LEMMA LineInit == Console!Init => LineIsTyped
<1>1. <<>> \in Seq(Characters)
  OBVIOUS
<1>. QED  BY <1>1 DEF Console!Init, LineIsTyped

\* Every character keeps the line to what was typed (SerialAtConsoleCore::onChar).
LEMMA LineStep == LineIsTyped /\ [Console!Next]_(Console!vars) => LineIsTyped'
<1>. SUFFICES ASSUME LineIsTyped, [Console!Next]_(Console!vars) PROVE LineIsTyped'
  OBVIOUS
<1>. USE DEF LineIsTyped
<1>1. ASSUME NEW c \in Characters, Console!Character(c) PROVE LineIsTyped'
  <2>1. Append(line, c) \in Seq(Characters) /\ Append(typed, c) \in Seq(Characters)
    OBVIOUS
  <2>2. CASE Len(line) + 1 >= LineCapacity
    BY <1>1, <2>1, <2>2 DEF Console!Character
  <2>3. CASE ~(Len(line) + 1 >= LineCapacity)
    BY <1>1, <2>1, <2>3 DEF Console!Character
  <2>. QED  BY <2>2, <2>3
<1>2. CASE Console!Backspace
  <2>1. typed' \in Seq(Characters) /\ line' \in Seq(Characters)
    BY <1>2, FrontType DEF Console!Backspace
  <2>. QED  BY <1>2, <2>1 DEF Console!Backspace, Console!OverflowAfterErase
<1>3. ASSUME NEW accepted \in BOOLEAN, Console!NewLine(accepted) PROVE LineIsTyped'
  <2>1. line' = <<>> /\ typed' = <<>>
    BY <1>3 DEF Console!NewLine
  <2>2. <<>> \in Seq(Characters)
    OBVIOUS
  <2>. QED  BY <2>1, <2>2
<1>4. CASE Console!Result
  BY <1>4 DEF Console!Result
<1>5. CASE UNCHANGED Console!vars
  BY <1>5 DEF Console!vars
<1>. QED  BY <1>1, <1>2, <1>3, <1>4, <1>5 DEF Console!Next

-----------------------------------------------------------------------------
\* No command of the console is pending at the start.
LEMMA ResultInit == Console!Init => Console!ResultNamesItsCommand
  BY DEF Console!Init, Console!ResultNamesItsCommand

\* Every step keeps the console busy exactly while its command is in the channel.
LEMMA ResultStep == Console!ResultNamesItsCommand /\ [Console!Next]_(Console!vars) => Console!ResultNamesItsCommand'
<1>. SUFFICES ASSUME Console!ResultNamesItsCommand, [Console!Next]_(Console!vars) PROVE Console!ResultNamesItsCommand'
  OBVIOUS
<1>. USE DEF Console!ResultNamesItsCommand
<1>1. ASSUME NEW c \in Characters, Console!Character(c) PROVE Console!ResultNamesItsCommand'
  BY <1>1 DEF Console!Character
<1>2. CASE Console!Backspace
  BY <1>2 DEF Console!Backspace
<1>3. ASSUME NEW accepted \in BOOLEAN, Console!NewLine(accepted) PROVE Console!ResultNamesItsCommand'
  <2>. DEFINE argument == Console!Argument(Console!Trim(line))
  <2>1. CASE ~overflowed /\ Console!ProcessLine(Console!Trim(line), manualAtPending) = "Submit"
    <3>1. ~manualAtPending /\ argument # <<>>
      BY <2>1, SubmitMeans, PrefixedIsNotEmpty
    <3>2. Console!Submit(argument, accepted)
      BY <1>3, <2>1 DEF Console!NewLine
    <3>. HIDE DEF argument
    <3>. QED  BY <3>1, <3>2 DEF Console!Submit
  <2>2. CASE ~(~overflowed /\ Console!ProcessLine(Console!Trim(line), manualAtPending) = "Submit")
    BY <1>3, <2>2 DEF Console!NewLine
  <2>. QED  BY <2>1, <2>2
<1>4. CASE Console!Result
  BY <1>4 DEF Console!Result
<1>5. CASE UNCHANGED Console!vars
  BY <1>5 DEF Console!vars
<1>. QED  BY <1>1, <1>2, <1>3, <1>4, <1>5 DEF Console!Next

\* serialAtConsolePoll() and printManualAtResult(): the console is busy exactly
\* while its command is in the channel, and the buffer that the callback prints
\* names that command, whatever is typed meanwhile.

-----------------------------------------------------------------------------

\* What a step may put into the channel.
RunsLine ==
  running' # running /\ running' # <<>> =>
    /\ Console!IsPrefix(<<"at", " ">>, Console!Trim(typed))
    /\ running' = Console!Argument(Console!Trim(typed))
    /\ ~Console!IsUnsafeCommand(running')

\* A command that is submitted is the line.
LEMMA RunStep == LineIsTyped /\ [Console!Next]_(Console!vars) => [RunsLine]_(Console!vars)
<1>. SUFFICES ASSUME LineIsTyped, Console!Next PROVE RunsLine
  OBVIOUS
<1>1. ASSUME NEW c \in Characters, Console!Character(c) PROVE RunsLine
  BY <1>1 DEF Console!Character, RunsLine
<1>2. CASE Console!Backspace
  BY <1>2 DEF Console!Backspace, RunsLine
<1>3. ASSUME NEW accepted \in BOOLEAN, Console!NewLine(accepted) PROVE RunsLine
  <2>1. CASE ~overflowed /\ Console!ProcessLine(Console!Trim(line), manualAtPending) = "Submit"
    <3>1. line = typed
      BY <2>1 DEF LineIsTyped
    <3>2. /\ Console!IsPrefix(<<"at", " ">>, Console!Trim(typed))
          /\ ~Console!IsUnsafeCommand(Console!Argument(Console!Trim(typed)))
      BY <2>1, <3>1, SubmitMeans
    <3>3. running' \in {running, Console!Argument(Console!Trim(typed))}
      BY <1>3, <2>1, <3>1 DEF Console!NewLine, Console!Submit
    <3>. QED  BY <3>2, <3>3 DEF RunsLine
  <2>2. CASE ~(~overflowed /\ Console!ProcessLine(Console!Trim(line), manualAtPending) = "Submit")
    BY <1>3, <2>2 DEF Console!NewLine, RunsLine
  <2>. QED  BY <2>1, <2>2
<1>4. CASE Console!Result
  BY <1>4 DEF Console!Result, RunsLine
<1>. QED  BY <1>1, <1>2, <1>3, <1>4 DEF Console!Next

\* SerialAtConsoleCore: the command that runs is the one the terminal shows,
\* whole, whatever was rubbed out, and none of those the console refuses.

-----------------------------------------------------------------------------
(* The types of SerialAtConsole. *)

\* The last of some places is one of them.
LEMMA LastPlace ==
  ASSUME NEW n \in Nat, NEW S \in SUBSET (1 .. n), S # {}
  PROVE  Console!Max(S) \in S
<1>. DEFINE T == {n - i : i \in S}
<1>1. T \in SUBSET Nat /\ T # {}
  <2>1. \A i \in S : n - i \in Nat
    OBVIOUS
  <2>2. PICK i \in S : TRUE
    OBVIOUS
  <2>3. n - i \in T
    OBVIOUS
  <2>. QED  BY <2>1, <2>3
<1>2. PICK t \in T : \A u \in T : t <= u
  <2>. HIDE DEF T
  <2>. QED  BY <1>1, FirstPlace
<1>3. PICK i \in S : t = n - i
  OBVIOUS
<1>4. \A j \in S : i >= j
  <2>. SUFFICES ASSUME NEW j \in S PROVE i >= j
    OBVIOUS
  <2>1. n - j \in T
    OBVIOUS
  <2>2. n - i <= n - j
    BY <1>2, <1>3, <2>1
  <2>. QED  BY <2>2
<1>. QED  BY <1>4 DEF Console!Max

\* A line without the blanks around it.
LEMMA TrimType == \A s \in Seq(Characters) : Console!Trim(s) \in Seq(Characters)
<1>. SUFFICES ASSUME NEW s \in Seq(Characters) PROVE Console!Trim(s) \in Seq(Characters)
  OBVIOUS
<1>. DEFINE solid == {i \in DOMAIN s : s[i] # " "}
            n == Len(s)
<1>1. n \in Nat /\ solid \in SUBSET (1 .. n)
  <2>1. DOMAIN s = 1 .. n /\ n \in Nat
    OBVIOUS
  <2>. HIDE DEF n
  <2>. QED  BY <2>1
<1>2. Console!Trim(s) = IF solid = {} THEN <<>> ELSE SubSeq(s, Console!Min(solid), Console!Max(solid))
  BY DEF Console!Trim
<1>. HIDE DEF solid
<1>3. CASE solid = {}
  BY <1>2, <1>3
<1>4. CASE solid # {}
  <2>1. Console!Min(solid) \in 1 .. n
    <3>1. Console!Min(solid) = Config!Min(solid)
      BY DEF Console!Min, Config!Min
    <3>2. solid \in SUBSET Nat
      BY <1>1
    <3>3. Config!Min(solid) \in solid
      BY <1>4, <3>2, FirstPlace
    <3>. QED  BY <1>1, <3>1, <3>3
  <2>2. Console!Max(solid) \in 1 .. n
    <3>1. Console!Max(solid) \in solid
      BY <1>1, <1>4, LastPlace
    <3>. QED  BY <1>1, <3>1
  <2>3. \A a, b \in 1 .. n : SubSeq(s, a, b) \in Seq(Characters)
    OBVIOUS
  <2>. QED  BY <1>2, <1>4, <2>1, <2>2, <2>3
<1>. QED  BY <1>3, <1>4

\* The argument of a line.
LEMMA ArgumentType == \A s \in Seq(Characters) : Console!Argument(s) \in Seq(Characters)
<1>. SUFFICES ASSUME NEW s \in Seq(Characters) PROVE Console!Argument(s) \in Seq(Characters)
  OBVIOUS
<1>1. SubSeq(s, 3, Len(s)) \in Seq(Characters)
  OBVIOUS
<1>. QED  BY <1>1, TrimType DEF Console!Argument

ConsoleAssumption == {LineCapacity, CommandCapacity, MaxTyped} \subseteq Nat \ {0}

\* What SerialAtConsole assumes of the constants.
LEMMA ConsoleConstants == ConsoleAssumption
  BY SmallPartsAssumption DEF ConsoleAssumption, Console!SerialAtConsoleAssumption

\* The console begins typed,
LEMMA ConsoleTypeInit == Console!Init => Console!TypeOK
<1>1. <<>> \in Seq(Characters) /\ Len(<<>>) = 0
  OBVIOUS
<1>2. 0 < LineCapacity /\ 0 < CommandCapacity /\ 0 <= MaxTyped
  BY ConsoleConstants DEF ConsoleAssumption
<1>. QED  BY <1>1, <1>2 DEF Console!Init, Console!TypeOK

\* and stays so.
LEMMA ConsoleTypeStep == Console!TypeOK /\ [Console!Next]_(Console!vars) => Console!TypeOK'
<1>. SUFFICES ASSUME Console!TypeOK, [Console!Next]_(Console!vars) PROVE Console!TypeOK'
  OBVIOUS
<1>0. /\ line \in Seq(Characters) /\ Len(line) < LineCapacity
      /\ manualAtCommand \in Seq(Characters) /\ Len(manualAtCommand) < CommandCapacity
      /\ overflowed \in BOOLEAN /\ manualAtPending \in BOOLEAN
      /\ typed \in Seq(Characters) /\ Len(typed) <= MaxTyped
      /\ {LineCapacity, CommandCapacity, MaxTyped} \subseteq Nat \ {0}
  BY ConsoleConstants DEF Console!TypeOK, ConsoleAssumption
<1>1. ASSUME NEW c \in Characters, Console!Character(c) PROVE Console!TypeOK'
  <2>1. /\ Append(line, c) \in Seq(Characters) /\ Append(typed, c) \in Seq(Characters)
        /\ Len(Append(line, c)) = Len(line) + 1 /\ Len(Append(typed, c)) = Len(typed) + 1
    BY <1>0
  <2>2. typed' = Append(typed, c) /\ Len(typed) < MaxTyped /\ UNCHANGED <<manualAtPending, manualAtCommand>>
    BY <1>1 DEF Console!Character
  <2>3. typed' \in Seq(Characters) /\ Len(typed') <= MaxTyped
    BY <1>0, <2>1, <2>2
  <2>4. line' \in Seq(Characters) /\ Len(line') < LineCapacity /\ overflowed' \in BOOLEAN
    <3>1. CASE Len(line) + 1 >= LineCapacity
      BY <1>0, <1>1, <3>1 DEF Console!Character
    <3>2. CASE ~(Len(line) + 1 >= LineCapacity)
      <4>1. line' = Append(line, c) /\ overflowed' = overflowed
        BY <1>1, <3>2 DEF Console!Character
      <4>. QED  BY <1>0, <2>1, <3>2, <4>1
    <3>. QED  BY <3>1, <3>2
  <2>. QED  BY <1>0, <2>2, <2>3, <2>4 DEF Console!TypeOK
<1>2. CASE Console!Backspace
  <2>1. ASSUME NEW s \in Seq(Characters), s # <<>>
        PROVE  Console!Front(s) \in Seq(Characters) /\ Len(Console!Front(s)) = Len(s) - 1
    <3>1. Len(s) \in Nat /\ Len(s) # 0
      BY <2>1
    <3>2. \A m \in 0 .. Len(s) : SubSeq(s, 1, m) \in Seq(Characters) /\ Len(SubSeq(s, 1, m)) = m
      OBVIOUS
    <3>3. Len(s) - 1 \in 0 .. Len(s)
      BY <3>1
    <3>. QED  BY <3>2, <3>3 DEF Console!Front
  <2>2. <<>> \in Seq(Characters) /\ Len(<<>>) = 0
    OBVIOUS
  <2>3. typed' \in Seq(Characters) /\ Len(typed') <= MaxTyped
    BY <1>0, <1>2, <2>1 DEF Console!Backspace
  <2>4. line' \in Seq(Characters) /\ Len(line') < LineCapacity
    BY <1>0, <1>2, <2>1, <2>2 DEF Console!Backspace
  <2>. QED  BY <1>0, <1>2, <2>3, <2>4 DEF Console!Backspace, Console!OverflowAfterErase,
               Console!TypeOK
<1>3. ASSUME NEW accepted \in BOOLEAN, Console!NewLine(accepted) PROVE Console!TypeOK'
  <2>1. line' = <<>> /\ typed' = <<>> /\ overflowed' = FALSE
    BY <1>3 DEF Console!NewLine
  <2>2. <<>> \in Seq(Characters) /\ Len(<<>>) = 0 /\ 0 < LineCapacity /\ 0 <= MaxTyped
    BY <1>0
  <2>3. /\ manualAtCommand' \in Seq(Characters) /\ Len(manualAtCommand') < CommandCapacity
        /\ manualAtPending' \in BOOLEAN
    <3>. DEFINE argument == Console!Argument(Console!Trim(line))
    <3>1. CASE ~overflowed /\ Console!ProcessLine(Console!Trim(line), manualAtPending) = "Submit"
      <4>1. argument \in Seq(Characters)
        BY <1>0, TrimType, ArgumentType
      <4>2. ~(Len(argument) + 1 > CommandCapacity)
        BY <3>1 DEF Console!ProcessLine, Console!ProcessCommand
      <4>3. manualAtCommand' = argument /\ manualAtPending' = accepted
        BY <1>3, <3>1 DEF Console!NewLine, Console!Submit
      <4>. HIDE DEF argument
      <4>. QED  BY <1>0, <4>1, <4>2, <4>3
    <3>2. CASE ~(~overflowed /\ Console!ProcessLine(Console!Trim(line), manualAtPending) = "Submit")
      BY <1>0, <1>3, <3>2 DEF Console!NewLine
    <3>. QED  BY <3>1, <3>2
  <2>. QED  BY <2>1, <2>2, <2>3 DEF Console!TypeOK
<1>4. CASE Console!Result
  BY <1>0, <1>4 DEF Console!Result, Console!TypeOK
<1>5. CASE UNCHANGED Console!vars
  BY <1>0, <1>5 DEF Console!vars, Console!TypeOK
<1>. QED  BY <1>1, <1>2, <1>3, <1>4, <1>5 DEF Console!Next

-----------------------------------------------------------------------------
(* The types of DataConnection. *)

\* One command of each client at most, and none of a guard that is done.
DataRest ==
  /\ guardState \in {"Query", "Disconnect", "Complete"}
  /\ callTold \in {"nothing", "up", "down"}
  /\ channel \in Seq(DataCommands)
  /\ \A i, j \in DOMAIN channel : channel[i][1] = channel[j][1] => i = j
  /\ \A i \in DOMAIN channel : channel[i][1] = "guard" => guardState # "Complete"

\* The channel with one command more.
LEMMA Submitted ==
  ASSUME DataRest, NEW e \in DataCommands, \A i \in DOMAIN channel : channel[i][1] # e[1]
  PROVE  LET s == Append(channel, e)
         IN  /\ s \in Seq(DataCommands)
             /\ \A i, j \in DOMAIN s : s[i][1] = s[j][1] => i = j
             /\ \A i \in DOMAIN s : s[i][1] = e[1] \/ \E j \in DOMAIN channel : s[i] = channel[j]
<1>. DEFINE s == Append(channel, e)
            n == Len(channel)
<1>1. channel \in Seq(DataCommands)
  BY DEF DataRest
<1>2. /\ s \in Seq(DataCommands) /\ DOMAIN s = 1 .. n + 1
      /\ \A i \in 1 .. n : s[i] = channel[i]
      /\ s[n + 1] = e
  BY <1>1, LongerSequence
<1>3. DOMAIN channel = 1 .. n /\ n \in Nat
  BY <1>1
<1>. HIDE DEF n, s
<1>4. \A i \in 1 .. n + 1 : i \in 1 .. n \/ i = n + 1
  BY <1>3
<1>5. \A i \in 1 .. n : s[i][1] # s[n + 1][1]
  BY <1>2, <1>3
<1>6. \A i, j \in 1 .. n : s[i][1] = s[j][1] => i = j
  BY <1>2, <1>3 DEF DataRest
<1>7. ASSUME NEW i \in DOMAIN s, NEW j \in DOMAIN s, s[i][1] = s[j][1] PROVE i = j
  BY <1>2, <1>4, <1>5, <1>6, <1>7
<1>8. \A i \in DOMAIN s : s[i][1] = e[1] \/ \E j \in DOMAIN channel : s[i] = channel[j]
  BY <1>2, <1>3, <1>4
<1>. QED  BY <1>2, <1>7, <1>8 DEF s

\* Each client has one command at most in the channel.
LEMMA RestStep == DataInv /\ DataRest /\ [Data!Next]_(Data!vars) => DataRest'
<1>. SUFFICES ASSUME DataInv, DataRest, [Data!Next]_(Data!vars) PROVE DataRest'
  OBVIOUS
<1>1. /\ guardState \in {"Query", "Disconnect", "Complete"}
      /\ callTold \in {"nothing", "up", "down"}
      /\ channel \in Seq(DataCommands) /\ query \in 1 .. 3
      /\ \A i, j \in DOMAIN channel : channel[i][1] = channel[j][1] => i = j
      /\ \A i \in DOMAIN channel : channel[i][1] = "guard" => guardState # "Complete"
  BY DEF DataRest, DataInv
<1>2. CASE Data!StatusPoll
  <2>. DEFINE e == <<"status", Data!DataSteps[query]>>
  <2>1. Data!DataSteps[query] \in {"CGDCONT?", "CGACT?", "MIPCALL?"}
    BY <1>1 DEF Data!DataSteps
  <2>2. e \in DataCommands /\ e[1] = "status"
    BY <2>1 DEF DataCommands
  <2>3. channel' = Append(channel, e) /\ \A i \in DOMAIN channel : channel[i][1] # "status"
    BY <1>2 DEF Data!StatusPoll, Data!Waits
  <2>4. UNCHANGED <<guardState, callTold>>
    BY <1>2 DEF Data!StatusPoll
  <2>. HIDE DEF e
  <2>5. /\ channel' \in Seq(DataCommands)
        /\ \A i, j \in DOMAIN channel' : channel'[i][1] = channel'[j][1] => i = j
        /\ \A i \in DOMAIN channel' : channel'[i][1] = "status" \/ \E j \in DOMAIN channel : channel'[i] = channel[j]
    BY <2>2, <2>3, Submitted
  <2>. QED  BY <1>1, <2>4, <2>5 DEF DataRest
<1>3. CASE Data!GuardPoll
  <2>. DEFINE e == <<"guard", IF guardState = "Query" THEN "MIPCALL?" ELSE "MIPCALL=0">>
  <2>1. e \in DataCommands /\ e[1] = "guard"
    BY DEF DataCommands
  <2>2. channel' = Append(channel, e) /\ \A i \in DOMAIN channel : channel[i][1] # "guard"
    BY <1>3 DEF Data!GuardPoll, Data!Waits
  <2>3. UNCHANGED <<guardState, callTold>>
    BY <1>3 DEF Data!GuardPoll
  <2>. HIDE DEF e
  <2>4. /\ channel' \in Seq(DataCommands)
        /\ \A i, j \in DOMAIN channel' : channel'[i][1] = channel'[j][1] => i = j
    BY <2>1, <2>2, Submitted
  <2>5. guardState # "Complete"
    BY <1>3 DEF Data!GuardPoll
  <2>. QED  BY <1>1, <2>3, <2>4, <2>5 DEF DataRest
<1>4. ASSUME NEW result \in {"Ok", "Error", "Timeout"}, Data!Answer(result) PROVE DataRest'
  <2>. DEFINE cmd == Head(channel)[2]
  <2>1. channel # <<>> /\ channel' = Tail(channel)
    BY <1>4 DEF Data!Answer
  <2>2. PICK response \in (IF result = "Ok" THEN Data!Answers(cmd) ELSE {<<>>}) :
          IF Head(channel)[1] = "status" THEN Data!StatusResult(cmd, result, response)
          ELSE Data!GuardResult(cmd, result, response)
    BY <1>4 DEF Data!Answer
  <2>. HIDE DEF cmd
  <2>3. /\ channel' \in Seq(DataCommands) /\ Len(channel) \in Nat /\ Len(channel) > 0
        /\ DOMAIN channel = 1 .. Len(channel) /\ DOMAIN channel' = 1 .. Len(channel) - 1
        /\ \A i \in 1 .. Len(channel) - 1 : channel'[i] = channel[i + 1]
    BY <1>1, <2>1
  <2>4. \A i, j \in DOMAIN channel' : channel'[i][1] = channel'[j][1] => i = j
    <3>. SUFFICES ASSUME NEW i \in DOMAIN channel', NEW j \in DOMAIN channel', channel'[i][1] = channel'[j][1]
                  PROVE  i = j
      OBVIOUS
    <3>1. i + 1 \in DOMAIN channel /\ j + 1 \in DOMAIN channel /\ i \in Nat /\ j \in Nat
      BY <2>3
    <3>2. channel[i + 1][1] = channel[j + 1][1]
      BY <2>3
    <3>3. i + 1 = j + 1
      BY <1>1, <3>1, <3>2
    <3>. QED  BY <3>1, <3>3
  <2>5. CASE Head(channel)[1] = "status"
    <3>1. Data!StatusResult(cmd, result, response)
      BY <2>2, <2>5
    <3>2. guardState' = guardState /\ callTold' \in {"nothing", "up", "down"}
      BY <1>1, <3>1 DEF Data!StatusResult, Data!Told
    <3>3. \A i \in DOMAIN channel' : channel'[i] = channel[i + 1] /\ i + 1 \in DOMAIN channel
      BY <2>3
    <3>. QED  BY <1>1, <2>3, <2>4, <3>2, <3>3 DEF DataRest
  <2>6. CASE Head(channel)[1] # "status"
    <3>1. Data!GuardResult(cmd, result, response)
      BY <2>2, <2>6
    <3>2. callTold' \in {"nothing", "up", "down"}
      BY <1>1, <3>1 DEF Data!GuardResult
    <3>3. guardState' \in {"Query", "Disconnect", "Complete"}
      <4>1. 1 \in DOMAIN channel /\ Head(channel) = channel[1]
        BY <1>1, <2>3
      <4>2. Head(channel) \in DataCommands
        BY <1>1, <4>1
      <4>3. channel[1][1] = "guard"
        BY <2>6, <4>1, <4>2 DEF DataCommands
      <4>4. guardState \in {"Query", "Disconnect"}
        BY <1>1, <4>1, <4>3
      <4>. QED  BY <3>1, <4>4 DEF Data!GuardResult, Data!GuardComplete
    <3>4. \A i \in DOMAIN channel' : channel'[i][1] # "guard"
      <4>. SUFFICES ASSUME NEW i \in DOMAIN channel', channel'[i][1] = "guard" PROVE FALSE
        OBVIOUS
      <4>1. /\ 1 \in DOMAIN channel /\ Head(channel) = channel[1] /\ i \in Nat /\ i # 0
            /\ i + 1 \in DOMAIN channel /\ channel[i + 1][1] = "guard"
        BY <1>1, <2>3
      <4>2. Head(channel) \in DataCommands
        BY <1>1, <4>1
      <4>3. channel[1][1] = "guard"
        BY <2>6, <4>1, <4>2 DEF DataCommands
      <4>4. i + 1 = 1
        BY <1>1, <4>1, <4>3
      <4>. QED  BY <4>1, <4>4
    <3>. QED  BY <2>3, <2>4, <3>2, <3>3, <3>4 DEF DataRest
  <2>. QED  BY <2>5, <2>6
<1>5. CASE Data!ModemChanges
  BY <1>1, <1>5 DEF Data!ModemChanges, DataRest
<1>6. CASE UNCHANGED Data!vars
  BY <1>1, <1>6 DEF Data!vars, DataRest
<1>. QED  BY <1>2, <1>3, <1>4, <1>5, <1>6 DEF Data!Next

\* No client has a command in the channel at the start.
LEMMA RestInit == Data!Init => DataRest
<1>. SUFFICES ASSUME Data!Init PROVE DataRest
  OBVIOUS
<1>1. channel = <<>> /\ guardState = "Query" /\ callTold = "nothing"
  BY DEF Data!Init
<1>2. <<>> \in Seq(DataCommands) /\ DOMAIN <<>> = {}
  OBVIOUS
<1>3. channel \in Seq(DataCommands) /\ DOMAIN channel = {}
  BY <1>1, <1>2, Zenon
<1>. QED  BY <1>1, <1>3 DEF DataRest

\* The types of DataConnection.
LEMMA DataTypes == DataInv /\ DataRest => Data!TypeOK
<1>. SUFFICES ASSUME DataInv, DataRest PROVE Data!TypeOK
  OBVIOUS
<1>1. Len(channel) <= 2
  <2>. SUFFICES ASSUME Len(channel) > 2 PROVE FALSE
    BY DEF DataRest
  <2>1. channel \in Seq(DataCommands)
    BY DEF DataRest
  <2>2. 1 \in DOMAIN channel /\ 2 \in DOMAIN channel /\ 3 \in DOMAIN channel
    BY <2>1
  <2>3. channel[1] \in DataCommands /\ channel[2] \in DataCommands /\ channel[3] \in DataCommands
    BY <2>1, <2>2
  <2>4. \A e \in DataCommands : e[1] \in {"status", "guard"}
    BY DEF DataCommands
  <2>5. channel[1][1] # channel[2][1] /\ channel[1][1] # channel[3][1] /\ channel[2][1] # channel[3][1]
    BY <2>2 DEF DataRest
  <2>. QED  BY <2>3, <2>4, <2>5
<1>2. snapshot.mipCallKnown \in BOOLEAN /\ snapshot.mipCallActive \in BOOLEAN
  BY DEF DataInv, Snapshots
<1>. QED  BY <1>1, <1>2 DEF DataInv, DataRest, Data!TypeOK, Data!DataSteps

-----------------------------------------------------------------------------
(* The types of LoggerCore. *)

\* Behind the last entry the ring is blank.
BlankBehind == \A i \in count .. Capacity - 1 : entries[Log!PhysicalIndex(i)] = Log!Blank

\* The ring is blank at the start,
LEMMA BlankInit == ASSUME Log!LoggerCoreAssumption, Log!Init PROVE BlankBehind
<1>1. LogInv
  BY InitRing
<1>2. \A i \in 0 .. Capacity - 1 : Log!PhysicalIndex(i) \in Log!Indices
  BY <1>1, IndexType DEF LogInv, Log!LoggerCoreAssumption
<1>. QED  BY <1>2 DEF Log!Init, BlankBehind

\* and stays so behind what is written.
LEMMA BlankStep ==
  ASSUME Log!LoggerCoreAssumption, LogInv, BlankBehind, [Log!Next]_(Log!vars) PROVE BlankBehind'
<1>0. LogInv'
  BY StepRing
<1>1. /\ Capacity \in Nat \ {0} /\ start \in 0 .. Capacity - 1 /\ count \in 0 .. Capacity
      /\ entries \in [0 .. Capacity - 1 -> LogEntry]
      /\ \A i \in 0 .. Capacity : Log!PhysicalIndex(i) \in 0 .. Capacity - 1
  BY IndexType DEF LogInv, RingType, Log!LoggerCoreAssumption, Log!Indices
<1>2. CASE Log!Clear
  <2>1. \A i \in 0 .. Capacity - 1 : Log!PhysicalIndex(i)' \in Log!Indices
    <3>1. start' = 0
      BY <1>2 DEF Log!Clear
    <3>2. \A i \in 0 .. Capacity - 1 : (0 + i) % Capacity \in 0 .. Capacity - 1
      BY <1>1
    <3>. QED  BY <3>1, <3>2 DEF Log!PhysicalIndex, Log!Indices
  <2>. QED  BY <1>2, <2>1 DEF Log!Clear, Log!Erased, BlankBehind
<1>3. ASSUME NEW message \in Messages, Log!Write(message) PROVE BlankBehind'
  <2>1. CASE count >= Capacity
    <3>1. count' = Capacity
      BY <1>1, <1>3, <2>1 DEF Log!Write
    <3>. QED  BY <1>1, <3>1 DEF BlankBehind
  <2>2. CASE ~(count >= Capacity)
    <3>. DEFINE index == Log!PhysicalIndex(count)
                entry == [sequence |-> nextSequence, message |-> message]
    <3>1. entries' = [entries EXCEPT ![index] = entry] /\ start' = start /\ count' = count + 1
      BY <1>3, <2>2 DEF Log!Write
    <3>. HIDE DEF entry
    <3>. SUFFICES ASSUME NEW i \in count' .. Capacity - 1
                  PROVE  entries'[Log!PhysicalIndex(i)'] = Log!Blank
      BY DEF BlankBehind
    <3>2. i \in count .. Capacity - 1 /\ i \in 0 .. Capacity /\ count < i
      BY <1>1, <3>1
    <3>3. Log!PhysicalIndex(i)' = Log!PhysicalIndex(i)
      BY <3>1 DEF Log!PhysicalIndex
    <3>4. Log!PhysicalIndex(i) # index
      <4>1. /\ (start + i) % Capacity = IF start + i < Capacity THEN start + i ELSE start + i - Capacity
            /\ (start + count) % Capacity = IF start + count < Capacity THEN start + count
                                            ELSE start + count - Capacity
        BY <1>1, <3>2, RoundOnce
      <4>. QED  BY <1>1, <3>2, <4>1 DEF Log!PhysicalIndex
    <3>5. entries[Log!PhysicalIndex(i)] = Log!Blank
      BY <3>2 DEF BlankBehind
    <3>. HIDE DEF index
    <3>. QED  BY <1>1, <3>1, <3>2, <3>3, <3>4, <3>5
  <2>. QED  BY <2>1, <2>2
<1>4. CASE UNCHANGED Log!vars
  BY <1>4 DEF Log!vars, BlankBehind, Log!PhysicalIndex
<1>. QED  BY <1>2, <1>3, <1>4 DEF Log!Next

\* The types of LoggerCore.
LEMMA LogTypes == LogInv /\ BlankBehind => Log!TypeOK
  BY DEF LogInv, BlankBehind, RingType, LogEntry, Log!TypeOK

-----------------------------------------------------------------------------
(* The types of CellularStatus. *)

StatusAssumption ==
  /\ {StaticSteps, DynamicSteps, PollInterval, StaticRetry, BetweenCommands, QueueRetry,
      CommandTime, StatusLoopGap} \subseteq Nat \ {0}
  /\ MaxRefusals \in Nat
  /\ StatusClockMod \in Nat \ {0}

\* What CellularStatus assumes of the constants.
LEMMA StatusConstants == StatusAssumption
  BY SmallPartsAssumption DEF StatusAssumption, Status!ClockModAssumption,
     Status!CellularStatusAssumption

Queries == ({"static"} \X (0 .. StaticSteps - 1)) \cup ({"dynamic"} \X (0 .. DynamicSteps - 1))

StatusStates ==
  [ pending : BOOLEAN, active : Queries, retryNeeded : BOOLEAN,
    staticIndex : 0 .. StaticSteps, dynamicIndex : 0 .. DynamicSteps - 1,
    nextPoll : Status!Time, nextRound : Status!Time, nextStatic : Status!Time ]

\* A static query that waits for its answer is the one of the index.
StatusInv ==
  /\ st \in StatusStates
  /\ st.pending <=> command # Status!None
  /\ st.pending => command = st.active
  /\ st.pending /\ st.active[1] = "static" => st.active[2] = st.staticIndex
  /\ age \in 0 .. CommandTime /\ gap \in 0 .. StatusLoopGap /\ refused \in 0 .. MaxRefusals
  /\ now \in Status!Time /\ up \in BOOLEAN /\ known \subseteq 0 .. StaticSteps - 1

\* A time plus a duration is a time.
LEMMA SumType == \A t \in Status!Time, d \in Nat : Status!Plus(t, d) \in Status!Time
<1>1. \A n \in Nat, m \in Nat \ {0} : n % m \in 0 .. m - 1
  OBVIOUS
<1>. QED  BY <1>1, StatusConstants DEF Status!Plus, Status!Time, StatusAssumption

\* The status begins typed,
LEMMA StatusInit == Init => (part = "status" => StatusInv)
<1>. SUFFICES ASSUME Init PROVE StatusInv
  OBVIOUS
<1>1. Status!Init /\ now = 0
  BY DEF Init
<1>2. now \in Status!Time /\ 0 \in Status!Time
  BY <1>1, StatusConstants DEF Status!Time, StatusAssumption
<1>3. /\ 0 \in 0 .. StaticSteps /\ 0 \in 0 .. DynamicSteps - 1 /\ 0 \in 0 .. CommandTime
      /\ 0 \in 0 .. StatusLoopGap /\ 0 \in 0 .. MaxRefusals
  BY StatusConstants DEF StatusAssumption
<1>4. <<"dynamic", 0>> \in Queries
  BY <1>3 DEF Queries
<1>5. st \in StatusStates /\ ~st.pending
  BY <1>1, <1>2, <1>3, <1>4 DEF Status!Init, StatusStates
<1>. QED  BY <1>1, <1>2, <1>3, <1>5 DEF Status!Init, StatusInv

\* and stays so (cellularStatusPoll, handleQueryResult).
LEMMA StatusStep == StatusInv /\ [Status!Next]_(Status!vars) => StatusInv'
<1>. SUFFICES ASSUME StatusInv, [Status!Next]_(Status!vars) PROVE StatusInv'
  OBVIOUS
<1>0. /\ st \in StatusStates /\ (st.pending <=> command # Status!None)
      /\ st.pending => command = st.active
      /\ st.pending /\ st.active[1] = "static" => st.active[2] = st.staticIndex
      /\ age \in 0 .. CommandTime /\ gap \in 0 .. StatusLoopGap /\ refused \in 0 .. MaxRefusals
      /\ now \in Status!Time /\ up \in BOOLEAN /\ known \subseteq 0 .. StaticSteps - 1
  BY DEF StatusInv
<1>1. StatusAssumption
  BY StatusConstants
<1>2. ASSUME NEW accepted \in BOOLEAN, Status!Poll(accepted) PROVE StatusInv'
  <2>. DEFINE s == Status!Restarted
  <2>1. gap' = 0 /\ UNCHANGED <<now, up, known>> /\ 0 \in 0 .. StatusLoopGap
    BY <1>1, <1>2 DEF Status!Poll, StatusAssumption
  <2>2. s \in StatusStates /\ (s.pending <=> st.pending)
    <3>1. [st EXCEPT !.staticIndex = 0, !.retryNeeded = FALSE] \in StatusStates
          /\ ([st EXCEPT !.staticIndex = 0, !.retryNeeded = FALSE].pending <=> st.pending)
      <4>1. 0 \in 0 .. StaticSteps
        BY <1>1 DEF StatusAssumption
      <4>. QED  BY <1>0, <4>1 DEF StatusStates
    <3>. QED  BY <1>0, <3>1 DEF Status!Restarted
  <2>. HIDE DEF s
  <2>3. CASE ~Status!MayPoll
    BY <1>0, <1>2, <2>1, <2>3 DEF Status!Poll, StatusInv
  <2>4. ASSUME Status!MayPoll, NEW q \in Queries, Status!Submit([s EXCEPT !.active = q], accepted),
               q[1] = "static" => q[2] = s.staticIndex
        PROVE  StatusInv'
    <3>. DEFINE t == [s EXCEPT !.active = q]
                u == [t EXCEPT !.pending = accepted, !.nextPoll = Status!Plus(now, QueueRetry)]
    <3>1. t \in StatusStates /\ t.active = q /\ t.staticIndex = s.staticIndex
      BY <2>2 DEF StatusStates
    <3>2. Status!Plus(now, QueueRetry) \in Status!Time
      BY <1>0, <1>1, SumType DEF StatusAssumption
    <3>. HIDE DEF t
    <3>3. u \in StatusStates /\ (u.pending <=> accepted) /\ u.active = q /\ u.staticIndex = s.staticIndex
      BY <3>1, <3>2 DEF StatusStates
    <3>4. /\ st' = u /\ command' = (IF accepted THEN t.active ELSE command)
          /\ age' = (IF accepted THEN 0 ELSE age) /\ refused' = (IF accepted THEN 0 ELSE refused + 1)
          /\ accepted \/ refused < MaxRefusals
      BY <2>4 DEF Status!Submit, t
    <3>. HIDE DEF u
    <3>5. q # Status!None
      BY DEF Queries, Status!None
    <3>6. ~st.pending
      BY <2>4 DEF Status!MayPoll
    <3>7. st' \in StatusStates /\ (st'.pending <=> command' # Status!None)
      BY <1>0, <3>1, <3>3, <3>4, <3>5, <3>6
    <3>8. (st'.pending => command' = st'.active)
          /\ (st'.pending /\ st'.active[1] = "static" => st'.active[2] = st'.staticIndex)
      BY <2>4, <3>1, <3>3, <3>4
    <3>9. age' \in 0 .. CommandTime /\ refused' \in 0 .. MaxRefusals
      BY <1>0, <1>1, <3>4 DEF StatusAssumption
    <3>. QED  BY <1>0, <2>1, <3>7, <3>8, <3>9 DEF StatusInv
  <2>5. CASE Status!MayPoll /\ ~Status!StaticDone(s)
    <3>1. Status!Submit([s EXCEPT !.active = <<"static", s.staticIndex>>], accepted)
      BY <1>2, <2>5 DEF Status!Poll, s
    <3>2. <<"static", s.staticIndex>> \in Queries
      <4>1. s.staticIndex \in 0 .. StaticSteps - 1
        BY <1>1, <2>2, <2>5 DEF StatusStates, StatusAssumption, Status!StaticDone
      <4>. QED  BY <4>1 DEF Queries
    <3>. QED  BY <2>4, <2>5, <3>1, <3>2
  <2>6. CASE Status!MayPoll /\ Status!StaticDone(s) /\ Status!Due(now, s.nextRound)
    <3>1. Status!Submit([s EXCEPT !.active = <<"dynamic", s.dynamicIndex>>], accepted)
      BY <1>2, <2>6 DEF Status!Poll, s
    <3>2. <<"dynamic", s.dynamicIndex>> \in Queries
      BY <2>2 DEF StatusStates, Queries
    <3>. QED  BY <2>4, <2>6, <3>1, <3>2
  <2>7. CASE Status!MayPoll /\ Status!StaticDone(s) /\ ~Status!Due(now, s.nextRound)
    <3>1. st' = [s EXCEPT !.nextPoll = s.nextRound] /\ UNCHANGED <<command, age, refused>>
      BY <1>2, <2>7 DEF Status!Poll, s
    <3>2. st' \in StatusStates /\ (st'.pending <=> s.pending)
      BY <2>2, <3>1 DEF StatusStates
    <3>3. ~st.pending
      BY <2>7 DEF Status!MayPoll
    <3>. QED  BY <1>0, <2>1, <2>2, <3>1, <3>2, <3>3 DEF StatusInv
  <2>. QED  BY <2>3, <2>5, <2>6, <2>7
<1>3. ASSUME NEW good \in BOOLEAN, Status!Result(good) PROVE StatusInv'
  <2>. DEFINE s == [st EXCEPT !.pending = FALSE, !.nextPoll = Status!Plus(now, BetweenCommands)]
  <2>1. /\ command # Status!None /\ command' = Status!None /\ age' = 0
        /\ UNCHANGED <<now, gap, refused, up>>
        /\ known' = (IF good /\ st.active[1] = "static" THEN known \cup {st.active[2]} ELSE known)
        /\ st' = (IF st.active[1] = "static" THEN Status!AfterStatic(s, good) ELSE Status!AfterDynamic(s, good))
    BY <1>3 DEF Status!Result
  <2>2. /\ Status!Plus(now, BetweenCommands) \in Status!Time /\ Status!Plus(now, StaticRetry) \in Status!Time
        /\ Status!Plus(now, PollInterval) \in Status!Time /\ 0 \in Status!Time
    <3>1. 0 \in Status!Time
      BY <1>1 DEF StatusAssumption, Status!Time
    <3>2. {BetweenCommands, StaticRetry, PollInterval} \subseteq Nat
      BY <1>1 DEF StatusAssumption
    <3>. QED  BY <1>0, <3>1, <3>2, SumType
  <2>3. s \in StatusStates /\ ~s.pending /\ s.active = st.active /\ s.staticIndex = st.staticIndex
    BY <1>0, <2>2 DEF StatusStates
  <2>. HIDE DEF s
  <2>4. st.active \in Queries /\ st.pending
    BY <1>0, <2>1 DEF StatusStates
  <2>5. CASE st.active[1] = "static"
    <3>1. st.active[2] = st.staticIndex /\ st.staticIndex \in 0 .. StaticSteps - 1
      BY <1>0, <2>4, <2>5 DEF Queries
    <3>. DEFINE t == [s EXCEPT !.staticIndex = @ + 1, !.retryNeeded = @ \/ ~good]
    <3>2. t \in StatusStates /\ ~t.pending
      <4>1. s.staticIndex + 1 \in 0 .. StaticSteps /\ (s.retryNeeded \/ ~good) \in BOOLEAN
        BY <1>1, <2>3, <3>1 DEF StatusAssumption
      <4>. QED  BY <2>3, <4>1 DEF StatusStates
    <3>3. st' = IF ~Status!StaticDone(t) THEN t
                ELSE [t EXCEPT !.nextStatic = IF t.retryNeeded THEN Status!Plus(now, StaticRetry) ELSE 0]
      BY <2>1, <2>5 DEF Status!AfterStatic
    <3>. HIDE DEF t
    <3>4. st' \in StatusStates /\ ~st'.pending
      BY <2>2, <3>2, <3>3 DEF StatusStates
    <3>5. known' \subseteq 0 .. StaticSteps - 1
      BY <1>0, <2>1, <2>5, <3>1
    <3>. QED  BY <1>0, <1>1, <2>1, <3>4, <3>5 DEF StatusInv, StatusAssumption
  <2>6. CASE st.active[1] # "static"
    <3>1. st' = IF s.dynamicIndex + 1 >= DynamicSteps
                THEN [s EXCEPT !.dynamicIndex = 0, !.nextRound = Status!Plus(now, PollInterval)]
                ELSE [s EXCEPT !.dynamicIndex = @ + 1]
      BY <2>1, <2>6 DEF Status!AfterDynamic
    <3>2. 0 \in 0 .. DynamicSteps - 1
      BY <1>1 DEF StatusAssumption
    <3>3. ~(s.dynamicIndex + 1 >= DynamicSteps) => s.dynamicIndex + 1 \in 0 .. DynamicSteps - 1
      BY <1>1, <2>3 DEF StatusAssumption, StatusStates
    <3>4. st' \in StatusStates /\ ~st'.pending
      BY <2>2, <2>3, <3>1, <3>2, <3>3 DEF StatusStates
    <3>. QED  BY <1>0, <1>1, <2>1, <2>6, <3>4 DEF StatusInv, StatusAssumption
  <2>. QED  BY <2>5, <2>6
<1>4. CASE Status!ModemChanges
  BY <1>0, <1>4 DEF Status!ModemChanges, StatusInv
<1>5. CASE Status!Tick
  <2>1. /\ gap < StatusLoopGap /\ (command # Status!None => age < CommandTime)
        /\ now' = Status!Plus(now, 1) /\ gap' = gap + 1
        /\ age' = (IF command # Status!None THEN age + 1 ELSE age)
        /\ UNCHANGED <<st, command, refused, up, known>>
    BY <1>5 DEF Status!Tick
  <2>2. now' \in Status!Time
    BY <1>0, <2>1, SumType
  <2>3. gap' \in 0 .. StatusLoopGap /\ age' \in 0 .. CommandTime
    BY <1>0, <1>1, <2>1 DEF StatusAssumption
  <2>. QED  BY <1>0, <2>1, <2>2, <2>3 DEF StatusInv
<1>6. CASE UNCHANGED Status!vars
  BY <1>0, <1>6 DEF Status!vars, StatusInv
<1>. QED  BY <1>2, <1>3, <1>4, <1>5, <1>6 DEF Status!Next

\* The types of CellularStatus.
LEMMA StatusTypes == StatusInv => Status!TypeOK
  BY DEF StatusInv, StatusStates, Status!TypeOK

-----------------------------------------------------------------------------
(* Sequences in a row. *)

IsFlat(seqs, f) ==
  f = [i \in 1 .. Len(seqs) |-> IF i = 1 THEN seqs[i] ELSE f[i - 1] \o seqs[i]]

FlatLoop(seqs) == CHOOSE f : IsFlat(seqs, f)

\* The loop of FlattenSeq has values.
LEMMA FlatLoopMeans ==
  ASSUME NEW S, NEW seqs \in Seq(Seq(S)), seqs # <<>>
  PROVE  /\ Json!FlattenSeq(seqs) = FlatLoop(seqs)[Len(seqs)]
         /\ IsFlat(seqs, FlatLoop(seqs))
         /\ FlatLoop(seqs) \in [1 .. Len(seqs) -> Seq(S)]
<1>. DEFINE n == Len(seqs)
            X == Seq(S)
            Step == [p \in 1 .. n |-> [x \in X |-> x \o seqs[p]]]
            f == FlatLoop(seqs)
<1>1. /\ n \in Nat /\ n # 0
      /\ \A p \in 1 .. n : seqs[p] \in X
      /\ 1 \in 1 .. n /\ 0 \in 0 .. n
  <2>1. seqs \in Seq(X)
    OBVIOUS
  <2>. HIDE DEF X
  <2>2. n \in Nat /\ n # 0
    BY <2>1
  <2>3. \A p \in 1 .. n : seqs[p] \in X
    BY <2>1
  <2>. QED  BY <2>2, <2>3
<1>2. \A x, y \in X : x \o y \in X
  OBVIOUS
<1>3. <<>> \in X /\ \A x \in X : <<>> \o x = x
  OBVIOUS
<1>. HIDE DEF n, X
<1>4. Step \in [1 .. n -> [X -> X]]
  BY <1>1, <1>2
<1>5. PICK g \in [0 .. n -> X] : g[0] = <<>> /\ \A p \in 1 .. n : g[p] = Step[p][g[p - 1]]
  <2>1. IsLoop(n, X, <<>>, Step)
    BY <1>1, <1>3, <1>4 DEF IsLoop
  <2>. HIDE DEF Step
  <2>2. HasValues(n, X, <<>>, Step)
    BY <2>1, Rounds
  <2>. QED  BY <2>2 DEF HasValues
<1>6. \A p \in 1 .. n : g[p - 1] \in X /\ g[p] = g[p - 1] \o seqs[p]
  <2>. SUFFICES ASSUME NEW p \in 1 .. n PROVE g[p - 1] \in X /\ g[p] = g[p - 1] \o seqs[p]
    OBVIOUS
  <2>1. p - 1 \in 0 .. n
    BY <1>1
  <2>2. g[p - 1] \in X
    BY <1>5, <2>1
  <2>. QED  BY <1>5, <2>2
<1>. DEFINE h == [p \in 1 .. n |-> g[p]]
<1>7. IsFlat(seqs, h)
  <2>1. \A p \in 1 .. n : h[p] = IF p = 1 THEN seqs[p] ELSE h[p - 1] \o seqs[p]
    <3>. SUFFICES ASSUME NEW p \in 1 .. n PROVE h[p] = IF p = 1 THEN seqs[p] ELSE h[p - 1] \o seqs[p]
      OBVIOUS
    <3>1. CASE p = 1
      <4>1. g[0] = <<>> /\ seqs[1] \in X
        BY <1>1, <1>5
      <4>2. g[1] = g[0] \o seqs[1]
        <5>1. 1 - 1 = 0
          OBVIOUS
        <5>. QED  BY <1>1, <1>6, <5>1
      <4>3. g[1] = seqs[1]
        BY <1>3, <4>1, <4>2
      <4>. QED  BY <3>1, <4>3
    <3>2. CASE p # 1
      <4>1. p - 1 \in 1 .. n
        BY <1>1, <3>2
      <4>. QED  BY <1>6, <3>2, <4>1
    <3>. QED  BY <3>1, <3>2
  <2>2. h = [p \in 1 .. n |-> IF p = 1 THEN seqs[p] ELSE h[p - 1] \o seqs[p]]
    <3>1. h = [p \in 1 .. n |-> h[p]]
      OBVIOUS
    <3>. HIDE DEF h
    <3>. QED  BY <2>1, <3>1
  <2>. HIDE DEF h
  <2>. QED  BY <2>2 DEF IsFlat, n
<1>8. IsFlat(seqs, f)
  <2>. HIDE DEF h
  <2>. QED  BY <1>7 DEF FlatLoop
<1>. HIDE DEF f
<1>9. f = [p \in 1 .. n |-> IF p = 1 THEN seqs[p] ELSE f[p - 1] \o seqs[p]]
  BY <1>8 DEF IsFlat, n
<1>10. \A p \in 1 .. n : f[p] \in X
  <2>. DEFINE T == {p \in 0 .. n : p = 0 \/ f[p] \in X}
  <2>1. 0 \in T
    BY <1>1
  <2>2. ASSUME NEW p \in 1 .. n, p - 1 \in T PROVE p \in T
    <3>1. ASSUME p = 1 PROVE f[p] \in X
      BY <1>1, <1>9, <3>1
    <3>2. ASSUME p # 1 PROVE f[p] \in X
      <4>1. p - 1 \in 1 .. n
        BY <1>1, <3>2
      <4>2. f[p - 1] \in X
        BY <2>2, <3>2, <1>1
      <4>3. f[p] = f[p - 1] \o seqs[p]
        BY <1>9, <3>2
      <4>. QED  BY <1>1, <1>2, <4>2, <4>3
    <3>3. f[p] \in X
      BY <3>1, <3>2
    <3>4. p \in 0 .. n
      BY <1>1
    <3>. QED  BY <3>3, <3>4
  <2>3. 0 .. n \subseteq T
    <3>. HIDE DEF T
    <3>. QED  BY <1>1, <2>1, <2>2, UpTo
  <2>. QED  BY <1>1, <2>3
<1>11. f \in [1 .. n -> X]
  BY <1>9, <1>10
<1>12. Json!FlattenSeq(seqs) = FlatLoop(seqs)[Len(seqs)]
  <2>1. Len(seqs) # 0
    BY <1>1 DEF n
  <2>. QED  BY <2>1, Zenon DEF Json!FlattenSeq, FlatLoop, IsFlat
<1>. QED  BY <1>8, <1>11, <1>12 DEF n, X, f

\* What is flattened to the last grows by what is appended.
LEMMA Flattened ==
  ASSUME NEW S, NEW seqs \in Seq(Seq(S)), NEW x \in Seq(S)
  PROVE  /\ Json!FlattenSeq(<<>>) = <<>>
         /\ Json!FlattenSeq(seqs) \in Seq(S)
         /\ Json!FlattenSeq(Append(seqs, x)) = Json!FlattenSeq(seqs) \o x
<1>. DEFINE X == Seq(S)
            n == Len(seqs)
            more == Append(seqs, x)
            f == FlatLoop(seqs)
            g == FlatLoop(more)
<1>1. Json!FlattenSeq(<<>>) = <<>>
  <2>1. Len(<<>>) = 0
    OBVIOUS
  <2>. QED  BY <2>1 DEF Json!FlattenSeq
<1>2. /\ more \in Seq(X) /\ Len(more) = n + 1 /\ more # <<>> /\ more[n + 1] = x
      /\ \A i \in 1 .. n : more[i] = seqs[i]
  <2>1. seqs \in Seq(X) /\ x \in X
    OBVIOUS
  <2>. HIDE DEF X
  <2>. QED  BY <2>1
<1>3. n \in Nat
  OBVIOUS
<1>4. /\ Json!FlattenSeq(more) = g[n + 1] /\ IsFlat(more, g) /\ g \in [1 .. n + 1 -> X]
  <2>. HIDE DEF more
  <2>1. Json!FlattenSeq(more) = g[Len(more)] /\ IsFlat(more, g) /\ g \in [1 .. Len(more) -> X]
    BY <1>2, FlatLoopMeans
  <2>. QED  BY <1>2, <2>1
<1>. HIDE DEF g, more
<1>5. g = [i \in 1 .. n + 1 |-> IF i = 1 THEN more[i] ELSE g[i - 1] \o more[i]]
  BY <1>2, <1>4 DEF IsFlat
<1>6. CASE seqs = <<>>
  <2>1. n = 0
    BY <1>6
  <2>2. g[1] = x
    BY <1>2, <1>5, <2>1
  <2>3. <<>> \o x = x
    OBVIOUS
  <2>4. <<>> \in Seq(S)
    OBVIOUS
  <2>5. Json!FlattenSeq(seqs) = <<>>
    BY <1>1, <1>6, Zenon
  <2>6. Json!FlattenSeq(more) = x
    BY <1>4, <2>1, <2>2
  <2>. QED  BY <1>1, <2>3, <2>4, <2>5, <2>6, Zenon DEF more
<1>7. CASE seqs # <<>>
  <2>1. n # 0
    BY <1>7
  <2>2. Json!FlattenSeq(seqs) = f[n] /\ IsFlat(seqs, f) /\ f \in [1 .. n -> X]
    BY <1>7, FlatLoopMeans
  <2>. HIDE DEF f
  <2>3. f = [i \in 1 .. n |-> IF i = 1 THEN seqs[i] ELSE f[i - 1] \o seqs[i]]
    BY <2>2 DEF IsFlat
  <2>. DEFINE T == {i \in 0 .. n : i = 0 \/ f[i] = g[i]}
  <2>. HIDE DEF n, X
  <2>4. 0 \in T
    BY <1>3
  <2>5. ASSUME NEW i \in 1 .. n, i - 1 \in T PROVE i \in T
    <3>1. i \in 1 .. n + 1 /\ i \in 0 .. n
      BY <1>3
    <3>2. g[i] = IF i = 1 THEN seqs[i] ELSE g[i - 1] \o seqs[i]
      BY <1>2, <1>5, <3>1
    <3>3. f[i] = IF i = 1 THEN seqs[i] ELSE f[i - 1] \o seqs[i]
      BY <2>3
    <3>. QED  BY <2>5, <3>1, <3>2, <3>3
  <2>6. 0 .. n \subseteq T
    <3>. HIDE DEF T
    <3>. QED  BY <1>3, <2>4, <2>5, UpTo
  <2>7. f[n] = g[n] /\ f[n] \in X
    BY <1>3, <2>1, <2>2, <2>6
  <2>8. g[n + 1] = g[n] \o x
    <3>1. n + 1 \in 1 .. n + 1 /\ n + 1 # 1 /\ (n + 1) - 1 = n
      BY <1>3, <2>1
    <3>. QED  BY <1>2, <1>5, <3>1
  <2>. QED  BY <1>1, <1>4, <2>2, <2>7, <2>8 DEF X, more
<1>. QED  BY <1>6, <1>7

\* The pieces of a sequence that is some sequences in a row: at[k] is where the
\* piece k ends.
IsCut(t, seqs, at) ==
  /\ at \in [0 .. Len(seqs) -> Nat]
  /\ at[0] = 0 /\ at[Len(seqs)] = Len(t)
  /\ \A k \in 1 .. Len(seqs) :
       /\ at[k] = at[k - 1] + Len(seqs[k])
       /\ at[k] <= Len(t)
       /\ \A j \in 1 .. Len(seqs[k]) : t[at[k - 1] + j] = seqs[k][j]

\* Sequences in a row are cut somewhere.
LEMMA Pieces ==
  ASSUME NEW S, NEW seqs \in Seq(Seq(S))
  PROVE  /\ Json!FlattenSeq(seqs) \in Seq(S)
         /\ \E at : IsCut(Json!FlattenSeq(seqs), seqs, at)
<1>. DEFINE n == Len(seqs)
            t == Json!FlattenSeq(seqs)
            f == FlatLoop(seqs)
<1>0. n \in Nat /\ <<>> \in Seq(S)
  OBVIOUS
<1>1. CASE seqs = <<>>
  <2>1. t = <<>> /\ n = 0
    <3>1. t = <<>>
      BY <1>0, <1>1, Flattened
    <3>2. n = 0
      BY <1>1
    <3>. QED  BY <3>1, <3>2
  <2>. DEFINE at == [k \in 0 .. 0 |-> 0]
  <2>2. at \in [0 .. 0 -> Nat] /\ at[0] = 0
    OBVIOUS
  <2>3. Len(t) = 0 /\ t \in Seq(S)
    BY <2>1
  <2>4. \A k \in 1 .. n : FALSE
    BY <2>1
  <2>. HIDE DEF at, t
  <2>. QED  BY <2>1, <2>2, <2>3, <2>4 DEF IsCut, t
<1>2. CASE seqs # <<>>
  <2>1. t = f[n] /\ IsFlat(seqs, f) /\ f \in [1 .. n -> Seq(S)]
    BY <1>2, FlatLoopMeans
  <2>2. n # 0
    BY <1>2
  <2>3. \A k \in 1 .. n : seqs[k] \in Seq(S)
    <3>. DEFINE X == Seq(S)
    <3>1. seqs \in Seq(X)
      OBVIOUS
    <3>. HIDE DEF X
    <3>2. \A k \in 1 .. n : seqs[k] \in X
      BY <3>1
    <3>. QED  BY <3>2 DEF X
  <2>. HIDE DEF f, t
  <2>4. f = [i \in 1 .. n |-> IF i = 1 THEN seqs[i] ELSE f[i - 1] \o seqs[i]]
    BY <2>1 DEF IsFlat
  <2>. DEFINE at == [k \in 0 .. n |-> IF k = 0 THEN 0 ELSE Len(f[k])]
  <2>. HIDE DEF n
  <2>5. at \in [0 .. n -> Nat]
    <3>. SUFFICES ASSUME NEW k \in 0 .. n, k # 0 PROVE Len(f[k]) \in Nat
      OBVIOUS
    <3>1. k \in 1 .. n
      BY <1>0
    <3>2. f[k] \in Seq(S)
      BY <2>1, <3>1
    <3>. QED  BY <3>2
  <2>6. ASSUME NEW k \in 1 .. n
        PROVE  /\ at[k] = at[k - 1] + Len(seqs[k])
               /\ \A j \in 1 .. Len(seqs[k]) : f[k][at[k - 1] + j] = seqs[k][j]
               /\ k # 1 => /\ Len(f[k - 1]) <= Len(f[k])
                           /\ \A j \in 1 .. Len(f[k - 1]) : f[k][j] = f[k - 1][j]
    <3>1. seqs[k] \in Seq(S) /\ f[k] \in Seq(S) /\ k \in 0 .. n /\ k - 1 \in 0 .. n
      BY <1>0, <2>1, <2>3
    <3>2. CASE k = 1
      <4>1. f[k] = seqs[k]
        BY <2>4, <3>2
      <4>2. at[k] = Len(f[k]) /\ at[k - 1] = 0
        BY <3>1, <3>2
      <4>. HIDE DEF at
      <4>3. Len(seqs[k]) \in Nat
        BY <3>1
      <4>. QED  BY <3>2, <4>1, <4>2, <4>3
    <3>3. CASE k # 1
      <4>1. k - 1 \in 1 .. n
        BY <1>0, <3>3
      <4>2. f[k - 1] \in Seq(S)
        BY <2>1, <4>1
      <4>3. f[k] = f[k - 1] \o seqs[k]
        BY <2>4, <3>3
      <4>4. at[k] = Len(f[k]) /\ at[k - 1] = Len(f[k - 1])
        BY <1>0, <3>1, <4>1
      <4>. HIDE DEF at
      <4>. DEFINE a == f[k - 1]
                  b == seqs[k]
      <4>5. f[k] = a \o b /\ a \in Seq(S) /\ b \in Seq(S)
        BY <3>1, <4>2, <4>3
      <4>. HIDE DEF a, b
      <4>6. /\ Len(f[k]) = Len(a) + Len(b)
            /\ Len(a) \in Nat /\ Len(b) \in Nat
            /\ \A j \in 1 .. Len(a) : f[k][j] = a[j]
            /\ \A j \in 1 .. Len(b) : f[k][Len(a) + j] = b[j]
        BY <4>5
      <4>7. Len(a) <= Len(f[k])
        BY <4>6
      <4>. QED  BY <4>4, <4>6, <4>7 DEF a, b
    <3>. QED  BY <3>2, <3>3
  <2>. DEFINE Good == {k \in 1 .. n : /\ Len(f[k]) <= Len(t)
                                      /\ \A j \in 1 .. Len(f[k]) : t[j] = f[k][j]}
  <2>7. 1 .. n \subseteq Good
    <3>1. ASSUME NEW k \in 1 .. n, \A i \in k + 1 .. n : i \in Good PROVE k \in Good
      <4>0. f[k] \in Seq(S) /\ Len(f[k]) \in Nat
        BY <2>1
      <4>1. CASE k = n
        BY <2>1, <4>0, <4>1
      <4>2. CASE k # n
        <5>. DEFINE m == k + 1
                    g == f[m]
        <5>1. m \in k + 1 .. n /\ m \in 1 .. n /\ m # 1 /\ m - 1 = k
          BY <1>0, <4>2
        <5>2. m \in Good
          BY <3>1, <5>1
        <5>3. Len(f[k]) <= Len(g) /\ \A j \in 1 .. Len(f[k]) : g[j] = f[k][j]
          <6>. HIDE DEF m, at
          <6>1. /\ Len(f[m - 1]) <= Len(f[m])
                /\ \A j \in 1 .. Len(f[m - 1]) : f[m][j] = f[m - 1][j]
            BY <2>6, <5>1
          <6>. QED  BY <5>1, <6>1
        <5>4. Len(g) <= Len(t) /\ \A j \in 1 .. Len(g) : t[j] = g[j]
          BY <5>2
        <5>5. Len(g) \in Nat /\ Len(t) \in Nat
          BY <1>0, <2>1, <2>2, <5>1
        <5>. HIDE DEF g
        <5>. QED  BY <4>0, <5>3, <5>4, <5>5
      <4>. QED  BY <4>1, <4>2
    <3>2. 1 \in Nat
      OBVIOUS
    <3>. HIDE DEF Good
    <3>. QED  BY <1>0, <3>1, <3>2, Downward
  <2>8. ASSUME NEW k \in 1 .. n
        PROVE  /\ at[k] = at[k - 1] + Len(seqs[k])
               /\ at[k] <= Len(t)
               /\ \A j \in 1 .. Len(seqs[k]) : t[at[k - 1] + j] = seqs[k][j]
    <3>1. Len(f[k]) <= Len(t) /\ \A j \in 1 .. Len(f[k]) : t[j] = f[k][j]
      BY <2>7
    <3>2. at[k] = Len(f[k]) /\ k \in 0 .. n /\ k - 1 \in 0 .. n
      BY <1>0
    <3>3. at[k] \in Nat /\ at[k - 1] \in Nat /\ Len(seqs[k]) \in Nat
      BY <2>3, <2>5, <3>2
    <3>4. /\ at[k] = at[k - 1] + Len(seqs[k])
          /\ \A j \in 1 .. Len(seqs[k]) : f[k][at[k - 1] + j] = seqs[k][j]
      BY <2>6
    <3>. HIDE DEF at
    <3>5. \A j \in 1 .. Len(seqs[k]) : at[k - 1] + j \in 1 .. Len(f[k])
      BY <3>2, <3>3, <3>4
    <3>. QED  BY <3>1, <3>2, <3>4, <3>5
  <2>9. at[0] = 0 /\ at[n] = Len(t)
    <3>1. 0 \in 0 .. n /\ n \in 0 .. n
      BY <1>0
    <3>. QED  BY <2>1, <2>2, <3>1
  <2>10. t \in Seq(S)
    <3>1. n \in 1 .. n
      BY <1>0, <2>2
    <3>. QED  BY <2>1, <3>1
  <2>. HIDE DEF at
  <2>11. IsCut(t, seqs, at)
    BY <2>5, <2>8, <2>9 DEF IsCut, n
  <2>. QED  BY <2>10, <2>11 DEF t
<1>. QED  BY <1>1, <1>2

-----------------------------------------------------------------------------
(* The types of WebJson. *)

JsonAssumption == OutputSize \in Nat /\ OutputSize > 2 /\ EscapedSize \in Nat

JsonLetters == JsonCharacters \cup {Json!Quote, Json!Backslash, "n", "u", "0", "1"}

JsonTexts == UNION {[1 .. m -> JsonCharacters] : m \in 0 .. MaxLength}

\* No two characters that the escaping tells apart are the same.
LEMMA CharactersDiffer ==
  /\ Json!Quote # Json!Backslash /\ Json!Quote # Json!NewLine /\ Json!Backslash # Json!NewLine
  /\ Json!Quote \notin {"ctl", "n", "u", "0", "1"} /\ Json!Backslash \notin {"ctl", "n", "u", "0", "1"}
  /\ Json!NewLine \notin {"ctl", "n", "u", "0", "1"}
  BY DEF Json!Quote, Json!Backslash, Json!NewLine

\* What a character becomes.
LEMMA EscapeKinds ==
  ASSUME NEW c, NEW s, s = Json!EscapeChar(c)
  PROVE  \/ c \in {Json!Quote, Json!Backslash} /\ s = <<Json!Backslash, c>>
         \/ c = Json!NewLine /\ s = <<Json!Backslash, "n">>
         \/ c = "ctl" /\ s = <<Json!Backslash, "u", "0", "0", "0", "1">>
         \/ c \notin {Json!Quote, Json!Backslash, Json!NewLine, "ctl"} /\ s = <<c>>
<1>1. CASE c \in {Json!Quote, Json!Backslash}
  BY <1>1 DEF Json!EscapeChar
<1>2. CASE c = Json!NewLine
  BY <1>2, CharactersDiffer DEF Json!EscapeChar
<1>3. CASE c = "ctl"
  BY <1>3, CharactersDiffer DEF Json!EscapeChar
<1>4. CASE c \notin {Json!Quote, Json!Backslash, Json!NewLine, "ctl"}
  BY <1>4 DEF Json!EscapeChar
<1>. QED  BY <1>1, <1>2, <1>3, <1>4

\* What the characters of a text become, one by one.
Escapes(v) == [i \in DOMAIN v |-> Json!EscapeChar(v[i])]

\* A text and what its characters become are sequences.
LEMMA TextType ==
  ASSUME NEW v \in JsonTexts
  PROVE  /\ Len(v) \in Nat /\ v \in Seq(JsonCharacters) /\ DOMAIN v = 1 .. Len(v)
         /\ Escapes(v) \in Seq(Seq(JsonLetters)) /\ Len(Escapes(v)) = Len(v)
         /\ \A k \in 1 .. Len(v) : Escapes(v)[k] = Json!EscapeChar(v[k])
<1>1. PICK m \in 0 .. MaxLength : v \in [1 .. m -> JsonCharacters]
  BY DEF JsonTexts
<1>2. m \in Nat
  OBVIOUS
<1>3. v \in Seq(JsonCharacters) /\ Len(v) = m /\ DOMAIN v = 1 .. m
  BY <1>1, <1>2, SequenceOf
<1>. DEFINE f == Escapes(v)
            X == Seq(JsonLetters)
<1>4. \A c \in JsonCharacters : Json!EscapeChar(c) \in X
  <2>. SUFFICES ASSUME NEW c \in JsonCharacters PROVE Json!EscapeChar(c) \in X
    OBVIOUS
  <2>. DEFINE S == JsonLetters
              s == Json!EscapeChar(c)
  <2>1. {c, Json!Backslash, "n", "u", "0", "1"} \subseteq S
    BY DEF JsonLetters
  <2>. HIDE DEF S
  <2>2. <<Json!Backslash, c>> \in Seq(S)
    BY <2>1
  <2>3. <<Json!Backslash, "n">> \in Seq(S)
    BY <2>1
  <2>4. <<Json!Backslash, "u", "0", "0", "0", "1">> \in Seq(S)
    BY <2>1
  <2>5. <<c>> \in Seq(S)
    BY <2>1
  <2>6. \/ s = <<Json!Backslash, c>> \/ s = <<Json!Backslash, "n">>
        \/ s = <<Json!Backslash, "u", "0", "0", "0", "1">> \/ s = <<c>>
    <3>. HIDE DEF s
    <3>1. s = Json!EscapeChar(c)
      BY DEF s
    <3>. QED  BY <3>1, EscapeKinds
  <2>. HIDE DEF s
  <2>7. s \in Seq(S)
    BY <2>2, <2>3, <2>4, <2>5, <2>6
  <2>. QED  BY <2>7 DEF S, s
<1>. HIDE DEF X
<1>5. f = [i \in 1 .. m |-> Json!EscapeChar(v[i])]
  BY <1>3 DEF Escapes
<1>. HIDE DEF f
<1>6. /\ f = [i \in 1 .. m |-> f[i]]
      /\ \A i \in 1 .. m : f[i] = Json!EscapeChar(v[i]) /\ f[i] \in X
  BY <1>1, <1>4, <1>5
<1>7. f \in Seq(X) /\ Len(f) = m
  BY <1>2, <1>6, SequenceOf
<1>. QED  BY <1>2, <1>3, <1>6, <1>7 DEF f, X

\* An escaped text, cut into what its characters became.
LEMMA EscapedPieces ==
  ASSUME NEW v \in JsonTexts
  PROVE  /\ Json!Escaped(v) \in Seq(JsonLetters)
         /\ \E at : IsCut(Json!Escaped(v), Escapes(v), at)
<1>1. Escapes(v) \in Seq(Seq(JsonLetters))
  BY TextType
<1>2. Json!Escaped(v) = Json!FlattenSeq(Escapes(v))
  BY DEF Json!Escaped, Escapes
<1>. DEFINE q == Escapes(v)
            w == Json!Escaped(v)
<1>. HIDE DEF q, w
<1>3. w \in Seq(JsonLetters) /\ \E at : IsCut(w, q, at)
  <2>1. q \in Seq(Seq(JsonLetters)) /\ w = Json!FlattenSeq(q)
    BY <1>1, <1>2 DEF q, w
  <2>. QED  BY <2>1, Pieces
<1>. QED  BY <1>3 DEF q, w

\* A step of the firmware is one of the writer or leaves it alone.
LEMMA JsonSteps == [Next]_vars => [Json!Next]_(Json!vars)
  BY DEF Next, vars, jsonVars, Json!vars, SimOnly, WifiOnly, ConfigOnly, LogOnly, StatusOnly,
         DataOnly, ConsoleOnly, JsonOnly

\* What WebJson assumes of the constants.
LEMMA JsonConstants == JsonAssumption
  BY SmallPartsAssumption DEF Json!WebJsonAssumption, JsonAssumption

WriterStates == [output : Seq(JsonLetters), used : 0 .. OutputSize - 1, ok : BOOLEAN]

JsonInv ==
  /\ writer \in WriterStates
  /\ Len(writer.output) <= writer.used
  /\ values \in Seq(JsonTexts)

\* What is appended keeps the output within what is used.
LEMMA AppendType ==
  ASSUME NEW w \in WriterStates, Len(w.output) <= w.used, NEW text \in Seq(JsonLetters)
  PROVE  /\ Json!AppendText(w, text) \in WriterStates
         /\ Len(Json!AppendText(w, text).output) <= Json!AppendText(w, text).used
<1>. DEFINE S == JsonLetters
<1>0. JsonAssumption
  BY JsonConstants
<1>1. w.output \in Seq(S) /\ w.used \in 0 .. OutputSize - 1 /\ w.ok \in BOOLEAN
  BY DEF WriterStates
<1>. HIDE DEF S
<1>2. CASE Len(text) >= OutputSize - w.used
  <2>1. Json!AppendText(w, text) = [w EXCEPT !.ok = FALSE, !.used = OutputSize - 1]
    BY <1>2 DEF Json!AppendText
  <2>2. OutputSize - 1 \in 0 .. OutputSize - 1 /\ w.used <= OutputSize - 1
    BY <1>0, <1>1 DEF JsonAssumption
  <2>3. Len(w.output) <= OutputSize - 1
    BY <1>0, <1>1, <2>2 DEF JsonAssumption
  <2>. QED  BY <2>1, <2>2, <2>3 DEF WriterStates
<1>3. CASE ~(Len(text) >= OutputSize - w.used)
  <2>. DEFINE more == w.output \o text
              used == w.used + Len(text)
  <2>1. Json!AppendText(w, text) = [w EXCEPT !.output = more, !.used = used]
    BY <1>3 DEF Json!AppendText
  <2>2. more \in Seq(S) /\ Len(more) = Len(w.output) + Len(text) /\ Len(text) \in Nat /\ Len(w.output) \in Nat
    <3>1. text \in Seq(S)
      BY DEF S
    <3>. QED  BY <1>1, <3>1
  <2>3. used \in 0 .. OutputSize - 1 /\ Len(more) <= used
    BY <1>0, <1>1, <1>3, <2>2 DEF JsonAssumption
  <2>. HIDE DEF more, used
  <2>. QED  BY <2>1, <2>2, <2>3 DEF WriterStates, S
<1>. QED  BY <1>2, <1>3

\* The answer begins empty.
LEMMA JsonInit == Json!Init => JsonInv
<1>. SUFFICES ASSUME Json!Init PROVE JsonInv
  OBVIOUS
<1>0. JsonAssumption
  BY JsonConstants
<1>1. writer = [output |-> <<>>, used |-> 0, ok |-> TRUE] /\ values = <<>>
  BY DEF Json!Init, Json!EmptyWriter
<1>2. 0 \in 0 .. OutputSize - 1
  BY <1>0 DEF JsonAssumption
<1>3. <<>> \in Seq(JsonLetters) /\ Len(<<>>) = 0 /\ <<>> \in Seq(JsonTexts)
  OBVIOUS
<1>. QED  BY <1>1, <1>2, <1>3 DEF JsonInv, WriterStates

\* What the writer counts is never less than what it wrote, and ends before the
\* buffer does.
LEMMA JsonStep == JsonInv /\ [Json!Next]_(Json!vars) => JsonInv'
<1>. SUFFICES ASSUME JsonInv, [Json!Next]_(Json!vars) PROVE JsonInv'
  OBVIOUS
<1>0. JsonAssumption
  BY JsonConstants
<1>1. ASSUME NEW text \in JsonTexts, Json!Member(text) PROVE JsonInv'
  <2>. DEFINE quote == <<Json!Quote>>
              a == Json!AppendText(writer, quote)
              b == Json!AppendEscaped(a, text)
              c == Json!AppendText(b, quote)
  <2>1. quote \in Seq(JsonLetters)
    <3>. DEFINE S == JsonLetters
    <3>1. Json!Quote \in S
      BY DEF JsonLetters
    <3>. HIDE DEF S
    <3>2. quote \in Seq(S)
      BY <3>1
    <3>. QED  BY <3>2 DEF S
  <2>. HIDE DEF quote
  <2>2. a \in WriterStates /\ Len(a.output) <= a.used
    BY <2>1, AppendType DEF JsonInv
  <2>. HIDE DEF a
  <2>3. b \in WriterStates /\ Len(b.output) <= b.used
    <3>. DEFINE e == Json!Escaped(text)
    <3>1. e \in Seq(JsonLetters)
      BY EscapedPieces
    <3>. HIDE DEF e
    <3>2. CASE Len(e) >= EscapedSize
      <4>1. b = [a EXCEPT !.ok = FALSE]
        BY <3>2 DEF Json!AppendEscaped, e
      <4>. QED  BY <2>2, <4>1 DEF WriterStates
    <3>3. CASE ~(Len(e) >= EscapedSize)
      <4>1. b = Json!AppendText(a, e)
        BY <3>3 DEF Json!AppendEscaped, e
      <4>. HIDE DEF b
      <4>. QED  BY <2>2, <3>1, <4>1, AppendType
    <3>. QED  BY <3>2, <3>3
  <2>. HIDE DEF b
  <2>4. c \in WriterStates /\ Len(c.output) <= c.used
    BY <2>1, <2>3, AppendType
  <2>5. writer' = c /\ values' = Append(values, text)
    BY <1>1 DEF Json!Member, a, b, quote
  <2>6. values' \in Seq(JsonTexts)
    BY <2>5 DEF JsonInv
  <2>. HIDE DEF c
  <2>. QED  BY <2>4, <2>5, <2>6 DEF JsonInv
<1>2. CASE Json!Send
  <2>1. writer' = [output |-> <<>>, used |-> 0, ok |-> TRUE] /\ values' = <<>>
    BY <1>2 DEF Json!Send, Json!EmptyWriter
  <2>2. 0 \in 0 .. OutputSize - 1
    BY <1>0 DEF JsonAssumption
  <2>3. <<>> \in Seq(JsonLetters) /\ Len(<<>>) = 0 /\ <<>> \in Seq(JsonTexts)
    OBVIOUS
  <2>. QED  BY <2>1, <2>2, <2>3 DEF JsonInv, WriterStates
<1>3. CASE UNCHANGED Json!vars
  BY <1>3 DEF Json!vars, JsonInv
<1>4. Json!Texts = JsonTexts
  BY DEF Json!Texts, Json!BoundedSeq, Json!SeqOf, JsonTexts
<1>. QED  BY <1>1, <1>2, <1>3, <1>4 DEF Json!Next

\* The types of WebJson.
LEMMA JsonTypes == JsonInv => Json!TypeOK
<1>. SUFFICES ASSUME JsonInv PROVE Json!TypeOK
  OBVIOUS
<1>0. JsonAssumption
  BY JsonConstants
<1>1. Json!Texts = JsonTexts
  BY DEF Json!Texts, Json!BoundedSeq, Json!SeqOf, JsonTexts
<1>2. writer.used \in 0 .. OutputSize - 1 /\ writer.ok \in BOOLEAN
  BY DEF JsonInv, WriterStates
<1>3. writer.used \in Nat /\ writer.used < OutputSize
  BY <1>0, <1>2 DEF JsonAssumption
<1>. QED  BY <1>1, <1>2, <1>3 DEF JsonInv, Json!TypeOK

-----------------------------------------------------------------------------
(* What a reader finds in an answer of WebJson. *)

\* What StringEnd() goes through.
IsEnd(text, i, e) ==
  e = [j \in i .. Len(text) + 2 |->
        IF j > Len(text) THEN Len(text) + 1
        ELSE IF text[j] = Json!Quote THEN j
        ELSE IF text[j] = Json!Backslash THEN e[j + 2]
        ELSE e[j + 1]]

EndLoop(text, i) == CHOOSE e : IsEnd(text, i, e)

\* It has a value from every place on, and ends behind the text at the latest.
LEMMA EndMeans ==
  ASSUME NEW text, Len(text) \in Nat, NEW i \in 1 .. Len(text) + 1
  PROVE  /\ IsEnd(text, i, EndLoop(text, i))
         /\ Json!StringEnd(text, i) = EndLoop(text, i)[i]
         /\ Json!StringEnd(text, i) \in i .. Len(text) + 1
<1>. DEFINE n == Len(text)
            b == n + 2
            Q == Json!Quote
            B == Json!Backslash
            Step == [j \in 1 .. b |-> [r \in [j + 1 .. b -> Nat] |->
                       IF j > n THEN n + 1
                       ELSE IF text[j] = Q THEN j
                       ELSE IF text[j] = B THEN r[j + 2]
                       ELSE r[j + 1]]]
            e == EndLoop(text, i)
<1>. HIDE DEF n, Q, B
<1>1. n \in Nat /\ b \in Nat /\ i \in 1 .. n + 1
  BY DEF n
<1>2. IsBackward(b, Nat, Step)
  <2>1. ASSUME NEW j \in 1 .. b PROVE Step[j] \in [[j + 1 .. b -> Nat] -> Nat]
    <3>1. ASSUME NEW r \in [j + 1 .. b -> Nat]
          PROVE  (IF j > n THEN n + 1
                  ELSE IF text[j] = Q THEN j
                  ELSE IF text[j] = B THEN r[j + 2]
                  ELSE r[j + 1]) \in Nat
      <4>1. ~(j > n) => r[j + 1] \in Nat /\ r[j + 2] \in Nat
        BY <1>1
      <4>2. j \in Nat /\ n + 1 \in Nat
        BY <1>1
      <4>. QED  BY <4>1, <4>2
    <3>. QED  BY <3>1
  <2>. HIDE DEF Step
  <2>. QED  BY <1>1, <2>1 DEF IsBackward
<1>3. PICK f \in [1 .. b -> Nat] : Backward(b, Step, f)
  <2>. HIDE DEF Step
  <2>. QED  BY <1>2, BackwardLoop
<1>. DEFINE Value(j, g) == IF j > n THEN n + 1
                           ELSE IF text[j] = Q THEN j
                           ELSE IF text[j] = B THEN g[j + 2]
                           ELSE g[j + 1]
<1>4. ASSUME NEW j \in 1 .. b PROVE f[j] = Value(j, f)
  <2>. DEFINE r == [k \in j + 1 .. b |-> f[k]]
  <2>1. r \in [j + 1 .. b -> Nat]
    BY <1>1
  <2>2. ~(j > n) => r[j + 1] = f[j + 1] /\ r[j + 2] = f[j + 2]
    BY <1>1
  <2>3. f[j] = Step[j][r]
    <3>. HIDE DEF Step
    <3>. QED  BY <1>3 DEF Backward
  <2>. HIDE DEF r
  <2>4. Step[j][r] = Value(j, r)
    BY <2>1
  <2>. HIDE DEF Step
  <2>. QED  BY <2>2, <2>3, <2>4
<1>. HIDE DEF Step
<1>. DEFINE g == [j \in i .. b |-> f[j]]
<1>5. IsEnd(text, i, g)
  <2>1. ASSUME NEW j \in i .. b PROVE f[j] = Value(j, g)
    <3>1. j \in 1 .. b
      BY <1>1
    <3>2. ~(j > n) => g[j + 1] = f[j + 1] /\ g[j + 2] = f[j + 2]
      BY <1>1
    <3>3. f[j] = Value(j, f)
      BY <1>4, <3>1
    <3>. HIDE DEF g
    <3>. QED  BY <3>2, <3>3
  <2>2. g = [j \in i .. b |-> Value(j, g)]
    BY <2>1
  <2>. HIDE DEF g
  <2>. QED  BY <2>2 DEF IsEnd, n, Q, B
<1>6. IsEnd(text, i, e)
  <2>. HIDE DEF g
  <2>. QED  BY <1>5 DEF EndLoop
<1>7. Json!StringEnd(text, i) = e[i]
  BY Zenon DEF Json!StringEnd, EndLoop, IsEnd
<1>. HIDE DEF e
<1>8. e = [j \in i .. b |-> Value(j, e)]
  BY <1>6 DEF IsEnd, n, Q, B
<1>. DEFINE Good == {j \in i .. b : e[j] \in Nat /\ e[j] <= n + 1 /\ (e[j] >= j \/ e[j] = n + 1)}
<1>9. i .. b \subseteq Good
  <2>1. ASSUME NEW j \in i .. b, \A k \in j + 1 .. b : k \in Good PROVE j \in Good
    <3>1. e[j] = Value(j, e)
      BY <1>8
    <3>2. CASE j > n
      BY <1>1, <3>1, <3>2
    <3>3. CASE ~(j > n)
      <4>1. j + 1 \in Good /\ j + 2 \in Good
        <5>1. j + 1 \in j + 1 .. b /\ j + 2 \in j + 1 .. b
          BY <1>1, <3>3
        <5>. HIDE DEF Good
        <5>. QED  BY <2>1, <5>1
      <4>2. /\ e[j + 1] \in Nat /\ e[j + 1] <= n + 1 /\ e[j + 1] >= j
            /\ e[j + 2] \in Nat /\ e[j + 2] <= n + 1 /\ e[j + 2] >= j
        BY <1>1, <3>3, <4>1, SMTT(30)
      <4>. HIDE DEF Good
      <4>3. e[j] \in Nat /\ e[j] <= n + 1 /\ e[j] >= j
        BY <1>1, <3>1, <3>3, <4>2, SMTT(30)
      <4>. QED  BY <4>3 DEF Good
    <3>. QED  BY <3>2, <3>3
  <2>. HIDE DEF Good
  <2>2. i \in Nat
    BY <1>1
  <2>. QED  BY <1>1, <2>1, <2>2, Downward
<1>10. e[i] \in i .. n + 1
  BY <1>1, <1>9
<1>. QED  BY <1>6, <1>7, <1>10 DEF e, n

\* What Decoded() goes through.
IsDecoded(text, r) ==
  r = [i \in 1 .. Len(text) + 6 |->
        IF i > Len(text) THEN <<>>
        ELSE IF text[i] # Json!Backslash THEN <<text[i]>> \o r[i + 1]
        ELSE IF i < Len(text) /\ text[i + 1] \in {Json!Quote, Json!Backslash, "n"}
        THEN <<Json!Unescaped(text[i + 1])>> \o r[i + 2]
        ELSE IF i + 5 <= Len(text) /\ SubSeq(text, i + 1, i + 5) = <<"u", "0", "0", "0", "1">>
        THEN <<"ctl">> \o r[i + 6]
        ELSE <<"bad">>]

DecodedLoop(text) == CHOOSE r : IsDecoded(text, r)

\* It has a value for every text,
LEMMA DecodedMeans ==
  ASSUME NEW text, Len(text) \in Nat
  PROVE  /\ IsDecoded(text, DecodedLoop(text))
         /\ Json!Decoded(text) = DecodedLoop(text)[1]
<1>. DEFINE n == Len(text)
            b == n + 6
            D == {text[k] : k \in 1 .. n} \cup {Json!Unescaped(text[k]) : k \in 1 .. n}
                   \cup {"ctl", "bad"}
            X == Seq(D)
            Whole(i) == text[i] # Json!Backslash
            Short(i) == i < n /\ text[i + 1] \in {Json!Quote, Json!Backslash, "n"}
            Long(i) == i + 5 <= n /\ SubSeq(text, i + 1, i + 5) = <<"u", "0", "0", "0", "1">>
            One(i) == IF i > n THEN <<>>
                      ELSE IF Whole(i) THEN <<text[i]>>
                      ELSE IF Short(i) THEN <<Json!Unescaped(text[i + 1])>>
                      ELSE IF Long(i) THEN <<"ctl">>
                      ELSE <<"bad">>
            Value(i, g) == IF i > n THEN <<>>
                           ELSE IF Whole(i) THEN One(i) \o g[i + 1]
                           ELSE IF Short(i) THEN One(i) \o g[i + 2]
                           ELSE IF Long(i) THEN One(i) \o g[i + 6]
                           ELSE One(i)
            Step == [i \in 1 .. b |-> [r \in [i + 1 .. b -> X] |-> Value(i, r)]]
            e == DecodedLoop(text)
<1>1. n \in Nat /\ b \in Nat
  OBVIOUS
<1>2. ASSUME NEW i \in 1 .. b PROVE One(i) \in X
  <2>1. CASE i > n
    BY <2>1
  <2>2. CASE ~(i > n)
    <3>1. text[i] \in D
      <4>. i \in 1 .. n
        BY <1>1, <2>2
      <4>. QED  OBVIOUS
    <3>2. Short(i) => Json!Unescaped(text[i + 1]) \in D
      <4>. SUFFICES ASSUME Short(i) PROVE Json!Unescaped(text[i + 1]) \in D
        OBVIOUS
      <4>1. i + 1 \in 1 .. n
        BY <1>1, <2>2
      <4>. QED  BY <4>1
    <3>3. "ctl" \in D /\ "bad" \in D
      OBVIOUS
    <3>. HIDE DEF D, Whole, Short, Long
    <3>4. \A d \in D : <<d>> \in X
      OBVIOUS
    <3>. HIDE DEF X
    <3>. QED  BY <2>2, <3>1, <3>2, <3>3, <3>4
  <2>. QED  BY <2>1, <2>2
<1>3. <<>> \in X /\ \A x, y \in X : x \o y \in X
  OBVIOUS
<1>. HIDE DEF X, One, Whole, Short, Long, n
<1>4. IsBackward(b, X, Step)
  <2>1. ASSUME NEW i \in 1 .. b PROVE Step[i] \in [[i + 1 .. b -> X] -> X]
    <3>1. ASSUME NEW r \in [i + 1 .. b -> X] PROVE Value(i, r) \in X
      <4>1. ~(i > n) => r[i + 1] \in X /\ r[i + 2] \in X /\ r[i + 6] \in X
        BY <1>1
      <4>. QED  BY <1>2, <1>3, <4>1
    <3>. HIDE DEF Value
    <3>. QED  BY <3>1
  <2>. HIDE DEF Step
  <2>. QED  BY <1>1, <2>1 DEF IsBackward
<1>5. PICK f \in [1 .. b -> X] : Backward(b, Step, f)
  <2>. HIDE DEF Step
  <2>. QED  BY <1>4, BackwardLoop
<1>6. ASSUME NEW i \in 1 .. b PROVE f[i] = Value(i, f)
  <2>. DEFINE r == [k \in i + 1 .. b |-> f[k]]
  <2>1. r \in [i + 1 .. b -> X]
    BY <1>1
  <2>2. ~(i > n) => r[i + 1] = f[i + 1] /\ r[i + 2] = f[i + 2] /\ r[i + 6] = f[i + 6]
    BY <1>1
  <2>3. f[i] = Step[i][r]
    <3>. HIDE DEF Step
    <3>. QED  BY <1>5 DEF Backward
  <2>. HIDE DEF r
  <2>4. Step[i][r] = Value(i, r)
    <3>. HIDE DEF Value
    <3>. QED  BY <2>1
  <2>. HIDE DEF Step
  <2>. QED  BY <2>2, <2>3, <2>4
<1>. HIDE DEF Step
<1>7. IsDecoded(text, f)
  <2>1. ASSUME NEW i \in 1 .. b
        PROVE  f[i] = IF i > n THEN <<>>
                      ELSE IF text[i] # Json!Backslash THEN <<text[i]>> \o f[i + 1]
                      ELSE IF i < n /\ text[i + 1] \in {Json!Quote, Json!Backslash, "n"}
                      THEN <<Json!Unescaped(text[i + 1])>> \o f[i + 2]
                      ELSE IF i + 5 <= n /\ SubSeq(text, i + 1, i + 5) = <<"u", "0", "0", "0", "1">>
                      THEN <<"ctl">> \o f[i + 6]
                      ELSE <<"bad">>
    <3>1. f[i] = Value(i, f)
      BY <1>6
    <3>. QED  BY <3>1, Zenon DEF One, Whole, Short, Long
  <2>. QED  BY <2>1 DEF IsDecoded, n
<1>8. IsDecoded(text, e)
  BY <1>7 DEF DecodedLoop
<1>9. Json!Decoded(text) = e[1]
  BY Zenon DEF Json!Decoded, DecodedLoop, IsDecoded
<1>. QED  BY <1>8, <1>9

\* What StringsOf() goes through.
IsStrings(text, s) ==
  s = [i \in 1 .. Len(text) + 2 |->
        IF i > Len(text) THEN <<>>
        ELSE IF text[i] # Json!Quote THEN s[i + 1]
        ELSE <<Json!Decoded(SubSeq(text, i + 1, Json!StringEnd(text, i + 1) - 1))>>
               \o s[Json!StringEnd(text, i + 1) + 1]]

StringsLoop(text) == CHOOSE s : IsStrings(text, s)

\* and this has one too, because a string ends behind its begin.
LEMMA StringsMean ==
  ASSUME NEW text, Len(text) \in Nat
  PROVE  /\ IsStrings(text, StringsLoop(text))
         /\ Json!StringsOf(text) = StringsLoop(text)[1]
<1>. DEFINE n == Len(text)
            b == n + 2
            End(i) == Json!StringEnd(text, i + 1)
            String(i) == Json!Decoded(SubSeq(text, i + 1, End(i) - 1))
            D == {String(i) : i \in 1 .. n}
            X == Seq(D)
            Value(i, g) == IF i > n THEN <<>>
                           ELSE IF text[i] # Json!Quote THEN g[i + 1]
                           ELSE <<String(i)>> \o g[End(i) + 1]
            Step == [i \in 1 .. b |-> [r \in [i + 1 .. b -> X] |-> Value(i, r)]]
            e == StringsLoop(text)
<1>1. n \in Nat /\ b \in Nat
  OBVIOUS
<1>2. ASSUME NEW i \in 1 .. n PROVE End(i) + 1 \in i + 1 .. b
  <2>1. i + 1 \in 1 .. n + 1
    BY <1>1
  <2>2. End(i) \in i + 1 .. n + 1
    BY <2>1, EndMeans
  <2>. HIDE DEF End
  <2>. QED  BY <1>1, <2>2
<1>. HIDE DEF End, String
<1>3. <<>> \in X /\ \A i \in 1 .. n : <<String(i)>> \in X
  OBVIOUS
<1>4. \A x, y \in X : x \o y \in X
  OBVIOUS
<1>. HIDE DEF X, n
<1>5. IsBackward(b, X, Step)
  <2>1. ASSUME NEW i \in 1 .. b PROVE Step[i] \in [[i + 1 .. b -> X] -> X]
    <3>1. ASSUME NEW r \in [i + 1 .. b -> X] PROVE Value(i, r) \in X
      <4>1. CASE i > n
        BY <1>3, <4>1
      <4>2. CASE ~(i > n)
        <5>1. i \in 1 .. n /\ i + 1 \in i + 1 .. b
          BY <1>1, <4>2
        <5>2. r[i + 1] \in X /\ r[End(i) + 1] \in X /\ <<String(i)>> \in X
          BY <1>2, <1>3, <5>1
        <5>. QED  BY <1>4, <4>2, <5>2
      <4>. QED  BY <4>1, <4>2
    <3>. HIDE DEF Value
    <3>. QED  BY <3>1
  <2>. HIDE DEF Step
  <2>. QED  BY <1>1, <2>1 DEF IsBackward
<1>6. PICK f \in [1 .. b -> X] : Backward(b, Step, f)
  <2>. HIDE DEF Step
  <2>. QED  BY <1>5, BackwardLoop
<1>7. ASSUME NEW i \in 1 .. b PROVE f[i] = Value(i, f)
  <2>. DEFINE r == [k \in i + 1 .. b |-> f[k]]
  <2>1. r \in [i + 1 .. b -> X]
    BY <1>1
  <2>2. ~(i > n) => r[i + 1] = f[i + 1] /\ r[End(i) + 1] = f[End(i) + 1]
    <3>. SUFFICES ASSUME ~(i > n) PROVE r[i + 1] = f[i + 1] /\ r[End(i) + 1] = f[End(i) + 1]
      OBVIOUS
    <3>1. i \in 1 .. n /\ i + 1 \in i + 1 .. b
      BY <1>1
    <3>. QED  BY <1>2, <3>1
  <2>3. f[i] = Step[i][r]
    <3>. HIDE DEF Step
    <3>. QED  BY <1>6 DEF Backward
  <2>. HIDE DEF r
  <2>4. Step[i][r] = Value(i, r)
    <3>. HIDE DEF Value
    <3>. QED  BY <2>1
  <2>. HIDE DEF Step
  <2>. QED  BY <2>2, <2>3, <2>4
<1>. HIDE DEF Step
<1>8. IsStrings(text, f)
  BY <1>7 DEF IsStrings, n, String, End
<1>9. IsStrings(text, e)
  BY <1>8 DEF StringsLoop
<1>10. Json!StringsOf(text) = e[1]
  BY Zenon DEF Json!StringsOf, StringsLoop, IsStrings
<1>. QED  BY <1>9, <1>10

\* The quote that ends an escaped text is the first that no backslash is before.
LEMMA EndOfEscaped ==
  ASSUME NEW v \in JsonTexts, NEW t, Len(t) \in Nat, NEW p \in Nat, NEW E,
         E = Json!Escaped(v), p + 1 + Len(E) <= Len(t),
         \A j \in 1 .. Len(E) : t[p + j] = E[j], t[p + 1 + Len(E)] = Json!Quote
  PROVE  Json!StringEnd(t, p + 1) = p + 1 + Len(E)
<1>. DEFINE m == Len(v)
            q == Escapes(v)
            n == Len(E)
            N == Len(t)
            e == EndLoop(t, p + 1)
            Q == Json!Quote
            B == Json!Backslash
<1>1. m \in Nat /\ Len(q) = m /\ \A k \in 1 .. m : q[k] = Json!EscapeChar(v[k])
  BY TextType
<1>2. n \in Nat
  BY EscapedPieces
<1>3. PICK at : IsCut(E, q, at)
  BY EscapedPieces
<1>. HIDE DEF m, q
<1>4. /\ at \in [0 .. m -> Nat] /\ at[0] = 0 /\ at[m] = n
      /\ \A k \in 1 .. m : /\ at[k] = at[k - 1] + Len(q[k])
                           /\ at[k] <= n
                           /\ \A j \in 1 .. Len(q[k]) : E[at[k - 1] + j] = q[k][j]
  BY <1>1, <1>3 DEF IsCut
<1>5. p + 1 \in 1 .. N + 1
  BY <1>2
<1>6. IsEnd(t, p + 1, e) /\ Json!StringEnd(t, p + 1) = e[p + 1]
  BY <1>5, EndMeans
<1>. HIDE DEF e, n, N, Q, B
<1>7. \A j \in p + 1 .. N : e[j] = IF t[j] = Q THEN j ELSE IF t[j] = B THEN e[j + 2] ELSE e[j + 1]
  <2>1. e = [j \in p + 1 .. N + 2 |->
             IF j > N THEN N + 1
             ELSE IF t[j] = Q THEN j
             ELSE IF t[j] = B THEN e[j + 2]
             ELSE e[j + 1]]
    BY <1>6 DEF IsEnd, N, Q, B
  <2>. SUFFICES ASSUME NEW j \in p + 1 .. N
                PROVE  e[j] = IF t[j] = Q THEN j ELSE IF t[j] = B THEN e[j + 2] ELSE e[j + 1]
    OBVIOUS
  <2>2. j \in p + 1 .. N + 2 /\ ~(j > N)
    BY DEF N
  <2>. QED  BY <2>1, <2>2
<1>. DEFINE Good == {k \in 0 .. m : e[p + 1 + at[k]] = p + 1 + n}
<1>8. 0 .. m \subseteq Good
  <2>1. ASSUME NEW k \in 0 .. m, \A i \in k + 1 .. m : i \in Good PROVE k \in Good
    <3>1. CASE k = m
      <4>1. p + 1 + n \in p + 1 .. N
        BY <1>2 DEF n, N
      <4>2. t[p + 1 + n] = Q
        BY DEF n, Q
      <4>3. e[p + 1 + n] = p + 1 + n
        BY <1>7, <4>1, <4>2
      <4>. QED  BY <1>4, <3>1, <4>3
    <3>2. CASE k # m
      <4>. DEFINE i == k + 1
                  a == at[k]
                  x == p + 1 + a
                  c == v[i]
                  s == q[i]
      <4>1. i \in k + 1 .. m /\ i \in 1 .. m /\ i - 1 = k
        BY <1>1, <3>2
      <4>2. a \in Nat
        BY <1>4
      <4>. HIDE DEF i
      <4>3. /\ at[i] = a + Len(s) /\ at[i] <= n
            /\ \A j \in 1 .. Len(s) : E[a + j] = s[j]
        BY <1>4, <4>1
      <4>4. e[p + 1 + at[i]] = p + 1 + n
        <5>1. i \in Good
          <6>. HIDE DEF Good
          <6>. QED  BY <2>1, <4>1
        <5>. QED  BY <5>1
      <4>5. \/ c \in {Q, B} /\ s = <<B, c>>
            \/ c = Json!NewLine /\ s = <<B, "n">>
            \/ c = "ctl" /\ s = <<B, "u", "0", "0", "0", "1">>
            \/ c \notin {Q, B, Json!NewLine, "ctl"} /\ s = <<c>>
        <5>1. s = Json!EscapeChar(c)
          BY <1>1, <4>1
        <5>. HIDE DEF s, c
        <5>. QED  BY <5>1, EscapeKinds DEF Q, B
      <4>. HIDE DEF a, s, c
      <4>6. ASSUME NEW j \in 1 .. Len(s), Len(s) \in Nat
            PROVE  /\ t[p + a + j] = s[j]
                   /\ p + a + j \in p + 1 .. N
        <5>1. a + j \in 1 .. n
          BY <1>2, <4>2, <4>3, <4>6
        <5>2. t[p + (a + j)] = E[a + j] /\ E[a + j] = s[j]
          BY <4>3, <5>1 DEF n
        <5>3. p + (a + j) = p + a + j
          BY <4>2
        <5>. QED  BY <1>2, <4>2, <5>1, <5>2, <5>3 DEF N, n
      <4>. DEFINE y == p + a
      <4>7. y \in Nat /\ x = y + 1
        BY <4>2
      <4>. HIDE DEF x
      <4>8. /\ \A j \in 1 .. Len(s) : Len(s) \in Nat => t[y + j] = s[j] /\ y + j \in p + 1 .. N
            /\ p + 1 + at[i] = y + 1 + Len(s)
        <5>1. Len(s) \in {1, 2, 6}
          BY <4>5
        <5>. QED  BY <4>2, <4>3, <4>6, <5>1
      <4>. HIDE DEF y
      <4>9. B # Q /\ "u" \notin {Q, B} /\ "0" \notin {Q, B} /\ "1" \notin {Q, B}
        BY CharactersDiffer DEF Q, B
      <4>10. CASE Len(s) = 2 /\ s[1] = B
        <5>1. t[y + 1] = B /\ y + 1 \in p + 1 .. N
          BY <4>8, <4>10
        <5>2. e[y + 1] = e[(y + 1) + 2]
          BY <1>7, <4>9, <5>1
        <5>. QED  BY <4>4, <4>7, <4>8, <4>10, <5>2 DEF x, a
      <4>11. CASE s = <<B, "u", "0", "0", "0", "1">>
        <5>1. Len(s) = 6 /\ s[1] = B /\ s[3] = "0" /\ s[4] = "0" /\ s[5] = "0" /\ s[6] = "1"
          BY <4>11
        <5>2. /\ t[y + 1] = B /\ t[y + 3] = "0" /\ t[y + 4] = "0" /\ t[y + 5] = "0" /\ t[y + 6] = "1"
              /\ {y + 1, y + 3, y + 4, y + 5, y + 6} \subseteq p + 1 .. N
          BY <4>8, <5>1
        <5>3. e[y + 1] = e[(y + 1) + 2] /\ e[y + 3] = e[(y + 3) + 1] /\ e[y + 4] = e[(y + 4) + 1]
              /\ e[y + 5] = e[(y + 5) + 1] /\ e[y + 6] = e[(y + 6) + 1]
          BY <1>7, <4>9, <5>2
        <5>4. /\ (y + 1) + 2 = y + 3 /\ (y + 3) + 1 = y + 4 /\ (y + 4) + 1 = y + 5
              /\ (y + 5) + 1 = y + 6 /\ (y + 6) + 1 = y + 7 /\ y + 1 + 6 = y + 7
          BY <4>7
        <5>5. e[y + 1] = e[y + 7]
          BY <5>3, <5>4
        <5>. QED  BY <4>4, <4>7, <4>8, <5>1, <5>4, <5>5 DEF x, a
      <4>12. CASE c \notin {Q, B} /\ s = <<c>>
        <5>1. Len(s) = 1 /\ s[1] = c
          BY <4>12
        <5>2. t[y + 1] = c /\ y + 1 \in p + 1 .. N
          BY <4>8, <5>1
        <5>3. e[y + 1] = e[(y + 1) + 1]
          BY <1>7, <4>12, <5>2
        <5>. QED  BY <4>4, <4>7, <4>8, <5>1, <5>3 DEF x, a
      <4>13. (Len(s) = 2 /\ s[1] = B) \/ s = <<B, "u", "0", "0", "0", "1">> \/ (c \notin {Q, B} /\ s = <<c>>)
        BY <4>5
      <4>. QED  BY <4>10, <4>11, <4>12, <4>13
    <3>. QED  BY <3>1, <3>2
  <2>. HIDE DEF Good
  <2>. QED  BY <1>1, <2>1, Downward
<1>9. e[p + 1] = p + 1 + n
  <2>1. 0 \in Good
    <3>. HIDE DEF Good
    <3>. QED  BY <1>1, <1>8
  <2>2. p + 1 + at[0] = p + 1
    BY <1>4
  <2>. QED  BY <2>1, <2>2
<1>. QED  BY <1>6, <1>9 DEF n

\* What webJsonEscape() makes of a text, decodeJsonString() undoes.
LEMMA DecodedEscaped == ASSUME NEW v \in JsonTexts PROVE Json!Decoded(Json!Escaped(v)) = v
<1>. DEFINE m == Len(v)
            q == Escapes(v)
            E == Json!Escaped(v)
            n == Len(E)
            r == DecodedLoop(E)
            Q == Json!Quote
            B == Json!Backslash
<1>1. m \in Nat /\ Len(q) = m /\ \A k \in 1 .. m : q[k] = Json!EscapeChar(v[k])
  BY TextType
<1>2. n \in Nat /\ E \in Seq(JsonLetters)
  <2>1. E \in Seq(JsonLetters)
    BY EscapedPieces
  <2>. HIDE DEF E
  <2>. QED  BY <2>1
<1>3. PICK at : IsCut(E, q, at)
  BY EscapedPieces
<1>4. \A k \in 0 .. m : SubSeq(v, k + 1, m) = IF k = m THEN <<>> ELSE <<v[k + 1]>> \o SubSeq(v, k + 2, m)
  <2>. SUFFICES ASSUME NEW k \in 0 .. m
                PROVE  SubSeq(v, k + 1, m) = IF k = m THEN <<>> ELSE <<v[k + 1]>> \o SubSeq(v, k + 2, m)
    OBVIOUS
  <2>1. v \in Seq(JsonCharacters)
    BY TextType
  <2>2. SubSeq(v, m + 1, m) = <<>>
    BY <2>1, Rest
  <2>3. ASSUME k # m PROVE SubSeq(v, k + 1, m) = <<v[k + 1]>> \o SubSeq(v, k + 2, m)
    <3>1. k + 1 \in 1 .. m /\ (k + 1) + 1 = k + 2
      BY <1>1, <2>3
    <3>2. \A i \in 1 .. m : SubSeq(v, i, m) = <<v[i]>> \o SubSeq(v, i + 1, m)
      BY <2>1, Rest
    <3>3. SubSeq(v, k + 1, m) = <<v[k + 1]>> \o SubSeq(v, (k + 1) + 1, m)
      BY <3>1, <3>2
    <3>. QED  BY <3>1, <3>3
  <2>. QED  BY <2>2, <2>3
<1>5. SubSeq(v, 1, m) = v
  <2>1. v \in Seq(JsonCharacters)
    BY TextType
  <2>. QED  BY <2>1, Rest
<1>. HIDE DEF m, q
<1>6. /\ at \in [0 .. m -> Nat] /\ at[0] = 0 /\ at[m] = n
      /\ \A k \in 1 .. m : /\ at[k] = at[k - 1] + Len(q[k])
                           /\ at[k] <= n
                           /\ \A j \in 1 .. Len(q[k]) : E[at[k - 1] + j] = q[k][j]
  BY <1>1, <1>3 DEF IsCut
<1>7. IsDecoded(E, r) /\ Json!Decoded(E) = r[1]
  BY <1>2, DecodedMeans
<1>. HIDE DEF r, n, E, Q, B
<1>8. \A i \in 1 .. n + 6 :
        r[i] = IF i > n THEN <<>>
               ELSE IF E[i] # B THEN <<E[i]>> \o r[i + 1]
               ELSE IF i < n /\ E[i + 1] \in {Q, B, "n"}
               THEN <<Json!Unescaped(E[i + 1])>> \o r[i + 2]
               ELSE IF i + 5 <= n /\ SubSeq(E, i + 1, i + 5) = <<"u", "0", "0", "0", "1">>
               THEN <<"ctl">> \o r[i + 6]
               ELSE <<"bad">>
  BY <1>7 DEF IsDecoded, n, Q, B
<1>. DEFINE Good == {k \in 0 .. m : r[1 + at[k]] = SubSeq(v, k + 1, m)}
<1>9. 0 .. m \subseteq Good
  <2>1. ASSUME NEW k \in 0 .. m, \A i \in k + 1 .. m : i \in Good PROVE k \in Good
    <3>1. CASE k = m
      <4>1. 1 + n \in 1 .. n + 6 /\ 1 + n > n
        BY <1>2
      <4>2. r[1 + n] = <<>>
        BY <1>8, <4>1
      <4>3. SubSeq(v, k + 1, m) = <<>>
        BY <1>4, <3>1
      <4>. QED  BY <1>6, <3>1, <4>2, <4>3
    <3>2. CASE k # m
      <4>. DEFINE i == k + 1
                  a == at[k]
                  c == v[i]
                  s == q[i]
                  x == a + 1
      <4>1. i \in k + 1 .. m /\ i \in 1 .. m /\ i - 1 = k /\ i + 1 = k + 2
        BY <1>1, <3>2
      <4>2. a \in Nat
        BY <1>6
      <4>3. SubSeq(v, k + 1, m) = <<c>> \o SubSeq(v, k + 2, m)
        BY <1>4, <3>2
      <4>. HIDE DEF i
      <4>4. /\ at[i] = a + Len(s) /\ at[i] <= n
            /\ \A j \in 1 .. Len(s) : E[a + j] = s[j]
        BY <1>6, <4>1
      <4>5. r[1 + at[i]] = SubSeq(v, k + 2, m)
        <5>1. i \in Good
          <6>. HIDE DEF Good
          <6>. QED  BY <2>1, <4>1
        <5>. QED  BY <4>1, <5>1
      <4>6. \/ c \in {Q, B} /\ s = <<B, c>>
            \/ c = Json!NewLine /\ s = <<B, "n">>
            \/ c = "ctl" /\ s = <<B, "u", "0", "0", "0", "1">>
            \/ c \notin {Q, B, Json!NewLine, "ctl"} /\ s = <<c>>
        <5>1. s = Json!EscapeChar(c)
          BY <1>1, <4>1
        <5>. HIDE DEF s, c
        <5>. QED  BY <5>1, EscapeKinds DEF Q, B
      <4>7. B # Q /\ "u" \notin {Q, B, "n"} /\ Json!NewLine \notin {Q, B, "n"} /\ "n" \notin {Q, B}
        BY CharactersDiffer DEF Q, B
      <4>. HIDE DEF a, s, c
      <4>8. r[x] = <<c>> \o r[1 + at[i]]
        <5>1. CASE s = <<B, c>> /\ c \in {Q, B}
          <6>1. Len(s) = 2 /\ s[1] = B /\ s[2] = c
            BY <5>1
          <6>2. E[x] = B /\ E[x + 1] = c /\ x \in 1 .. n + 6 /\ ~(x > n) /\ x < n /\ x + 2 = 1 + at[i]
            <7>1. E[a + 1] = B /\ E[a + 2] = c /\ a + 2 <= n
              BY <4>4, <6>1
            <7>2. x + 1 = a + 2
              BY <4>2
            <7>. QED  BY <1>2, <4>2, <4>4, <6>1, <7>1, <7>2
          <6>3. Json!Unescaped(c) = c
            BY <4>7, <5>1 DEF Json!Unescaped
          <6>. HIDE DEF x
          <6>4. r[x] = <<Json!Unescaped(c)>> \o r[x + 2]
            BY <1>8, <5>1, <6>2
          <6>. QED  BY <6>2, <6>3, <6>4
        <5>2. CASE s = <<B, "n">> /\ c = Json!NewLine
          <6>1. Len(s) = 2 /\ s[1] = B /\ s[2] = "n"
            BY <5>2
          <6>2. E[x] = B /\ E[x + 1] = "n" /\ x \in 1 .. n + 6 /\ ~(x > n) /\ x < n /\ x + 2 = 1 + at[i]
            <7>1. E[a + 1] = B /\ E[a + 2] = "n" /\ a + 2 <= n
              BY <4>4, <6>1
            <7>2. x + 1 = a + 2
              BY <4>2
            <7>. QED  BY <1>2, <4>2, <4>4, <6>1, <7>1, <7>2
          <6>3. Json!Unescaped("n") = c
            BY <5>2 DEF Json!Unescaped
          <6>. HIDE DEF x
          <6>4. r[x] = <<Json!Unescaped("n")>> \o r[x + 2]
            BY <1>8, <6>2
          <6>. QED  BY <6>2, <6>3, <6>4
        <5>3. CASE s = <<B, "u", "0", "0", "0", "1">> /\ c = "ctl"
          <6>1. /\ Len(s) = 6 /\ s[1] = B /\ s[2] = "u" /\ s[3] = "0" /\ s[4] = "0" /\ s[5] = "0"
                /\ s[6] = "1"
            BY <5>3
          <6>2. /\ E[a + 1] = B /\ E[a + 2] = "u" /\ E[a + 3] = "0" /\ E[a + 4] = "0"
                /\ E[a + 5] = "0" /\ E[a + 6] = "1" /\ at[i] = a + 6 /\ a + 6 <= n
            BY <4>4, <6>1
          <6>3. /\ x + 1 = a + 2 /\ x + 5 = a + 6 /\ x + 6 = 1 + at[i] /\ x < n
                /\ x \in 1 .. n + 6 /\ ~(x > n) /\ x + 5 <= n
            BY <1>2, <4>2, <6>2
          <6>4. SubSeq(E, a + 2, a + 6) = <<"u", "0", "0", "0", "1">>
            <7>. DEFINE w == SubSeq(E, a + 2, a + 6)
                        u == <<"u", "0", "0", "0", "1">>
            <7>1. /\ a + 2 \in 1 .. n /\ a + 6 \in 1 .. n /\ a + 6 - (a + 2) + 1 = 5
              BY <1>2, <4>2, <6>2
            <7>2. w \in Seq(JsonLetters) /\ Len(w) = 5 /\ \A j \in 1 .. 5 : w[j] = E[(a + 2) + j - 1]
              BY <1>2, <4>2, <7>1 DEF n
            <7>3. /\ (a + 2) + 1 - 1 = a + 2 /\ (a + 2) + 2 - 1 = a + 3 /\ (a + 2) + 3 - 1 = a + 4
                  /\ (a + 2) + 4 - 1 = a + 5 /\ (a + 2) + 5 - 1 = a + 6
              BY <4>2
            <7>4. 1 \in 1 .. 5 /\ 2 \in 1 .. 5 /\ 3 \in 1 .. 5 /\ 4 \in 1 .. 5 /\ 5 \in 1 .. 5
              OBVIOUS
            <7>. HIDE DEF w
            <7>5. w[1] = "u" /\ w[2] = "0" /\ w[3] = "0" /\ w[4] = "0" /\ w[5] = "1"
              BY <6>2, <7>2, <7>3, <7>4
            <7>6. w = <<w[1], w[2], w[3], w[4], w[5]>>
              BY <7>2
            <7>. QED  BY <7>5, <7>6 DEF w
          <6>. HIDE DEF x
          <6>5. r[x] = <<"ctl">> \o r[x + 6]
            <7>1. E[x] = B
              BY <6>2 DEF x
            <7>2. E[x + 1] \notin {Q, B, "n"}
              BY <4>7, <6>2, <6>3
            <7>3. SubSeq(E, x + 1, x + 5) = <<"u", "0", "0", "0", "1">>
              BY <6>3, <6>4
            <7>. QED  BY <1>8, <6>3, <7>1, <7>2, <7>3
          <6>. QED  BY <5>3, <6>3, <6>5
        <5>4. CASE s = <<c>> /\ c \notin {Q, B}
          <6>1. Len(s) = 1 /\ s[1] = c
            BY <5>4
          <6>2. E[x] = c /\ x \in 1 .. n + 6 /\ ~(x > n) /\ x + 1 = 1 + at[i]
            <7>1. E[a + 1] = c /\ a + 1 <= n
              BY <4>4, <6>1
            <7>. QED  BY <1>2, <4>2, <4>4, <6>1, <7>1
          <6>. HIDE DEF x
          <6>3. r[x] = <<c>> \o r[x + 1]
            BY <1>8, <5>4, <6>2
          <6>. QED  BY <6>2, <6>3
        <5>. QED  BY <4>6, <5>1, <5>2, <5>3, <5>4
      <4>9. 1 + at[k] = x
        BY <4>2 DEF a
      <4>. QED  BY <4>3, <4>5, <4>8, <4>9
    <3>. QED  BY <3>1, <3>2
  <2>. HIDE DEF Good
  <2>. QED  BY <1>1, <2>1, Downward
<1>10. r[1] = v
  <2>1. 0 \in Good
    <3>. HIDE DEF Good
    <3>. QED  BY <1>1, <1>9
  <2>2. 1 + at[0] = 1 /\ 0 + 1 = 1
    BY <1>6
  <2>. QED  BY <1>5, <2>1, <2>2
<1>. QED  BY <1>7, <1>10 DEF E

\* The values of an answer, each in its quotes.
QuotedText(v) == <<Json!Quote>> \o Json!Escaped(v) \o <<Json!Quote>>

Quoted(vs) == [i \in DOMAIN vs |-> QuotedText(vs[i])]

\* A value in its quotes, letter by letter.
LEMMA QuotedTextIs ==
  ASSUME NEW v \in JsonTexts, NEW E, E = Json!Escaped(v)
  PROVE  /\ E \in Seq(JsonLetters) /\ Len(E) \in Nat
         /\ QuotedText(v) \in Seq(JsonLetters)
         /\ Len(QuotedText(v)) = Len(E) + 2
         /\ QuotedText(v)[1] = Json!Quote
         /\ \A j \in 1 .. Len(E) : QuotedText(v)[1 + j] = E[j]
         /\ QuotedText(v)[Len(E) + 2] = Json!Quote
<1>. DEFINE S == JsonLetters
            Q == Json!Quote
<1>1. E \in Seq(S)
  BY EscapedPieces
<1>2. Q \in S
  BY DEF JsonLetters
<1>3. QuotedText(v) = <<Q>> \o E \o <<Q>>
  BY DEF QuotedText
<1>. HIDE DEF S, Q
<1>. QED  BY <1>1, <1>2, <1>3 DEF S, Q

\* The values of an answer in their quotes are sequences of letters.
LEMMA QuotedType ==
  ASSUME NEW vs \in Seq(JsonTexts)
  PROVE  /\ Quoted(vs) \in Seq(Seq(JsonLetters)) /\ Len(Quoted(vs)) = Len(vs)
         /\ \A k \in 1 .. Len(vs) : Quoted(vs)[k] = QuotedText(vs[k])
<1>. DEFINE f == Quoted(vs)
            X == Seq(JsonLetters)
            m == Len(vs)
<1>1. m \in Nat /\ DOMAIN vs = 1 .. m /\ \A k \in 1 .. m : vs[k] \in JsonTexts
  OBVIOUS
<1>2. \A k \in 1 .. m : QuotedText(vs[k]) \in X
  BY <1>1, QuotedTextIs
<1>. HIDE DEF X, m
<1>3. f = [i \in 1 .. m |-> QuotedText(vs[i])]
  BY <1>1 DEF Quoted
<1>. HIDE DEF f
<1>4. f = [i \in 1 .. m |-> f[i]] /\ \A i \in 1 .. m : f[i] = QuotedText(vs[i]) /\ f[i] \in X
  BY <1>2, <1>3
<1>5. f \in Seq(X) /\ Len(f) = m
  BY <1>1, <1>4, SequenceOf
<1>. QED  BY <1>4, <1>5 DEF f, X, m

\* A reader finds in an answer the values that were written.
LEMMA StringsOfQuoted ==
  ASSUME NEW vs \in Seq(JsonTexts), NEW t, t = Json!FlattenSeq(Quoted(vs))
  PROVE  Json!StringsOf(t) = vs
<1>. DEFINE m == Len(vs)
            q == Quoted(vs)
            n == Len(t)
            s == StringsLoop(t)
            Q == Json!Quote
<1>1. /\ q \in Seq(Seq(JsonLetters)) /\ Len(q) = m
      /\ \A k \in 1 .. m : q[k] = QuotedText(vs[k])
  BY QuotedType
<1>2. m \in Nat /\ \A k \in 1 .. m : vs[k] \in JsonTexts
  OBVIOUS
<1>3. \A k \in 0 .. m : SubSeq(vs, k + 1, m) = IF k = m THEN <<>> ELSE <<vs[k + 1]>> \o SubSeq(vs, k + 2, m)
  <2>. SUFFICES ASSUME NEW k \in 0 .. m
                PROVE  SubSeq(vs, k + 1, m) = IF k = m THEN <<>> ELSE <<vs[k + 1]>> \o SubSeq(vs, k + 2, m)
    OBVIOUS
  <2>2. SubSeq(vs, m + 1, m) = <<>>
    BY Rest
  <2>3. ASSUME k # m PROVE SubSeq(vs, k + 1, m) = <<vs[k + 1]>> \o SubSeq(vs, k + 2, m)
    <3>1. k + 1 \in 1 .. m /\ (k + 1) + 1 = k + 2
      BY <1>2, <2>3
    <3>2. \A i \in 1 .. m : SubSeq(vs, i, m) = <<vs[i]>> \o SubSeq(vs, i + 1, m)
      BY Rest
    <3>3. SubSeq(vs, k + 1, m) = <<vs[k + 1]>> \o SubSeq(vs, (k + 1) + 1, m)
      BY <3>1, <3>2
    <3>. QED  BY <3>1, <3>3
  <2>. QED  BY <2>2, <2>3
<1>4. SubSeq(vs, 1, m) = vs
  BY Rest
<1>. HIDE DEF m, q
<1>5. t \in Seq(JsonLetters) /\ \E at : IsCut(t, q, at)
  <2>1. t = Json!FlattenSeq(q)
    BY DEF q
  <2>. QED  BY <1>1, <2>1, Pieces
<1>6. PICK at : IsCut(t, q, at)
  BY <1>5
<1>7. n \in Nat
  BY <1>5
<1>8. /\ at \in [0 .. m -> Nat] /\ at[0] = 0 /\ at[m] = n
      /\ \A k \in 1 .. m : /\ at[k] = at[k - 1] + Len(q[k])
                           /\ at[k] <= n
                           /\ \A j \in 1 .. Len(q[k]) : t[at[k - 1] + j] = q[k][j]
  BY <1>1, <1>6 DEF IsCut
<1>9. IsStrings(t, s) /\ Json!StringsOf(t) = s[1]
  BY <1>7, StringsMean
<1>. HIDE DEF s, n, Q
<1>10. /\ s[n + 1] = <<>>
       /\ \A i \in 1 .. n :
            t[i] = Q => s[i] = <<Json!Decoded(SubSeq(t, i + 1, Json!StringEnd(t, i + 1) - 1))>>
                                 \o s[Json!StringEnd(t, i + 1) + 1]
  <2>1. \A i \in 1 .. n + 2 :
          s[i] = IF i > n THEN <<>>
                 ELSE IF t[i] # Q THEN s[i + 1]
                 ELSE <<Json!Decoded(SubSeq(t, i + 1, Json!StringEnd(t, i + 1) - 1))>>
                        \o s[Json!StringEnd(t, i + 1) + 1]
    BY <1>9 DEF IsStrings, n, Q
  <2>2. n + 1 \in 1 .. n + 2 /\ n + 1 > n
    BY <1>7
  <2>3. \A i \in 1 .. n : i \in 1 .. n + 2 /\ ~(i > n)
    BY <1>7
  <2>. QED  BY <2>1, <2>2, <2>3
<1>. DEFINE Good == {k \in 0 .. m : s[1 + at[k]] = SubSeq(vs, k + 1, m)}
<1>11. 0 .. m \subseteq Good
  <2>1. ASSUME NEW k \in 0 .. m, \A i \in k + 1 .. m : i \in Good PROVE k \in Good
    <3>1. CASE k = m
      <4>1. SubSeq(vs, k + 1, m) = <<>>
        BY <1>3, <3>1
      <4>2. 1 + at[k] = n + 1
        BY <1>7, <1>8, <3>1
      <4>. QED  BY <1>10, <4>1, <4>2
    <3>2. CASE k # m
      <4>. DEFINE i == k + 1
                  a == at[k]
                  v == vs[i]
                  E == Json!Escaped(v)
                  d == Len(E)
                  p == a + 1
      <4>1. i \in k + 1 .. m /\ i \in 1 .. m /\ i - 1 = k /\ i + 1 = k + 2
        BY <1>2, <3>2
      <4>2. a \in Nat /\ v \in JsonTexts
        <5>1. a \in Nat
          BY <1>8
        <5>2. v \in JsonTexts
          BY <1>2, <4>1
        <5>. QED  BY <5>1, <5>2
      <4>3. SubSeq(vs, k + 1, m) = <<v>> \o SubSeq(vs, k + 2, m)
        BY <1>3, <3>2
      <4>4. s[1 + at[i]] = SubSeq(vs, k + 2, m)
        <5>1. i \in Good
          <6>. HIDE DEF Good, i
          <6>. QED  BY <2>1, <4>1
        <5>2. s[1 + at[i]] = SubSeq(vs, i + 1, m)
          <6>. HIDE DEF i
          <6>. QED  BY <5>1
        <5>. QED  BY <4>1, <5>2
      <4>. HIDE DEF i
      <4>5. /\ E \in Seq(JsonLetters) /\ d \in Nat
            /\ Len(q[i]) = d + 2
            /\ q[i][1] = Q /\ q[i][d + 2] = Q
            /\ \A j \in 1 .. d : q[i][1 + j] = E[j]
        <5>1. q[i] = QuotedText(v)
          BY <1>1, <4>1
        <5>. HIDE DEF v
        <5>. QED  BY <4>2, <5>1, QuotedTextIs DEF Q
      <4>6. /\ at[i] = a + (d + 2) /\ at[i] <= n
            /\ \A j \in 1 .. d + 2 : t[a + j] = q[i][j]
        <5>1. /\ at[i] = a + Len(q[i]) /\ at[i] <= n
              /\ \A j \in 1 .. Len(q[i]) : t[a + j] = q[i][j]
          BY <1>8, <4>1
        <5>. QED  BY <4>5, <5>1
      <4>. HIDE DEF a, v, E, d
      <4>7. t[p] = Q /\ t[p + 1 + d] = Q /\ p + 1 + d <= n /\ p \in 1 .. n
        <5>1. 1 \in 1 .. d + 2 /\ d + 2 \in 1 .. d + 2
          BY <4>5
        <5>2. t[a + 1] = Q /\ t[a + (d + 2)] = Q
          BY <4>5, <4>6, <5>1
        <5>3. a + (d + 2) = p + 1 + d
          BY <4>2, <4>5
        <5>. QED  BY <1>7, <4>2, <4>5, <4>6, <5>2, <5>3
      <4>8. \A j \in 1 .. d : t[p + j] = E[j]
        <5>. SUFFICES ASSUME NEW j \in 1 .. d PROVE t[p + j] = E[j]
          OBVIOUS
        <5>1. 1 + j \in 1 .. d + 2 /\ a + (1 + j) = p + j
          BY <4>2, <4>5
        <5>2. t[a + (1 + j)] = q[i][1 + j]
          BY <4>6, <5>1
        <5>. QED  BY <4>5, <5>1, <5>2
      <4>. HIDE DEF p
      <4>9. Json!StringEnd(t, p + 1) = p + 1 + d
        <5>1. p \in Nat
          BY <4>7
        <5>. QED  BY <1>7, <4>2, <4>7, <4>8, <5>1, EndOfEscaped DEF d, E, Q, n
      <4>10. SubSeq(t, p + 1, (p + 1 + d) - 1) = E
        <5>. DEFINE w == SubSeq(t, p + 1, (p + 1 + d) - 1)
        <5>1. p \in Nat /\ (p + 1 + d) - 1 <= n /\ (p + 1 + d) - 1 = p + d
          BY <1>7, <4>5, <4>7
        <5>2. w \in Seq(JsonLetters) /\ Len(w) = d /\ \A j \in 1 .. d : w[j] = t[(p + 1) + j - 1]
          BY <1>5, <1>7, <4>5, <5>1 DEF n
        <5>3. \A j \in 1 .. d : (p + 1) + j - 1 = p + j
          BY <4>5, <5>1
        <5>. HIDE DEF w
        <5>4. \A j \in 1 .. d : w[j] = E[j]
          BY <4>8, <5>2, <5>3
        <5>5. Len(E) = d
          BY DEF d
        <5>6. w = E
          BY <4>5, <5>2, <5>4, <5>5, SameSequence
        <5>. QED  BY <5>6 DEF w
      <4>11. Json!Decoded(E) = v
        BY <4>2, DecodedEscaped DEF E
      <4>12. s[p] = <<v>> \o s[(p + 1 + d) + 1]
        BY <1>10, <4>7, <4>9, <4>10, <4>11
      <4>13. (p + 1 + d) + 1 = 1 + at[i] /\ p = 1 + at[k]
        <5>1. p = a + 1
          BY DEF p
        <5>2. (p + 1 + d) + 1 = 1 + at[i] /\ p = 1 + a
          BY <4>2, <4>5, <4>6, <5>1
        <5>. QED  BY <5>2 DEF a
      <4>14. s[1 + at[k]] = SubSeq(vs, k + 1, m)
        BY <4>3, <4>4, <4>12, <4>13
      <4>. QED  BY <4>14
    <3>. QED  BY <3>1, <3>2
  <2>. HIDE DEF Good
  <2>. QED  BY <1>2, <2>1, Downward
<1>12. s[1] = vs
  <2>1. 0 \in Good
    <3>. HIDE DEF Good
    <3>. QED  BY <1>2, <1>11
  <2>2. 1 + at[0] = 1 /\ 0 + 1 = 1
    BY <1>8
  <2>. QED  BY <1>4, <2>1, <2>2
<1>. QED  BY <1>9, <1>12

\* The length of an answer that is whole, and what must fit for it to be.
AnswerOf(vs) == Json!FlattenSeq(Quoted(vs))

Fits(vs) ==
  /\ Len(AnswerOf(vs)) < OutputSize
  /\ \A i \in DOMAIN vs : Len(Json!Escaped(vs[i])) < EscapedSize

\* The writer goes on as long as everything fits, and has then written all.
WriterInv ==
  /\ writer.ok => writer.output = AnswerOf(values) /\ writer.used = Len(AnswerOf(values))
  /\ writer.ok <=> Fits(values)

\* An answer grows by a value in its quotes.
LEMMA AnswerGrows ==
  ASSUME NEW vs \in Seq(JsonTexts), NEW v \in JsonTexts
  PROVE  /\ AnswerOf(vs) \in Seq(JsonLetters)
         /\ AnswerOf(Append(vs, v)) = AnswerOf(vs) \o QuotedText(v)
         /\ Fits(Append(vs, v)) <=> /\ Fits(vs)
                                    /\ Len(AnswerOf(vs)) + Len(Json!Escaped(v)) + 2 < OutputSize
                                    /\ Len(Json!Escaped(v)) < EscapedSize
<1>. DEFINE more == Append(vs, v)
            m == Len(vs)
            L == JsonLetters
            x == QuotedText(v)
            A == AnswerOf(vs)
            d == Len(Json!Escaped(v))
<1>0. JsonAssumption
  BY JsonConstants
<1>1. more \in Seq(JsonTexts) /\ Len(more) = m + 1 /\ m \in Nat /\ more[m + 1] = v /\ \A i \in 1 .. m : more[i] = vs[i]
  OBVIOUS
<1>2. Quoted(more) = Append(Quoted(vs), x)
  <2>. DEFINE a == Quoted(more)
              b == Append(Quoted(vs), x)
              X == Seq(L)
  <2>1. a \in Seq(X) /\ Len(a) = m + 1 /\ \A k \in 1 .. m + 1 : a[k] = QuotedText(more[k])
    <3>. HIDE DEF more
    <3>. QED  BY <1>1, QuotedType
  <2>2. Quoted(vs) \in Seq(X) /\ Len(Quoted(vs)) = m /\ \A k \in 1 .. m : Quoted(vs)[k] = QuotedText(vs[k])
    BY QuotedType
  <2>3. x \in X
    BY QuotedTextIs
  <2>. HIDE DEF X, a, x, more
  <2>4. b \in Seq(X) /\ Len(b) = m + 1 /\ b[m + 1] = x /\ \A k \in 1 .. m : b[k] = Quoted(vs)[k]
    BY <2>2, <2>3
  <2>. HIDE DEF b, m
  <2>5. \A k \in 1 .. m + 1 : a[k] = b[k]
    <3>. SUFFICES ASSUME NEW k \in 1 .. m + 1 PROVE a[k] = b[k]
      OBVIOUS
    <3>1. k = m + 1 \/ k \in 1 .. m
      BY <1>1
    <3>2. QuotedText(v) = x
      BY DEF x
    <3>. QED  BY <1>1, <2>1, <2>2, <2>4, <3>1, <3>2
  <2>6. a = b
    BY <2>1, <2>4, <2>5
  <2>. QED  BY <2>6 DEF a, b, x
<1>3. Quoted(vs) \in Seq(Seq(L)) /\ x \in Seq(L)
  BY QuotedType, QuotedTextIs
<1>4. A \in Seq(L) /\ AnswerOf(more) = A \o x
  <2>. DEFINE y == Quoted(vs)
  <2>. HIDE DEF L, y, x
  <2>1. Json!FlattenSeq(y) \in Seq(L) /\ Json!FlattenSeq(Append(y, x)) = Json!FlattenSeq(y) \o x
    BY <1>3, Flattened DEF y
  <2>. QED  BY <1>2, <2>1 DEF AnswerOf, y, x
<1>5. d \in Nat /\ Len(x) = d + 2
  BY QuotedTextIs
<1>6. Len(A) \in Nat /\ Len(AnswerOf(more)) = Len(A) + d + 2
  <2>. HIDE DEF A, L, x, d
  <2>1. Len(A \o x) = Len(A) + Len(x) /\ Len(A) \in Nat
    BY <1>3, <1>4
  <2>. QED  BY <1>4, <1>5, <2>1
<1>7. (\A i \in DOMAIN more : Len(Json!Escaped(more[i])) < EscapedSize)
        <=> (\A i \in DOMAIN vs : Len(Json!Escaped(vs[i])) < EscapedSize) /\ d < EscapedSize
  <2>1. DOMAIN vs = 1 .. m /\ DOMAIN more = 1 .. m + 1
    OBVIOUS
  <2>2. \A i \in 1 .. m + 1 : i \in 1 .. m \/ i = m + 1
    BY <1>1
  <2>3. m + 1 \in 1 .. m + 1 /\ \A i \in 1 .. m : i \in 1 .. m + 1
    BY <1>1
  <2>4. Len(Json!Escaped(more[m + 1])) = d
    BY <1>1
  <2>5. \A i \in 1 .. m : Json!Escaped(more[i]) = Json!Escaped(vs[i])
    BY <1>1
  <2>. HIDE DEF more, m, d
  <2>. QED  BY <2>1, <2>2, <2>3, <2>4, <2>5
<1>. HIDE DEF d, A, more
<1>8. Fits(more) <=> Fits(vs) /\ Len(A) + d + 2 < OutputSize /\ d < EscapedSize
  BY <1>0, <1>5, <1>6, <1>7 DEF Fits, JsonAssumption, A
<1>. QED  BY <1>4, <1>8 DEF more, A, d

\* What is appended goes in whole, or nothing does any more.
LEMMA AppendWhole ==
  ASSUME NEW w \in WriterStates, NEW text \in Seq(JsonLetters), NEW a, a = Json!AppendText(w, text)
  PROVE  /\ a \in WriterStates
         /\ a.ok <=> w.ok /\ w.used + Len(text) < OutputSize
         /\ a.ok => a.output = w.output \o text /\ a.used = w.used + Len(text)
<1>. DEFINE S == JsonLetters
<1>0. JsonAssumption
  BY JsonConstants
<1>1. w.output \in Seq(S) /\ w.used \in 0 .. OutputSize - 1 /\ w.ok \in BOOLEAN
  BY DEF WriterStates
<1>. HIDE DEF S
<1>2. CASE Len(text) >= OutputSize - w.used
  <2>1. a = [w EXCEPT !.ok = FALSE, !.used = OutputSize - 1]
    BY <1>2 DEF Json!AppendText
  <2>2. OutputSize - 1 \in 0 .. OutputSize - 1 /\ ~(w.used + Len(text) < OutputSize)
    BY <1>0, <1>1, <1>2 DEF JsonAssumption
  <2>3. a \in WriterStates /\ a.ok = FALSE
    BY <2>1, <2>2 DEF WriterStates
  <2>. QED  BY <2>2, <2>3
<1>3. CASE ~(Len(text) >= OutputSize - w.used)
  <2>. DEFINE more == w.output \o text
              used == w.used + Len(text)
  <2>1. a = [w EXCEPT !.output = more, !.used = used]
    BY <1>3 DEF Json!AppendText
  <2>2. more \in Seq(S) /\ Len(text) \in Nat
    <3>1. text \in Seq(S)
      BY DEF S
    <3>. QED  BY <1>1, <3>1
  <2>3. used \in 0 .. OutputSize - 1 /\ used < OutputSize
    BY <1>0, <1>1, <1>3, <2>2 DEF JsonAssumption
  <2>. HIDE DEF more, used
  <2>4. a \in WriterStates /\ a.output = more /\ a.used = used /\ a.ok = w.ok
    BY <2>1, <2>2, <2>3 DEF WriterStates, S
  <2>. QED  BY <2>3, <2>4 DEF more, used
<1>. QED  BY <1>2, <1>3

\* An answer of no values is whole.
LEMMA EmptyAnswer ==
  /\ Json!EmptyWriter.ok
  /\ Json!EmptyWriter.output = AnswerOf(<<>>) /\ Json!EmptyWriter.used = Len(AnswerOf(<<>>))
  /\ Fits(<<>>)
<1>0. JsonAssumption
  BY JsonConstants
<1>1. Quoted(<<>>) = <<>> /\ DOMAIN <<>> = {}
  BY DEF Quoted
<1>2. AnswerOf(<<>>) = <<>>
  <2>1. <<>> \in Seq(Seq(JsonLetters)) /\ <<>> \in Seq(JsonLetters)
    OBVIOUS
  <2>2. Json!FlattenSeq(<<>>) = <<>>
    BY <2>1, Flattened
  <2>. QED  BY <1>1, <2>2, Zenon DEF AnswerOf
<1>3. Len(<<>>) = 0
  OBVIOUS
<1>4. Fits(<<>>)
  BY <1>0, <1>1, <1>2, <1>3 DEF Fits, JsonAssumption
<1>. QED  BY <1>2, <1>3, <1>4 DEF Json!EmptyWriter

\* The answer begins whole,
LEMMA WriterInit == Json!Init => WriterInv
<1>. SUFFICES ASSUME Json!Init PROVE WriterInv
  OBVIOUS
<1>1. writer = Json!EmptyWriter /\ values = <<>>
  BY DEF Json!Init
<1>. QED  BY <1>1, EmptyAnswer DEF WriterInv

\* and a value goes in whole, or the answer is given up.
LEMMA WriterStep == JsonInv /\ WriterInv /\ [Json!Next]_(Json!vars) => WriterInv'
<1>. SUFFICES ASSUME JsonInv, WriterInv, [Json!Next]_(Json!vars) PROVE WriterInv'
  OBVIOUS
<1>0. JsonAssumption
  BY JsonConstants
<1>1. ASSUME NEW text \in JsonTexts, Json!Member(text) PROVE WriterInv'
  <2>. DEFINE quote == <<Json!Quote>>
              e == Json!Escaped(text)
              d == Len(e)
              A == AnswerOf(values)
              a == Json!AppendText(writer, quote)
              b == Json!AppendEscaped(a, text)
              c == Json!AppendText(b, quote)
  <2>1. quote \in Seq(JsonLetters) /\ Len(quote) = 1
    <3>. DEFINE S == JsonLetters
    <3>1. Json!Quote \in S
      BY DEF JsonLetters
    <3>. HIDE DEF S
    <3>2. quote \in Seq(S) /\ Len(quote) = 1
      BY <3>1
    <3>. QED  BY <3>2 DEF S
  <2>2. e \in Seq(JsonLetters) /\ d \in Nat
    BY QuotedTextIs
  <2>3. writer' = c /\ values' = Append(values, text)
    BY <1>1 DEF Json!Member
  <2>4. writer \in WriterStates /\ values \in Seq(JsonTexts)
    BY DEF JsonInv
  <2>5. /\ A \in Seq(JsonLetters)
        /\ AnswerOf(Append(values, text)) = A \o QuotedText(text)
        /\ Fits(Append(values, text)) <=> Fits(values) /\ Len(A) + d + 2 < OutputSize /\ d < EscapedSize
    BY <2>4, AnswerGrows
  <2>6. QuotedText(text) = (quote \o e) \o quote
    BY DEF QuotedText
  <2>7. /\ A \o ((quote \o e) \o quote) = ((A \o quote) \o e) \o quote
        /\ Len(A) \in Nat
        /\ Len(A \o ((quote \o e) \o quote)) = Len(A) + d + 2
    <3>1. A \in Seq(JsonLetters) /\ quote \in Seq(JsonLetters) /\ e \in Seq(JsonLetters)
      BY <2>1, <2>2, <2>5
    <3>. HIDE DEF A, quote, e
    <3>2. /\ quote \o e \in Seq(JsonLetters) /\ Len(quote \o e) = Len(quote) + Len(e)
          /\ Len(A) \in Nat
      BY <3>1, Joined
    <3>3. A \o ((quote \o e) \o quote) = (A \o (quote \o e)) \o quote
      BY <3>1, <3>2, Regrouped
    <3>4. A \o (quote \o e) = (A \o quote) \o e
      BY <3>1, Regrouped
    <3>. DEFINE z == quote \o e
                y == z \o quote
    <3>. HIDE DEF z
    <3>5. y \in Seq(JsonLetters) /\ Len(y) = Len(z) + Len(quote)
      BY <3>1, <3>2, Joined DEF z
    <3>. HIDE DEF y
    <3>6. Len(A \o y) = Len(A) + Len(y)
      BY <3>1, <3>5, Joined
    <3>7. Len(A \o y) = Len(A) + d + 2
      <4>1. Len(z) = 1 + d
        BY <2>1, <3>2 DEF z, d
      <4>. QED  BY <2>1, <2>2, <3>2, <3>5, <3>6, <4>1
    <3>. QED  BY <3>2, <3>3, <3>4, <3>7 DEF y, z
  <2>. HIDE DEF quote, e, d, A
  <2>8. /\ a \in WriterStates
        /\ a.ok <=> writer.ok /\ writer.used + 1 < OutputSize
        /\ a.ok => a.output = writer.output \o quote /\ a.used = writer.used + 1
    BY <2>1, <2>4, AppendWhole
  <2>. HIDE DEF a
  <2>9. /\ b \in WriterStates
        /\ b.ok <=> a.ok /\ a.used + d < OutputSize /\ d < EscapedSize
        /\ b.ok => b.output = a.output \o e /\ b.used = a.used + d
    <3>1. CASE d >= EscapedSize
      <4>1. b = [a EXCEPT !.ok = FALSE]
        BY <3>1 DEF Json!AppendEscaped, e, d
      <4>2. b \in WriterStates /\ b.ok = FALSE
        BY <2>8, <4>1 DEF WriterStates
      <4>3. ~(d < EscapedSize)
        BY <1>0, <2>2, <3>1 DEF JsonAssumption
      <4>. QED  BY <4>2, <4>3
    <3>2. CASE ~(d >= EscapedSize)
      <4>1. b = Json!AppendText(a, e)
        BY <3>2 DEF Json!AppendEscaped, e, d
      <4>2. d < EscapedSize
        BY <1>0, <2>2, <3>2 DEF JsonAssumption
      <4>. HIDE DEF b
      <4>3. /\ b \in WriterStates
            /\ b.ok <=> a.ok /\ a.used + Len(e) < OutputSize
            /\ b.ok => b.output = a.output \o e /\ b.used = a.used + Len(e)
        BY <2>2, <2>8, <4>1, AppendWhole
      <4>. QED  BY <4>2, <4>3 DEF d
    <3>. QED  BY <3>1, <3>2
  <2>. HIDE DEF b
  <2>10. /\ c.ok <=> b.ok /\ b.used + 1 < OutputSize
         /\ c.ok => c.output = b.output \o quote /\ c.used = b.used + 1
    <3>1. b \in WriterStates /\ quote \in Seq(JsonLetters)
      BY <2>1, <2>9
    <3>2. c = Json!AppendText(b, quote)
      OBVIOUS
    <3>. HIDE DEF c
    <3>3. /\ c.ok <=> b.ok /\ b.used + Len(quote) < OutputSize
          /\ c.ok => c.output = b.output \o quote /\ c.used = b.used + Len(quote)
      BY <3>1, <3>2, AppendWhole
    <3>. QED  BY <2>1, <3>3
  <2>. HIDE DEF c
  <2>11. /\ Fits(values) <=> writer.ok
         /\ writer.ok => writer.used = Len(A) /\ writer.output = A
    BY DEF WriterInv, A
  <2>12. /\ c.ok <=> writer.ok /\ Len(A) + d + 2 < OutputSize /\ d < EscapedSize
         /\ c.ok => c.used = Len(A) + d + 2
    <3>. DEFINE l == Len(A)
    <3>1. OutputSize \in Nat /\ EscapedSize \in Nat /\ l \in Nat /\ d \in Nat
      BY <1>0, <2>2, <2>7 DEF JsonAssumption
    <3>2. writer.ok => writer.used = l
      BY <2>11
    <3>. HIDE DEF l
    <3>3. a.ok <=> writer.ok /\ l + 1 < OutputSize
      BY <2>8, <3>2
    <3>4. a.ok => a.used = l + 1
      BY <2>8, <3>2, <3>3
    <3>5. b.ok <=> writer.ok /\ l + 1 + d < OutputSize /\ d < EscapedSize
      BY <2>9, <3>1, <3>3, <3>4
    <3>6. b.ok => b.used = l + 1 + d
      BY <2>9, <3>4
    <3>7. c.ok <=> writer.ok /\ l + d + 2 < OutputSize /\ d < EscapedSize
      BY <2>10, <3>1, <3>5, <3>6
    <3>8. c.ok => c.used = l + d + 2
      BY <2>10, <3>1, <3>6
    <3>. QED  BY <3>7, <3>8 DEF l
  <2>13. c.ok => c.output = AnswerOf(Append(values, text))
    <3>. SUFFICES ASSUME c.ok PROVE c.output = AnswerOf(Append(values, text))
      OBVIOUS
    <3>1. c.ok /\ b.ok /\ a.ok /\ writer.ok
      BY <2>8, <2>9, <2>10
    <3>2. /\ c.output = b.output \o quote /\ b.output = a.output \o e
          /\ a.output = writer.output \o quote /\ writer.output = A
      BY <2>8, <2>9, <2>10, <2>11, <3>1
    <3>3. c.output = ((A \o quote) \o e) \o quote
      BY <3>2, Zenon
    <3>4. AnswerOf(Append(values, text)) = ((A \o quote) \o e) \o quote
      BY <2>5, <2>6, <2>7, Zenon
    <3>. QED  BY <3>3, <3>4
  <2>14. Len(AnswerOf(Append(values, text))) = Len(A) + d + 2
    BY <2>5, <2>6, <2>7, Zenon
  <2>15. c.ok <=> Fits(Append(values, text))
    BY <2>5, <2>11, <2>12
  <2>16. /\ writer'.ok => writer'.output = AnswerOf(values') /\ writer'.used = Len(AnswerOf(values'))
         /\ writer'.ok <=> Fits(values')
    BY <2>3, <2>12, <2>13, <2>14, <2>15
  <2>. QED  BY <2>16 DEF WriterInv
<1>2. CASE Json!Send
  <2>1. writer' = Json!EmptyWriter /\ values' = <<>>
    BY <1>2 DEF Json!Send
  <2>. QED  BY <2>1, EmptyAnswer DEF WriterInv
<1>3. CASE UNCHANGED Json!vars
  BY <1>3 DEF Json!vars, WriterInv, Fits, AnswerOf, Quoted
<1>4. Json!Texts = JsonTexts
  BY DEF Json!Texts, Json!BoundedSeq, Json!SeqOf, JsonTexts
<1>. QED  BY <1>1, <1>2, <1>3, <1>4 DEF Json!Next

\* What the run checks of an answer.
LEMMA WholeOrRefused == JsonInv /\ WriterInv => Json!JsonIsWholeOrRefused
<1>. SUFFICES ASSUME JsonInv, WriterInv PROVE Json!JsonIsWholeOrRefused
  OBVIOUS
<1>1. Json!FlattenSeq([i \in DOMAIN values |-> <<Json!Quote>> \o Json!Escaped(values[i]) \o <<Json!Quote>>])
        = AnswerOf(values)
  BY DEF AnswerOf, Quoted, QuotedText
<1>2. writer.ok => Json!StringsOf(writer.output) = values
  <2>. SUFFICES ASSUME writer.ok PROVE Json!StringsOf(writer.output) = values
    OBVIOUS
  <2>1. writer.output = Json!FlattenSeq(Quoted(values)) /\ values \in Seq(JsonTexts)
    BY DEF WriterInv, AnswerOf, JsonInv
  <2>. QED  BY <2>1, StringsOfQuoted
<1>3. writer.ok <=> /\ Len(AnswerOf(values)) < OutputSize
                    /\ \A i \in DOMAIN values : Len(Json!Escaped(values[i])) < EscapedSize
  BY DEF WriterInv, Fits
<1>. QED  BY <1>1, <1>2, <1>3, Zenon DEF Json!JsonIsWholeOrRefused

-----------------------------------------------------------------------------
(* All parts. *)

\* The invariants of the parts, together.
PartsInv ==
  /\ part = "sim" => SimInv
  /\ WifiOrIdle
  /\ ConfigInv
  /\ LogInv /\ BlankBehind
  /\ part = "status" => StatusInv
  /\ DataInv /\ DataRest
  /\ LineIsTyped /\ Console!ResultNamesItsCommand /\ Console!TypeOK
  /\ JsonInv /\ WriterInv

\* What the parts assume of the constants.
LEMMA PartConstants ==
  Config!ConfigStoreAssumption /\ Log!LoggerCoreAssumption /\ DataAssumption
  BY SmallPartsAssumption, DataConstants

\* The parts begin with their invariants.
LEMMA PartsInit == Init => PartsInv
<1>. SUFFICES ASSUME Init PROVE PartsInv
  OBVIOUS
<1>1. Config!Init /\ Log!Init /\ Data!Init /\ Console!Init /\ Json!Init
  BY DEF Init
<1>2. ConfigInv
  BY <1>1, PartConstants, ConfigInitial
<1>3. LogInv /\ BlankBehind
  BY <1>1, PartConstants, InitRing, BlankInit
<1>4. DataInv /\ DataRest
  BY <1>1, PartConstants, DataInit, RestInit
<1>5. LineIsTyped /\ Console!ResultNamesItsCommand /\ Console!TypeOK
  BY <1>1, LineInit, ResultInit, ConsoleTypeInit
<1>6. JsonInv /\ WriterInv
  BY <1>1, JsonInit, WriterInit
<1>7. (part = "sim" => SimInv) /\ WifiOrIdle /\ (part = "status" => StatusInv)
  BY SimInit, WifiOrIdleInit, StatusInit
<1>. QED  BY <1>2, <1>3, <1>4, <1>5, <1>6, <1>7 DEF PartsInv

\* A step of one part keeps the invariants of all.
LEMMA PartsStep == PartsInv /\ [Next]_vars => PartsInv'
<1>. SUFFICES ASSUME PartsInv, [Next]_vars PROVE PartsInv'
  OBVIOUS
<1>1. ConfigInv'
  BY ConfigSteps, PartConstants, ConfigStep DEF PartsInv
<1>2. LogInv' /\ BlankBehind'
  BY LogSteps, PartConstants, StepRing, BlankStep DEF PartsInv
<1>3. DataInv' /\ DataRest'
  BY DataStepsOnly, PartConstants, DataStep, RestStep DEF PartsInv
<1>4. LineIsTyped' /\ Console!ResultNamesItsCommand' /\ Console!TypeOK'
  BY ConsoleSteps, LineStep, ResultStep, ConsoleTypeStep DEF PartsInv
<1>5. JsonInv' /\ WriterInv'
  BY JsonSteps, JsonStep, WriterStep DEF PartsInv
<1>6. (part = "sim" => SimInv)'
  BY PartStays, SimSteps, SimStep DEF PartsInv
<1>7. WifiOrIdle'
  BY WifiOrIdleStep DEF PartsInv
<1>8. (part = "status" => StatusInv)'
  BY PartStays, StatusSteps, StatusStep DEF PartsInv
<1>. QED  BY <1>1, <1>2, <1>3, <1>4, <1>5, <1>6, <1>7, <1>8 DEF PartsInv

\* The parts keep their invariants.
LEMMA PartsInvariance == FairSpec => []PartsInv
  BY PartsInit, PartsStep, PTL DEF FairSpec

-----------------------------------------------------------------------------
(* The theorems. *)

\* The types of all eight parts, whatever the sizes of their buffers, rings and
\* clocks (LoggerCore, SerialAtConsoleCore, WifiManagerCore, ModemEventsCore,
\* CellularStatusCore, configStore*, JsonWriter).
THEOREM TypeCorrect == FairSpec => []TypeOK
<1>1. PartsInv => TypeOK
  <2>. SUFFICES ASSUME PartsInv PROVE TypeOK
    OBVIOUS
  <2>1. part = "sim" => Sim!TypeOK
    BY SimMeans DEF PartsInv
  <2>2. part = "wifi" => Wifi!TypeOK
    BY DEF PartsInv, WifiOrIdle, WifiInv
  <2>3. Config!TypeOK
    BY DEF PartsInv, ConfigInv
  <2>4. Log!TypeOK
    BY LogTypes DEF PartsInv
  <2>5. part = "status" => Status!TypeOK
    BY StatusTypes DEF PartsInv
  <2>6. Data!TypeOK
    BY DataTypes DEF PartsInv
  <2>7. Console!TypeOK
    BY DEF PartsInv
  <2>8. Json!TypeOK
    BY JsonTypes DEF PartsInv
  <2>. QED  BY <2>1, <2>2, <2>3, <2>4, <2>5, <2>6, <2>7, <2>8 DEF TypeOK
<1>. QED  BY <1>1, PartsInvariance, PTL

\* For every window, loop gap and width of millis(): a SIM that went with no
\* READY near it is suspected at once, and reported as removed once the window
\* and one round of loop() are over and no earlier (ModemEventsCore::onUrc and
\* poll).  A READY whole turns of millis() before the removal is excepted.
THEOREM RemovalIsCertainInTime == FairSpec => []VerdictInTime
<1>1. PartsInv => VerdictInTime
  BY SimMeans DEF PartsInv, VerdictInTime
<1>. QED  BY <1>1, PartsInvariance, PTL

\* A contact loss within the window of a READY never leaves the SIM reported as
\* gone, whichever came first (ModemEventsCore::onUrc).  The count of READYs
\* having wrapped to 0 is excepted.
THEOREM PairsAreReady == FairSpec => []PairIsReady
<1>1. PartsInv => PairIsReady
  BY SimMeans DEF PartsInv, PairIsReady
<1>. QED  BY <1>1, PartsInvariance, PTL

\* WifiManagerCore::poll() makes the station start again by itself no earlier
\* than the reconnect interval after the last start, across the wrap of millis().
THEOREM NoStartIsCutShort == FairSpec => NoHammering
<1>1. NoHammering <=> [][StartsInTime]_(Wifi!vars)
  BY DEF NoHammering, Wifi!NoHammering, StartsInTime
<1>2. PartsInv => StartsInTime
  BY WifiStarts DEF PartsInv
<1>. QED  BY <1>1, <1>2, PartsInvariance, PTL

\* What is saved is what the request says, field by field
\* (webParseConfigSaveJson), for every list of fields and every request.
THEOREM SaveMeansTheRequest == FairSpec => []RequestsMeanWhatTheySay
<1>1. PartsInv => RequestsMeanWhatTheySay
  BY DEF PartsInv, ConfigInv, RequestsMeanWhatTheySay
<1>. QED  BY <1>1, PartsInvariance, PTL

\* A restart finds the saved configuration that is in use, but for keys that
\* could not be removed (configStoreSave, configStoreBegin).
THEOREM RestartFindsWhatWasSaved == FairSpec => []SavedIsWhatRestartLoads
<1>1. PartsInv => SavedIsWhatRestartLoads
  BY DEF PartsInv, ConfigInv, SavedIsWhatRestartLoads
<1>. QED  BY <1>1, PartsInvariance, PTL

\* Power failing in the first save, after any number of keys, leaves the whole
\* of the old configuration or of the new one (the order of configStoreSave).
THEOREM FirstSaveIsSafe == FairSpec => []FirstSaveIsAtomic
<1>1. PartsInv => FirstSaveIsAtomic
  BY PartConstants, FirstSaveIsWhole DEF PartsInv, FirstSaveIsAtomic
<1>. QED  BY <1>1, PartsInvariance, PTL

\* LoggerCore::write() and clear(): the page shows the latest entries since the
\* last clear, as many as fit, oldest first, for every size of the ring.
THEOREM LogShowsTheLatest == FairSpec => []ShowsTheLatest
<1>1. PartsInv => ShowsTheLatest
  BY PartConstants, RingShows DEF PartsInv, ShowsTheLatest
<1>. QED  BY <1>1, PartsInvariance, PTL

\* Every modem and every number of contexts: the page names the APN of the last
\* listing, and no context active that the modem did not tell to be
\* (parsePdpContexts, parseCgactResponse, updateDataConnectionSummary).
THEOREM ContextsAsTold == FairSpec => []ContextsShownAsTold
<1>1. PartsInv => ContextsShownAsTold
  BY DEF PartsInv, DataInv, ContextsShownAsTold, Data!ContextsShownAsTold, NamesFirst,
     ActiveTold
<1>. QED  BY <1>1, PartsInvariance, PTL

\* With a modem that has a line for every state of the call, the data
\* connection on the page is what it told last in answer to the query of the
\* status or to the guard's disconnection (handleQueryResult,
\* cellularStatusSetDataConnection).
THEOREM ConnectionAsTold == ~BareOk => (FairSpec => []ConnectionShownAsTold)
<1>. SUFFICES ASSUME ~BareOk PROVE FairSpec => []ConnectionShownAsTold
  OBVIOUS
<1>1. PartsInv => ConnectionShownAsTold
  BY DEF PartsInv, DataInv, ConnectionShownAsTold, Data!ConnectionShownAsTold, CallAsTold
<1>. QED  BY <1>1, PartsInvariance, PTL

\* The console is busy exactly while its command is in the channel, and its
\* buffer names that command (serialAtConsolePoll, printManualAtResult).
THEOREM ConsoleNamesItsCommand == FairSpec => []ResultNamesItsCommand
<1>1. PartsInv => ResultNamesItsCommand
  BY DEF PartsInv, ResultNamesItsCommand
<1>. QED  BY <1>1, PartsInvariance, PTL

\* Of printable input, the command that runs is the one the terminal shows,
\* whole, for every size of the line (SerialAtConsoleCore::onChar, processLine).
THEOREM CommandIsTheLineShown == FairSpec => RunsWhatWasTyped
<1>1. RunsWhatWasTyped <=> [][RunsLine]_(Console!vars)
  BY DEF RunsWhatWasTyped, Console!RunsWhatWasTyped, RunsLine
<1>2. PartsInv /\ [Next]_vars => [RunsLine]_(Console!vars)
  BY ConsoleSteps, RunStep DEF PartsInv
<1>. QED  BY <1>1, <1>2, PartsInvariance, PTL DEF FairSpec

\* Whatever the values and the sizes of the buffers: an answer that is sent as
\* good holds the very values that were written, and one is refused only when
\* it or a value of it does not fit (JsonWriter, webJsonEscape, decodeJsonString).
THEOREM AnswersAreWhole == FairSpec => []JsonIsWholeOrRefused
<1>1. PartsInv => JsonIsWholeOrRefused
  BY WholeOrRefused DEF PartsInv, JsonIsWholeOrRefused
<1>. QED  BY <1>1, PartsInvariance, PTL
==============================================================================
