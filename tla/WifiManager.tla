---------------------------- MODULE WifiManager ----------------------------
(***************************************************************************)
(* wifi_manager_core.cpp and wifi_manager.cpp: the station is connected    *)
(* once at boot, at intervals while it has no link, and at the user's      *)
(* request (POST /api/wifi/reconnect, which only sets a flag for the next  *)
(* poll).                                                                  *)
(***************************************************************************)
EXTENDS Clock32

CONSTANTS
  ReconnectInterval,  \* kReconnectIntervalMs
  MaxLoopGap,         \* bound: milliseconds between two polls
  MaxRequests,        \* bound: requests of the user, and changes of the config
  HistoryCap          \* bound: how far sinceStart counts

WifiManagerAssumption ==
  /\ ReconnectInterval \in Nat \ {0} /\ MaxLoopGap \in Nat \ {0}
  /\ MaxRequests \in Nat /\ HistoryCap \in Nat
  /\ ReconnectInterval + MaxLoopGap < ClockMod
  /\ ReconnectInterval <= HistoryCap

VARIABLES
  core,                \* the fields of WifiManagerCore
  reconnectRequested,  \* the flag of the web handler
  creds,               \* the stored configuration names a network
  link,                \* the radio: "off", "joining" or "up"
  ap,                  \* the access point is there
  now, gap, requests,
  sinceStart           \* history: true time since the last WiFi.begin(),
                       \* counted up to HistoryCap

vars == <<core, reconnectRequested, creds, link, ap, now, gap, requests, sinceStart>>

Statuses == {"Unconfigured", "Disconnected", "Connecting", "Connected"}

-----------------------------------------------------------------------------
(* WifiManagerCore *)

\* begin() and requestReconnect()
\* Faulty variant: the time of a request is not noted.
RequestReconnect_NoStamp(c, has) ==
  [c EXCEPT !.has = has, !.requested = has, !.status = IF has THEN "Connecting" ELSE "Unconfigured"]

RequestReconnect(c, has) ==
  [c EXCEPT !.has = has, !.requested = has, !.last = now,
            !.status = IF has THEN "Connecting" ELSE "Unconfigured"]

\* poll()
\* Faulty variant: a connection that never came about is not tried again.
Polled_OnlyAfterLoss(c, connected) ==
  IF ~c.has THEN [c EXCEPT !.status = "Unconfigured", !.requested = FALSE]
  ELSE IF connected THEN [c EXCEPT !.status = "Connected", !.requested = FALSE]
  ELSE IF c.status = "Connected" THEN [c EXCEPT !.status = "Disconnected", !.last = now]
  ELSE IF c.status = "Disconnected" /\ Since(now, c.last) >= ReconnectInterval
       THEN [c EXCEPT !.status = "Connecting", !.last = now, !.requested = TRUE]
  ELSE c

Polled(c, connected) ==
  IF ~c.has THEN [c EXCEPT !.status = "Unconfigured", !.requested = FALSE]
  ELSE IF connected THEN [c EXCEPT !.status = "Connected", !.requested = FALSE]
  ELSE IF c.status = "Connected" THEN [c EXCEPT !.status = "Disconnected", !.last = now]
  ELSE IF Since(now, c.last) >= ReconnectInterval
       THEN [c EXCEPT !.status = "Connecting", !.last = now, !.requested = TRUE]
  ELSE [c EXCEPT !.status = IF @ = "Unconfigured" THEN "Disconnected" ELSE @]

-----------------------------------------------------------------------------
(* wifi_manager.cpp *)

\* wifiManagerBegin()
Init ==
  /\ now \in {0, ClockMod - 2} /\ gap = 0 /\ requests = 0
  /\ creds \in BOOLEAN /\ ap \in BOOLEAN
  /\ core = [ has |-> creds, requested |-> FALSE, last |-> now,
              status |-> IF creds THEN "Connecting" ELSE "Unconfigured" ]
  /\ link = IF creds THEN "joining" ELSE "off"
  /\ reconnectRequested = FALSE
  /\ sinceStart = IF creds THEN 0 ELSE HistoryCap

\* wifiManagerPoll(). A request takes the radio down first; WiFi.status() is
\* set by the event task, so it may still tell of the link that was up.
Poll ==
  LET takenDown == reconnectRequested /\ creds
      radio     == IF takenDown THEN "off" ELSE link
      asked     == IF reconnectRequested THEN RequestReconnect(core, creds) ELSE core
  IN  \E connected \in {radio = "up"} \cup (IF takenDown /\ link = "up" THEN {TRUE} ELSE {}) :
        LET polled == Polled(asked, connected)
        IN  /\ core' = [polled EXCEPT !.requested = FALSE]
            /\ link' = IF polled.requested THEN "joining" ELSE radio
            /\ sinceStart' = IF polled.requested THEN 0 ELSE sinceStart
            /\ reconnectRequested' = FALSE
            /\ gap' = 0
            /\ UNCHANGED <<creds, ap, now, requests>>

\* wifiManagerRequestReconnect()
UserReconnect ==
  /\ requests < MaxRequests
  /\ requests' = requests + 1
  /\ reconnectRequested' = TRUE
  /\ UNCHANGED <<core, creds, link, ap, now, gap, sinceStart>>

\* configStoreSave() or configStoreReset(): the core is not told.
ConfigChanges ==
  /\ requests < MaxRequests
  /\ requests' = requests + 1
  /\ creds' = ~creds
  /\ UNCHANGED <<core, reconnectRequested, link, ap, now, gap, sinceStart>>

-----------------------------------------------------------------------------
(* The radio and the clock. *)

Joined ==
  /\ link = "joining" /\ ap /\ creds
  /\ link' = "up"
  /\ UNCHANGED <<core, reconnectRequested, creds, ap, now, gap, requests, sinceStart>>

LinkLost ==
  /\ \/ link = "up"
     \/ link = "joining" /\ ~(ap /\ creds)
  /\ link' = "off"
  /\ UNCHANGED <<core, reconnectRequested, creds, ap, now, gap, requests, sinceStart>>

AccessPoint ==
  /\ ap' = ~ap
  /\ UNCHANGED <<core, reconnectRequested, creds, link, now, gap, requests, sinceStart>>

Tick ==
  /\ gap < MaxLoopGap
  /\ gap' = gap + 1
  /\ now' = Plus(now, 1)
  /\ sinceStart' = IF sinceStart < HistoryCap THEN sinceStart + 1 ELSE sinceStart
  /\ UNCHANGED <<core, reconnectRequested, creds, link, ap, requests>>

Next == Poll \/ UserReconnect \/ ConfigChanges \/ Joined \/ LinkLost \/ AccessPoint \/ Tick

Spec == Init /\ [][Next]_vars

\* loop() polls, time passes, and a station in reach of its access point joins.
FairSpec == Spec /\ WF_vars(Poll) /\ WF_vars(Tick) /\ WF_vars(Joined)

-----------------------------------------------------------------------------
(* Properties. *)

\* Types; a wish to connect never outlives the poll that made it.
TypeOK ==
  /\ core \in [has : BOOLEAN, requested : {FALSE}, last : Time, status : Statuses]
  /\ core.has <=> core.status # "Unconfigured"
  /\ reconnectRequested \in BOOLEAN /\ creds \in BOOLEAN /\ ap \in BOOLEAN
  /\ link \in {"off", "joining", "up"}
  /\ now \in Time /\ gap \in 0 .. MaxLoopGap /\ requests \in 0 .. MaxRequests
  /\ sinceStart \in 0 .. HistoryCap

\* Only the user makes the station start again before the interval is over:
\* no start, automatic or by hand, is cut short by the next automatic one.
NoHammering ==
  [][Poll /\ ~reconnectRequested /\ Polled(core, link = "up").requested
     => sinceStart >= ReconnectInterval]_vars

\* With the access point in reach and the network configured, the link comes
\* back however often it is lost, also when a request was swallowed by a status
\* that was out of date.
LinkComesBack ==
  <>[](ap /\ creds /\ core.has) => []<>(link = "up")
=============================================================================
