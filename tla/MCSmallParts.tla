---------------------------- MODULE MCSmallParts ----------------------------
(***************************************************************************)
(* Eight parts of the firmware that are followed one at a time, for TLC: a *)
(* behaviour chooses one at the start and leaves the others as they begin. *)
(* now and gap belong to the one that is followed.                         *)
(***************************************************************************)
EXTENDS Naturals, Sequences

CONSTANTS
  ClockMod, MaxLoopGap, HistoryCap,     \* ModemEvents and WifiManager
  PairWindow, CountMod,                 \* ModemEvents
  ReconnectInterval, MaxRequests,       \* WifiManager
  Fields, Values, Empty, BadHostnames, Requests, Fallback,  \* ConfigStore
  Capacity, Messages, MaxWrites,        \* LoggerCore
  StatusClockMod, StatusLoopGap, StaticSteps, DynamicSteps, PollInterval, StaticRetry,
  BetweenCommands, QueueRetry, CommandTime, MaxRefusals,    \* CellularStatus
  MaxPdpContexts, Listings, BareOk,                         \* DataConnection
  Characters, LineCapacity, CommandCapacity, MaxTyped,      \* SerialAtConsole
  JsonCharacters, MaxLength, MaxValues, OutputSize, EscapedSize  \* WebJson

VARIABLES
  part,        \* the part that is followed
  now, gap,
  simState, cpinReadyCount, lastReady, lastRemoved, sinceReady, sinceRemoved, contact,
  core, reconnectRequested, creds, link, ap, requests, sinceStart,
  nvs, nvsSaved, currentConfig, hasSavedConfig, preferencesOpen, step, ok, clean, asked,
  before, wasSaved, failed, kept,
  entries, start, count, nextSequence, shown,
  st, command, age, refused, up, known,
  snapshot, query, guardState, channel, modem, listed, fresh, activeTold, callTold,
  line, overflowed, manualAtPending, manualAtCommand, running, typed,
  writer, values

Sim     == INSTANCE ModemEvents
Wifi    == INSTANCE WifiManager
Config  == INSTANCE ConfigStore
Log     == INSTANCE LoggerCore
Status  == INSTANCE CellularStatus WITH ClockMod <- StatusClockMod, MaxLoopGap <- StatusLoopGap
Data    == INSTANCE DataConnection WITH step <- query
Console == INSTANCE SerialAtConsole
Json    == INSTANCE WebJson WITH Characters <- JsonCharacters

ASSUME SmallPartsAssumption ==
  /\ Sim!ClockModAssumption /\ Status!ClockModAssumption
  /\ Sim!ModemEventsAssumption
  /\ Wifi!WifiManagerAssumption
  /\ Config!ConfigStoreAssumption
  /\ Log!LoggerCoreAssumption
  /\ Status!CellularStatusAssumption
  /\ Data!DataConnectionAssumption
  /\ Console!SerialAtConsoleAssumption
  /\ Json!WebJsonAssumption

\* Requests of the page, of a client that sends one field, of one that sends
\* them the other way round, and one cut short; "hostname" is a name of a
\* network as well as a key, "a" is none for a host.
MCFields   == <<"wifi_ssid", "hostname">>
MCFallback == <<"a", "">>
Said       == Values \cup {"<too long>", "<null>"}  \* TooLong and NotText of WebConfig
MCRequests ==
  [whole : {TRUE},
   members : {<<<<"wifi_ssid", v>>, <<"hostname", w>>>> : v \in Said, w \in Said}
        \cup {<<<<"hostname", w>>, <<"wifi_ssid", v>>>> : v \in Said, w \in Said}
        \cup {<<<<field, v>>>> : field \in {"wifi_ssid", "hostname"}, v \in Said}]
  \cup [whole : {FALSE}, members : {<<<<"wifi_ssid", "a">>>>}]

\* Contexts with and without room for all of them, the IMS one first.
MCListings ==
  { [ contexts |-> <<[cid |-> 1, apn |-> "ims"], [cid |-> 2, apn |-> ""], [cid |-> 3, apn |-> "web"]>>,
      active   |-> {2, 3} ],
    [ contexts |-> <<[cid |-> 3, apn |-> "ims"], [cid |-> 1, apn |-> "web"]>>,
      active   |-> {1} ] }

MCJsonCharacters == {"\"", "\\", "\n", "ctl", "n", "1"}

-----------------------------------------------------------------------------

simVars     == <<simState, cpinReadyCount, lastReady, lastRemoved, sinceReady, sinceRemoved, contact>>
wifiVars    == <<core, reconnectRequested, creds, link, ap, requests, sinceStart>>
nvsVars     == <<nvs, nvsSaved, currentConfig, hasSavedConfig, preferencesOpen, step, ok, clean,
                 asked, before, wasSaved, failed, kept>>
logVars     == <<entries, start, count, nextSequence, shown>>
statusVars  == <<st, command, age, refused, up, known>>
dataVars    == <<snapshot, query, guardState, channel, modem, listed, fresh, activeTold, callTold>>
consoleVars == <<line, overflowed, manualAtPending, manualAtCommand, running, typed>>
jsonVars    == <<writer, values>>
clock       == <<now, gap>>
vars        == <<part, clock, simVars, wifiVars, nvsVars, logVars, statusVars, dataVars,
                 consoleVars, jsonVars>>

\* A part that is not followed begins in any one way.
Init ==
  /\ part \in {"sim", "wifi", "config", "log", "status", "data", "console", "json"}
  /\ Sim!Init /\ Wifi!Init /\ Config!Init /\ Log!Init /\ Status!Init /\ Data!Init
  /\ Console!Init /\ Json!Init
  /\ part # "wifi" => ~creds /\ ~ap
  /\ part # "status" => ~up
  /\ part # "data" => modem = CHOOSE m \in Data!Modems : TRUE
  /\ now = 0

SimOnly     == part = "sim" /\ UNCHANGED <<part, wifiVars, nvsVars, logVars, statusVars, dataVars, consoleVars, jsonVars>>
WifiOnly    == part = "wifi" /\ UNCHANGED <<part, simVars, nvsVars, logVars, statusVars, dataVars, consoleVars, jsonVars>>
ConfigOnly  == part = "config" /\ UNCHANGED <<part, clock, simVars, wifiVars, logVars, statusVars, dataVars, consoleVars, jsonVars>>
LogOnly     == part = "log" /\ UNCHANGED <<part, clock, simVars, wifiVars, nvsVars, statusVars, dataVars, consoleVars, jsonVars>>
StatusOnly  == part = "status" /\ UNCHANGED <<part, simVars, wifiVars, nvsVars, logVars, dataVars, consoleVars, jsonVars>>
DataOnly    == part = "data" /\ UNCHANGED <<part, clock, simVars, wifiVars, nvsVars, logVars, statusVars, consoleVars, jsonVars>>
ConsoleOnly == part = "console" /\ UNCHANGED <<part, clock, simVars, wifiVars, nvsVars, logVars, statusVars, dataVars, jsonVars>>
JsonOnly    == part = "json" /\ UNCHANGED <<part, clock, simVars, wifiVars, nvsVars, logVars, statusVars, dataVars, consoleVars>>

Next ==
  \/ SimOnly /\ Sim!Next
  \/ WifiOnly /\ Wifi!Next
  \/ ConfigOnly /\ Config!Next
  \/ LogOnly /\ Log!Next
  \/ StatusOnly /\ Status!Next
  \/ DataOnly /\ Data!Next
  \/ ConsoleOnly /\ Console!Next
  \/ JsonOnly /\ Json!Next

live == <<clock, wifiVars, statusVars>>

\* The fairness of WifiManager and of CellularStatus, whichever is followed.
FairSpec ==
  /\ Init /\ [][Next]_vars
  /\ WF_live(\/ WifiOnly /\ Wifi!Poll
             \/ StatusOnly /\ \E accepted \in BOOLEAN : Status!Poll(accepted))
  /\ WF_live(\/ WifiOnly /\ Wifi!Tick
             \/ StatusOnly /\ Status!Tick)
  /\ WF_live(\/ WifiOnly /\ Wifi!Joined
             \/ StatusOnly /\ \E good \in BOOLEAN : Status!Result(good))

-----------------------------------------------------------------------------

\* The types of the parts.
TypeOK ==
  /\ part = "sim" => Sim!TypeOK
  /\ part = "wifi" => Wifi!TypeOK
  /\ part = "config" => Config!TypeOK
  /\ part = "log" => Log!TypeOK
  /\ part = "status" => Status!TypeOK
  /\ part = "data" => Data!TypeOK
  /\ part = "console" => Console!TypeOK
  /\ part = "json" => Json!TypeOK

\* A SIM that went with no READY near it is reported as removed once the window
\* and one round of loop() are over, and no earlier (ModemEventsCore::onUrc and
\* poll); but for a READY a whole turn of millis() before it.
VerdictInTime == part = "sim" => Sim!VerdictInTime

\* A contact loss reported within the window of a READY, before or after it,
\* never leaves the SIM reported as gone (ModemEventsCore::onUrc); but for a
\* count of READYs that has wrapped to 0.
PairIsReady == part = "sim" => Sim!PairIsReady

\* Only the user makes the station start again before the reconnect interval
\* is over (WifiManagerCore::poll).
NoHammering == Wifi!NoHammering

\* The link comes back once the access point stays in reach, also after a
\* request that read a status that was out of date (wifiManagerPoll).
LinkComesBack == part = "wifi" => Wifi!LinkComesBack

\* A saved configuration in use is the one that a restart finds, but for keys
\* that could not be removed (configStoreSave and configStoreBegin).
SavedIsWhatRestartLoads == part = "config" => Config!SavedIsWhatRestartLoads

\* Power failing in the first save leaves all of the old configuration or all
\* of the new one (the order of the keys in configStoreSave).
FirstSaveIsAtomic == part = "config" => Config!FirstSaveIsAtomic

\* What is saved is what the request says, field by field
\* (webParseConfigSaveJson, which looks for each key in the text).
RequestsMeanWhatTheySay == part = "config" => Config!RequestsMeanWhatTheySay

\* The log shows the latest entries since the last clear, oldest first
\* (LoggerCore::write and LoggerCore::get).
ShowsTheLatest == part = "log" => Log!ShowsTheLatest

\* With a modem that answers in the end every static datum becomes known (the
\* retry of handleQueryResult and cellularStatusPoll), unless the time of the
\* retry falls on millis() = 0, which the code takes for "no retry"
\* (RetryForgotten).
StaticBecomesKnown == part = "status" => Status!StaticBecomesKnown

\* The dynamic queries go on while the static ones keep failing
\* (handleQueryResult and cellularStatusPoll).
DynamicGoesOn == part = "status" => Status!DynamicGoesOn

\* The APN and the active contexts on the page are those the modem told
\* (CellularStatusCore::parsePdpContexts and updateDataConnectionSummary).
ContextsShownAsTold == part = "data" => Data!ContextsShownAsTold

\* The data connection on the page is what the modem told last in answer to the
\* query of the status or to the guard's disconnection (handleQueryResult and
\* cellularStatusSetDataConnection); what it answers to the guard's own query
\* is not passed on to the page.
ConnectionShownAsTold == part = "data" => Data!ConnectionShownAsTold

\* The console is busy exactly while its command is in the channel, and its
\* buffer names that command (serialAtConsolePoll and printManualAtResult).
ResultNamesItsCommand == part = "console" => Console!ResultNamesItsCommand

\* Of printable input, the command that runs is the one the terminal shows,
\* whole (SerialAtConsoleCore::onChar and processLine).
RunsWhatWasTyped == Console!RunsWhatWasTyped

\* An answer sent as good gives its reader the very values that were written
\* (JsonWriter, webJsonEscape and decodeJsonString).
JsonIsWholeOrRefused == part = "json" => Json!JsonIsWholeOrRefused
=============================================================================
