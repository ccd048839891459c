# esp32-sms-bridge: TLA+ verification

The firmware of this repository runs on an ESP32-C3 beside an ML307R modem. It
receives SMS through AT commands and reports on a UART, queues them in RAM and
posts them to a Bark server over WiFi. This directory holds TLA+ models of its
components, TLC configurations that check them, and TLAPS proofs of the invariants
that the passing runs check. Paths below are relative to the repository (`src/…`,
`include/…`, `docs/…`).

Run a configuration with `tlc -config MCModemAt_answers.cfg MCModemAt.tla`; check the
proofs of a module with `tlapm ModemAtProofs.tla`.

## 1. The system

The program is single-threaded: `setup()` initialises everything, `loop()`
(`src/main.cpp:503`) calls one poll function after the other:

    modemAtPoll → serialAtConsolePoll → smsReceiverPoll → submitStoredSmsDelete →
    submitStoredSmsRead → modemEventsPoll → startup sequencer → receive watchdog →
    PDP guard → cellularStatusPoll → wifiManagerPoll → webServerPoll → forwarderHttpPoll

Concurrency comes from outside (the modem, the network, the flash, power, time)
and from callbacks: the AT channel calls its clients back in the middle of its own
methods, and they submit the next command from there.

| Component | State | Operations | Talks to | What must hold |
|---|---|---|---|---|
| AT channel `modem_at_core` | ring of 4 commands, current command and deadline, response, `awaitingCmtPdu_` | submit, poll, onByte/handleLine | UART; all clients by callback; `handleModemUrc` by report | FIFO, one command at a time, one callback each; answers and reports told apart, a `+CEREG:` report during AT+CEREG? excepted; exact deadlines |
| SMS receiver `sms_receiver_core` | header seen, 5 slots of long messages | onUrc, processPdu, poll | reports in; message, storage notice out | a long message is handed on once |
| Stored SMS reader `sms_storage_reader_core` | read queue (4), delete queue (16), active place, 5 groups of places | enqueue, next/complete read and delete, messageAccepted | main.cpp submits its commands | delete only what was queued; read every notice; never wait for nothing |
| SMS queue `sms_queue_core` | up to 8 items with status, attempts, retry time | enqueue, acquireNext, markSending/Sent/Failed | receiver in, forwarder out | no loss, no reorder |
| HTTP forwarder `forwarder_http(_core)` | status (shown only) | poll, which blocks for a POST | queue, WiFi, config | delivery, backoff, no needless duplicates |
| Startup sequencer, PDP guard | command index and attempts; guard state and next attempt | commandToSubmit, complete, defer | AT channel; hands over to watchdog, guard and cellular status | the guard comes after the startup; both end |
| Receive watchdog `sms_receive_watchdog_core` | step, kind of work, three times | as above, and onUrc | AT channel, reports | SMS settings are always made again |
| Modem events `modem_events_core` | SIM state, two stamps | onUrc, poll | reports | right verdict on the SIM |
| WiFi manager | status, last start, request flag | poll, requestReconnect | radio, config, web | reconnects, not too often |
| Config store | configuration in RAM and flash | begin, save of a request, reset | web, WiFi, forwarder | what is saved is what was asked for, and what a restart loads |
| Cellular status | static and dynamic query steps, three times; the snapshot of the page | poll, result callback, news from the guard | AT channel, PDP guard, web | every query gets its turn; the page shows what the modem told last |
| Serial console `serial_at_console(_core)` | line buffer, command in the channel and its text | poll (per character), result callback | AT channel | runs what is shown, whole; prints an answer for its own command |
| Web JSON `web_server_core` | output buffer with its fill | append, escape, decode | web | an answer is whole or refused |
| Logger | ring of 100 entries | write, clear, get | everyone, web | the latest entries, numbered |
| Page and layout of the answers, parsers of single values, AT command texts, PDU decoder | none | | | see "Not modelled" |

Hard behaviours: answers after a timeout, lines that belong to two conversations
interleaved on one UART, callbacks that re-enter the channel, queues of 4, 4, 16
and 8 entries that run full independently, restarts of either device, the wrap of
`millis()` at 2^32, and blocking POSTs. `PROJECT.json` lists each at its line under
"hazards".

## 2. Modules

`Clock32` is the arithmetic of `uint32_t` milliseconds: `Plus`, `Since` and the test
`static_cast<int32_t>(now - deadline) >= 0` as `Due`, all modulo `ClockMod`, the
stand-in for 2^32. Every model with time uses it, and the clock wraps in each run.

Classes without interleaving of their own are written as operators on a record of
their fields (`ModemAtCore`, `SmsQueueCore`, `SmsReceiverCore`,
`SmsStorageReaderCore`), so that a module that uses them makes a whole handler,
callbacks included, one action. A definition keeps the name of its method where
there is one; an operator `X_Suffix` is a faulty variant of `X` that no
specification uses: the mutation that shows the properties can fail.

| Module | Models | Actions |
|---|---|---|
| `AtCommandQueue` | abstract: what the channel promises, over histories of accepted, written and completed commands | Submit, Write, Complete |
| `ModemAtCore`, `ModemAt` | `modem_at_core.cpp`, the modem, the UART | `ReadLine` is one line through `onByte`/`handleLine` with its callback; `Drained` the end of the bytes, `Poll` `poll()`; `SubmitTask` a client in the rest of `loop()`; `ModemData/Final/Silent/Report`, `LoseLine`, `Tick` the environment |
| `Outbox` | abstract: what queue and forwarder promise the receiver | Accept, Deliver, DeliverUnconfirmed |
| `SmsQueueCore`, `SmsForwarder` | queue, `forwarderHttpPoll()`, `handleSmsReceived()` | `Receive`; one disjunct of `ForwarderPoll` per way through the poll; WiFi, settings and time |
| `SmsReceiverCore`, `SmsStorageReaderCore`, `StoredSms` | receiver, reader and the callbacks of `main.cpp` between them, the AT channel and the queue | a turn of `loop()` in three parts ("drain", "sms", "clients"), the modem carrying out and answering commands, `Restart` |
| `ModemBringup` | startup sequencer, PDP guard, their hand-over | `PollStartup`, `PollGuard`, results, modem down/up |
| `SmsReceiveWatchdog` | watchdog, and what its commands do to the modem | `Poll`, `Result`, `RecoveryUrc`, modem down/up |
| `ModemEvents` | SIM state | `UrcReady`, `UrcRemoved`, `Poll` |
| `WifiManager` | manager and radio | `Poll`, `UserReconnect`, radio and access point |
| `WebConfig`, `ConfigStore` | how a request to save is read (`webParseConfigSaveJson`, `sanitize`); save key by key, boot, reset | `SaveBegin` with a request, `SaveKey`, `SaveEnd`, `Reset`; `Boot` at any point |
| `CellularStatus` | the schedule of the queries | `Poll`, `Result` |
| `CellularStatusCore`, `DataConnection` | the parsers of `+CGDCONT`, `+CGACT` and `+MIPCALL`, the summary, and the two clients that tell the page of the connection | `StatusPoll`, `GuardPoll`, `Answer` (the callback of whichever client is first), `ModemChanges` |
| `SerialAtConsole` | line editor, what may be run, the one pending command | `Character`, `Backspace`, `NewLine`, `Result` |
| `WebJson` | `JsonWriter`, `webJsonEscape`, `decodeJsonString` | one action per value written |
| `LoggerCore` | log ring | `Write`, `Clear` |

Composition: `StoredSms` takes the AT channel as the FIFO of `AtCommandQueue`, which
`ModemAt` is proved to implement, and adds the one effect the FIFO hides: with
`LateAnswers` an answer finishes whatever command is current. The schedule modules
(`ModemBringup`, `SmsReceiveWatchdog`, `CellularStatus`) see the channel as their
client code does: a submission is accepted or refused, an accepted one is called
back once. `ModemAt` checks that promise (`EveryCommandCompletes`). `SmsForwarder`
implements `Outbox`: attempts, delays, the clock and blocking POSTs disappear, and
each poll is one of the abstract steps or none. `DataConnection` composes the two
clients of the channel that know of the data connection, without their times, which
are those of `CellularStatus` and `ModemBringup`.

Histories (`accepted`, `queued`, `pushes`, `stale`, ...) are marked "history" and are
read by no action.

Reports on the AT channel: `ModemAt` has every class of line that `isUrcLine()` tells
apart as far as its handling differs: a message (`CMT` with its `PDU`), a notice of a
stored one (`CMTI`), a registration report (`REG`, the `+CEREG:` line that an AT+CEREG? at
work takes for its own; `CEREG` is the same line in the answer to that command) and
any other that it lists (`NOTICE`). The modem is supposed to send no reports but those:
a line that `isUrcLine()` does not list is data to the code, which adds it to the response
of whatever command is at work.

What the models abstract: a line is its class and its sender; a message is a model
value with the key, part and total of a long one; the PDU decoder decodes or fails;
storage name and index are one place; a query's answer parses or not, but for those
of `DataConnection`, which are sequences of lines with fields, one of which may be
lost. On the console "at" and "!" (the rest of a refused command) are one character
each, and only printable characters are typed: the code also stores control characters
in the line (`serial_at_console_core.cpp:46`), which the echo leaves out
(`serial_at_console.cpp:114`), so that for them the terminal does not show what runs. A
request to save is the sequence of its members, its values the strings that fit and two
that stand for what is too long or no string. TLC does not unescape the strings of a
.cfg file, hence `MCJsonCharacters` in the MC module.
`ModemBringup` lets a modem that answers AT+MIPCALL? name the state of the
connection; `data_idle` shows what becomes of a bare OK. In `SmsReceiveWatchdog` a
restart is reported when the modem comes up; repeated reports of a modem that stays up
are not modelled.

## 3. Runs

### Passing

| Run | Shows | Bounds |
|---|---|---|
| `at_answers` | refinement of `AtCommandQueue`; each callback gets its own answer, and each message, notice and registration report reaches the subscriber, with one report anywhere between two answers; a `+CEREG:` report during AT+CEREG? goes into the response instead, as the code has it | ring of 2 and 3 submissions (filled, refused, wrapped), 2 commands (one AT+CEREG?), 1 report of any class, 1 data line per answer, a response of 2 lines |
| `at_faulty` | every callback comes, and every deadline is exact, with late and missing answers and lost lines, a lost PDU among them | 2 submissions, 1 report, clock of 4 ticks that wraps during the first command |
| `fwd_delivery` | no loss, order, duplicates only for lost answers (refinement of `Outbox`), delays kept; bad messages do not starve the good one | 3 messages: one always refused, one that may fail once, one that cannot be posted; delays 1 and 2 (at the limit), POSTs of 0 or 1 |
| `sms_intime` | deletes only what was queued, once; the reader waits only for its own command; a command submitted in `loop()` itself finds room | 4 PDUs (2 in one part, of which one direct, and a long one in 2 parts), queue of 1, ring of 2, the console and one other client, 1 restart, modem faults, places reused early, part timeouts |
| `sms_cleared` | everything stored is queued and leaves the SIM, if nothing fails or is full | 3 PDUs, console |
| `wd_refresh` | settings made again in time while the modem is up, and for good once it stays up | the three intervals in the order of the code (retry and status below refresh), one refusal in a row, a clock with room for all of them, which wraps |
| `boot` | guard after startup, retries in time, stops only when down; both end | the four real commands, two attempts each |
| `small_parts` | SIM verdict (but for a READY whole turns of `millis()` old); reconnects; requests, saves and restarts; log ring; schedule of the queries; what the page shows of data; console; JSON | window 3, count of READYs modulo 3; reconnect interval 4, two user requests; two fields and `saved`, three values, one of them the name of a field; ring of 3, 8 writes; 2 static and 2 dynamic queries; three contexts with room for two; a line of 6 with buffers of 6 and 3; two values of up to 2 characters in 14 |

`MCSmallParts` follows one of eight modules that share no state, chosen at the start of
a behaviour; it exists so that one run asks the questions of all eight. It also states
their assumptions, because `INSTANCE` does not.

The bounds keep what matters of the real sizes: each ring is filled and wraps, each
queue is full at least once, each clock wraps, the order of the intervals is that of
the code. Larger values add repetitions of the same cases; for the
properties of section 5 the proofs remove the bounds. `at_faulty` leaves
out data lines and `at_answers` late answers, because with late answers a callback
may get the data of another command (that is `sms_late`).

`at_answers` has a VIEW (`MCView`): states that differ only in the value of `millis()`,
with the deadline of the current command equally far away, count as one. No definition
of `ModemAt` reads the clock in another way, and no property of that run mentions it.

Deadlock is checked in every run: `loop()` never stops.

### Expected violations (findings)

| Run | What the code does |
|---|---|
| `sms_late` | a late answer finishes the next command; an AT+CMGR that answers late makes the reader delete a place it has not read (`modem_at_core.cpp:129`; `docs/esp32c3-ml307r-interaction.md:293`) |
| `sms_full` | a stored message read while the queue is full is never read again (`sms_storage_reader_core.cpp:120`) |
| `data_idle` | a bare OK to AT+MIPCALL?, with which a modem says that there is no connection, is never understood, because a response never holds its OK; the page keeps what it showed (`cellular_status_core.cpp:498`; `test/test_cellular_status/test_cellular_status.cpp:169`) |
| `wd_recovery` | a modem restart reported while the configuration is under way (in the trace during AT+CMGF, its first command) waits for the next hourly refresh (`sms_receive_watchdog_core.cpp:136`) |

Four further configurations of `MCStoredSms` show circumstances under which its
properties fail; they are the reason the passing runs exclude them:

- `MCStoredSms_refused.cfg` (`QueuedLeavesSim`): the deletion submitted in the read
  callback meets a full ring, counts as done and is not tried again (`main.cpp:272`);
- `MCStoredSms_direct.cfg` (`QueuedLeavesSim`): a stored part of a long message
  completed by a directly delivered part is never deleted
  (`sms_storage_reader_core.cpp:105`);
- `MCStoredSms_reused.cfg` (`StoredIsQueued`): the notice for a place whose deletion is
  still under way is dropped (`sms_storage_reader_core.cpp:362`);
- `MCStoredSms_reference.cfg` (`DeletedOnlyIfQueued`): a part of a later message with
  the sender, reference and total of one that is not whole yet is taken for a
  repetition of the part held; its text is dropped and its place deleted
  (`sms_storage_reader_core.cpp:263`).

Each of the first three, `sms_late` and `sms_full` allows exactly one circumstance that
`sms_intime` or `sms_cleared` excludes, so that the passing and the violated run
together say what the property depends on. `sms_intime` has the deletion property
under every circumstance but late answers and reused references; `sms_cleared` has the
liveness properties when the ring cannot be full in the callback (its only other client is the console),
nothing is delivered directly, no place is reused before its OK, and the message
queue has room.

## 4. Fairness

- `loop()` runs for ever and each of its poll functions is called on every turn:
  weak fairness of the loop's actions and of the clock. A POST ends (its timeout).
- The modem: `StoredSms` assumes that it answers or fails every command in the end
  (a command that is never answered times out, which the `pending = <<>>` case of
  `Poll` models); `ModemAt` assumes nothing of it. The schedules assume that the
  channel calls back, which `EveryCommandCompletes` shows of the channel.
- `SF` of `Forward` in `StoredSms`: the forwarder is polled on every turn, and some
  polls deliver; that is `EventuallyDelivered` of `SmsForwarder`.
- Properties about a healthy environment state it: `<>[]up`, `<>[](connected /\
  configured)`, `<>[](ap /\ creds /\ core.has)`. `WifiManager` also assumes that a
  join with the access point in reach succeeds in the end.
- `MCSmallParts` states one weak fairness for the polls, the clock and the answers of
  `WifiManager` and `CellularStatus`: only one of them is followed in a behaviour.

No fairness is assumed of submissions, reports, losses, restarts or users.

## 5. Proofs

Each holds for every value of the constants that satisfies the module's
assumptions, which are checked by TLC in the runs. `Clock32Proofs` has the lemmas
about the wrapping clock that the proofs with deadlines share: `Plus` and `Since`
undo each other, and a difference below half the range is read with its sign.

`ModemAtProofs`, for every set of commands, ring size, response size, timeout table
below half the clock range, clock range and bound:

- `TypeCorrect`: `Spec => []TypeOK`. `TypeOK` is inductive: each method of the record
  keeps `AtRecord`, one lemma per method, and each action chains methods.
- `ChannelImplementsQueue`: `Spec => ImplementsAtQueue`. The inductive invariant is
  `RingInv`: the slots from the head on hold, in order, exactly the accepted commands
  that are not written, and the written ones are the completed ones plus the current
  one. It is needed because the histories alone do not say what the ring holds. Each
  action is shown to be one abstract step or a stutter; `Poll`, which may time out a
  command, let its callback submit another and write the next, is split with `Drained`
  so that each is one abstract step.
- `DeadlinesExact`: `Spec => []DeadlineIsExact`. The inductive invariant
  `DeadlineInv` relates the wrapped deadline to the true age of the command
  (`deadline - now = timeout - age` modulo the range, `age <= timeout + MaxLoopGap`);
  `Due` is then exact because both differences are below half the range.

`SmsForwarderProofs`, for any number of messages, any capacity and delays below half
the range:

- `TypeCorrect`, `NothingLost`, `ForwarderIsOutbox`, `RetriesWait`. The invariant is
  `TypeOK`, `NoSilentLoss`, `InOrder` (what the queue holds is a strictly increasing
  sequence of arrivals: this makes an item's place its identity, so that
  `markSent` of an index removes the message that was posted) and `AllRest` (an item
  that waits has `retry - now = delay - waited` modulo the range, or is past it). Each
  way through `forwarderHttpPoll()` is then one step of `Outbox` or a stutter.
- `RetryDelayAssumption` says that the delay no longer grows where the 8-bit count of
  attempts stops; `RetriesWait` needs it, and the table of the code satisfies it.

`ModemBringupProofs`: `TypeCorrect`, `GuardComesAfterStartup`, `GuardStopsOnlyWhenDown`,
`GuardComesBackInTime`. The invariant has `Kinds` (types and whose command is in the
channel), `Sequence` (every command before the current one was accepted), `HandOver`
(the guard does nothing before the sequence is over) and, for the last theorem,
`OnTime`: a guard that waits is late by no more than the time since the last poll.

`SmsReceiveWatchdogProofs`: `TypeCorrect` and `SettingsAreFresh`, for any intervals with
`Retry <= ConfigRefresh` and the refresh, a query and two commands together below half
the range. The argument is a potential: `ToGo` is the longest time until both settings
have been made again, computed from the lateness of the two deadlines (`Late`, the
signed difference), what is left of the command under way (`Rest`) and the refusals it
may still meet (`Left`); every tick of a modem that answers lowers it by one, no other
action raises it beyond the bound, and `stale + ToGo` never exceeds
`ConfigRefresh + 3 * OneCommand`. `CommandOfStep`, `ConfigureInTime`, `QueryInTime` and
`IdleInTime` say, for each kind of work, how late each deadline can be; without them
the differences could leave the range in which `Due` reads them right.

`SmallPartsProofs`, for the parts of `MCSmallParts` and any value of their constants:
`TypeCorrect` and one theorem for each safety property of the run. `PartsInv` is the
conjunction of one inductive invariant per part; a step of one part leaves the variables
of the others alone.

- SIM: `RemovalIsCertainInTime`, `PairsAreReady`. `SimInv` relates each stamp to the
  true time since it was taken: that of the removal as long as the history counts it, that
  of the last READY exactly in the first turn of the clock and modulo a turn after it.
  The history `contact` says what was near the last removal. Each theorem has one
  exception, which its property names because the code behaves so: a removal whose last
  READY is whole turns of `millis()` old ("turned"), and a count of READYs that has wrapped
  to 0, which the code takes for none.
- WiFi: `NoStartIsCutShort`. `WifiInv` does the same for the last start.
- Configuration: `SaveMeansTheRequest`, `RestartFindsWhatWasSaved`, `FirstSaveIsSafe`.
  `Written` says what is in flash after some of the keys. The code looks a field up in the
  text and takes the first place; that there is a first one comes from the
  well-foundedness of the naturals. The requests name no field twice
  (`WebConfigAssumption`).
- Log: `LogShowsTheLatest`. `RingHoldsLatest` says that the slots from the oldest on hold
  the latest entries, in order.
- Page: `ContextsAsTold`, `ConnectionAsTold`. `NamesFirst`, `ActiveTold` and `CallAsTold`
  relate what is under way in the parsers to what the modem told. The second theorem
  supposes a modem that has a line for each state of the call (`~BareOk`): `data_idle`
  shows what becomes of the other. What the modem answers to the guard's own query is
  not passed on to the page by `handlePdpGuardResult` and does not count as told.
- Console: `ConsoleNamesItsCommand`, `CommandIsTheLineShown`. `LineIsTyped` says that the
  buffer holds the line as it is shown (of printable characters) as long as it fits, and
  that a longer line is marked.
- JSON: `AnswersAreWhole`, the round trip of three functions that run through the text
  from the back. `WriterInv` says that the writer goes on exactly as long as everything
  fits, and has then written all of it. An escaped text is cut into what each of its
  characters became (`Pieces`); where a value ends and what it reads as then follow
  piece by piece, from the last one to the first (`EndMeans`, `DecodedMeans`,
  `StringsMean`). The sizes of both buffers are any.

`StoredSmsProofs`, for any messages, clients and sizes of the queues, and with every
fault: `TypeCorrect`, `ReaderWaits`, `LoopSubmits` (which says how few other clients leave
the reader a place: at most as many as the ring has). The invariant `ChannelInv` says
that no command is in the channel twice, that the reader's command is there exactly
while the reader's state says so, and (`Started`) that after `modemAtPoll()` without a
current command only the console's may still wait: this is what leaves room in the ring
for the reader in the same turn.

`StoredSmsPlacesProofs`:

- `NeverTwice` supposes that the modem answers before the timeout (`~LateAnswers`).
  Three invariants, each on top of the one before: `AnswersInv` (the lines under way
  answer the current command, and a header is followed by its PDU), `PlacesInv` (which
  places are known to whom: the SIM, the notices, the two queues of the reader, its
  groups), `Once` (a PDU is in one of them only, or queued).
- `DeletedWasQueued` also supposes that no reference is used again while a message with
  it is not whole (`UniqueReferences`). `QueuedInv` adds what each of those places owes:
  what is in the queue of deletions was queued, and a group holds the places of the parts
  of one slot of the receiver.
- Both hypotheses are needed: `sms_late` refutes the properties without the first,
  `MCStoredSms_reference.cfg` the second without the other.

In `ModemAtProofs`, for a UART that loses no line:

- `ReportsReachSubscriber` (`~LossyUart`): with any modem, late answers included. The
  messages and notices delivered, followed by those among the lines not read yet, are
  what was `reported`, and `awaitingCmtPdu` is right about the next line. A registration
  report is delivered, not read yet, or taken by an AT+CEREG? (`TakenByQuery`): it is in
  the response of one, or that response was full. `RegistrationInv` carries this through
  the callbacks, since a response never loses a line until it is handed over. The lemmas
  on `Reports` (of a sequence, of one with a line more or less) go by the least number for
  which a statement fails.
- `AnswersBelong` (`~LateAnswers`, `~LossyUart`): with a modem that answers a command
  before its deadline or not at all. The invariant says that the answer lines under way
  carry the number of the current command, that nothing of an answer follows its final
  line, that there are none when no command is current or its deadline has passed, and
  that the lines in the response buffer carry that number too, or are registration
  reports in the response of an AT+CEREG?. Without the hypothesis `sms_late` shows what
  happens. The comment at `modem_at_core.cpp:150` says that no report may be appended to
  an answer; the code makes the exception on purpose (`:185`), since a line cannot tell
  the two apart, and both properties name it.

The hypotheses are the constants of the runs that check the same properties. A recursive
function (the loops of the parsers, of the reader and of `Reports`) is treated in two
steps: that one exists (a set of numbers with 0 and every successor is all of them,
`UpTo`; for the functions that begin at the end of a text, one with the last number and
every predecessor, `Downward`), and then what it is at each number, by the same lemma. What such a function
yields is stated where it is needed; there is no induction theorem with an operator as
parameter in use.

The type invariants of the channel, the startup and the watchdog are proved and in no
run.

Only model-checked: the liveness properties, and whatever needs fairness or ENABLED, which
are out of the prover's reach. Every invariant and every action property of the passing
runs is a theorem.

## 6. Not modelled

- The parsers of single values: signal, operator, SIM, identities and `+CEREG` of
  `cellular_status_core`, the fields of `+CNMI?` in the watchdog. They copy what the page
  shows; a query's answer parses or not, which is in `CellularStatus`.
- `web_server`: the page, the layout of the answers and the routing; the requests that
  change state are actions of `WifiManager`, `SmsForwarder` and `ConfigStore`. That
  `handleConfigSave` answers 500 after a save that was done, when the answer does not fit
  (`web_server.cpp:245`), is a hazard without a property of its own: whether
  the configured values fit, with what their escaping adds, depends on lengths that the
  models do not count.
- `pdulib`, `modem_commands`, `main.cpp`'s printing, build and release files.
- `SmsStorageReaderCore::messageQueued()`, which nothing calls.
- The forwarder's status, levels and times of log entries: shown, never read.
- Two long messages with the same sender, reference and number of parts in the passing
  runs; `MCStoredSms_reference.cfg` has them.
- `ConfigStore`: a later save torn by power loss may leave a mixture of fields; the
  model contains it, and no property forbids it, because nothing in the repository
  says that saves are atomic. The model also contains that a field is found by the first
  text that reads like its key: a request with a value before it that is the name of the
  field (a network called "hostname") is refused, and nothing is saved. A request that
  names a field twice is not among the inputs; the page never sends one.
- `ModemEvents`: the stamp of the last READY is compared modulo 2^32 and never
  forgotten, so for five seconds of every 49.7 days a READY of a whole turn ago pairs
  with a removal (`modem_events_core.cpp:35`), and a 16-bit count of READYs that wraps to 0
  hides the last one. The model contains both: the first is the contact "turned", which
  `VerdictInTime` leaves open, the second the exception of `PairIsReady`. The registration
  fields and the other counters of the snapshot are shown, never read.

## 7. Plan

1. Done: AT channel, message flow (`SmsForwarder`, `StoredSms`), schedules, WiFi,
   configuration with its requests, log, console, JSON, what the page shows of the data
   connection; the refinements of `AtCommandQueue` and `Outbox`; the proofs above.
2. Next models: a composition of the channel's clients over `AtCommandQueue`, to derive
   from it the bound on refusals the schedules assume; the queue with a change of the
   settings in the middle of a backoff; the parsers of `+CEREG`, `+CPIN` and `+CNMI` as
   operators on field lists, as those of `CellularStatusCore`.
3. An abstract specification still worth stating: a mailbox (a message is pending,
   queued, delivered) that `StoredSms` implements when nothing is late and `Outbox`
   continues from the queue on.
4. Next proofs: the models of item 2 and the mailbox of item 3 as they come; liveness stays
   with TLC.
