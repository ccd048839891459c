------------------------------ MODULE ModemAt ------------------------------
(***************************************************************************)
(* The AT channel between the ESP32 and the ML307R modem: modem_at.cpp     *)
(* drains the UART into ModemAtCore and then polls it, once per turn of    *)
(* loop(); clients submit commands from the other tasks of loop() and from *)
(* the callbacks; the modem answers, reports and fails on its own.         *)
(*                                                                         *)
(* A turn of loop() is "drain" (read lines until none is available),       *)
(* "poll" (one ModemAtCore::poll) and "tasks" (everything else).           *)
(***************************************************************************)
EXTENDS ModemAtCore

CONSTANTS
  MaxAccepted,  \* bound: how many commands are accepted in a behaviour
  MaxReports,   \* bound: how many lines of reports, at which the modem stops
  MaxData,      \* bound: data lines in one answer
  MaxLoopGap,   \* bound: milliseconds between two polls of the channel
  StartTimes,   \* millis() when the channel is opened
  LateAnswers,  \* may the modem answer after the deadline?
  LossyUart     \* may the UART lose a line?

ASSUME ModemAtAssumption ==
  /\ MaxAccepted \in Nat /\ MaxReports \in Nat /\ MaxData \in Nat
  /\ MaxLoopGap \in 1 .. HalfRange - 1
  /\ StartTimes \subseteq Time
  /\ LateAnswers \in BOOLEAN /\ LossyUart \in BOOLEAN

VARIABLES
  at,         \* the fields of ModemAtCore
  now,        \* millis()
  pc,         \* where loop() is
  rx,         \* complete lines waiting in the UART buffer
  answered,   \* the modem is done with this many of the written commands
  answering,  \* data lines sent of the answer under way
  accepted,   \* history: the commands submit() took
  written,    \* history: the commands written to the modem
  completed,  \* history: <<command, result>> of each callback made
  answers,    \* history: the response of each callback and the tag of the
              \* line that finished it (0 for a timeout)
  reported,   \* history: the lines of unsolicited reports the modem sent
  delivered,  \* history: those that reached the URC callback
  age,        \* true time since the current command was written
  gap         \* true time since the last poll

atVars    == <<at, accepted, written, completed, answers>>
modemVars == <<answered, answering, reported>>
clockVars == <<now, age, gap>>
vars      == <<atVars, modemVars, clockVars, pc, rx, delivered>>

Results == {"Ok", "Error", "Timeout"}
Pcs     == {"drain", "poll", "tasks"}
Kinds   == {"blank", "overlong", "OK", "ERROR", "CMT", "CMTI", "REG", "CEREG", "NOTICE",
            "PDU", "DATA"}
Line    == [kind : Kinds, tag : Nat]

L(kind, tag) == [kind |-> kind, tag |-> tag]

Init ==
  /\ now \in StartTimes
  /\ at = AtBegin(now)
  /\ pc = "drain"
  /\ rx = <<>>
  /\ answered = 0 /\ answering = 0
  /\ accepted = <<>> /\ written = <<>> /\ completed = <<>> /\ answers = <<>>
  /\ reported = <<>> /\ delivered = <<>>
  /\ age = 0 /\ gap = 0

-----------------------------------------------------------------------------
(* The ESP32 side. *)

\* What a callback or a task may submit: nothing, or one command.
Submissions == {<<>>} \cup {<<c>> : c \in Commands}

\* The channel after the submissions of a callback, and the history of it.
SubmitAll(a, s) == IF s = <<>> THEN a ELSE Submit(a, s[1])

Taken(a, acc, s) == IF s # <<>> /\ Accepts(a) THEN Append(acc, s[1]) ELSE acc

\* The written commands after startNextCommand().
Sent(a, wr) == IF Starts(a) THEN Append(wr, a.queue[a.head]) ELSE wr

Record(a, s) == accepted' = Taken(a, accepted, s)

\* finishCurrent() has called back with result; tag is that of the last line.
RecordCompletion(result, response, tag) ==
  /\ completed' = Append(completed, <<at.current, result>>)
  /\ answers'   = Append(answers, [response |-> response, by |-> tag])

\* A task of loop() submits a command; refused when the ring is full.
SubmitTask(c) ==
  /\ pc = "tasks"
  /\ Len(accepted) < MaxAccepted
  /\ at' = Submit(at, c)
  /\ Record(at, <<c>>)
  /\ UNCHANGED <<written, completed, answers, modemVars, clockVars, pc, rx, delivered>>

\* modemAtPoll() reads one line.  A line that finishes the command runs its
\* callback, which may submit another.
ReadLine ==
  /\ pc = "drain"
  /\ rx # <<>>
  /\ LET line == Head(rx)
         a    == HandleLine(at, line)
     IN  /\ rx' = Tail(rx)
         /\ IF EmitsUrc(at, line)
            THEN delivered' = IF line.kind \in {"CMT", "CMTI", "NOTICE", "PDU", "REG"}
                              THEN Append(delivered, line) ELSE delivered
            ELSE UNCHANGED delivered
         /\ IF Completes(at, line)
            THEN /\ RecordCompletion(IF line.kind = "OK" THEN "Ok" ELSE "Error",
                                     a.response, line.tag)
                 /\ \E s \in Submissions :
                      /\ s # <<>> => Len(accepted) < MaxAccepted
                      /\ at' = SubmitAll(a, s)
                      /\ Record(a, s)
            ELSE at' = a /\ UNCHANGED <<completed, answers, accepted>>
  /\ UNCHANGED <<written, modemVars, clockVars, pc>>

\* Serial1.available() is 0.
Drained ==
  /\ pc = "drain"
  /\ rx = <<>>
  /\ pc' = "poll"
  /\ UNCHANGED <<atVars, modemVars, clockVars, rx, delivered>>

\* poll(): time out the current command, its callback included, then start
\* the next one.
Poll ==
  /\ pc = "poll"
  /\ pc' = "tasks"
  /\ \E s \in Submissions :
       LET fin == IF Expired(at, now) THEN Finish(at) ELSE at
           a   == SubmitAll(fin, s)
       IN  /\ s # <<>> => Expired(at, now) /\ Len(accepted) < MaxAccepted
           /\ Record(fin, s)
           /\ at' = StartNextCommand(a, now)
           /\ written' = Sent(a, written)
           /\ age' = IF Starts(a) THEN 0 ELSE age
  /\ IF Expired(at, now)
     THEN RecordCompletion("Timeout", at.response, 0)
     ELSE UNCHANGED <<completed, answers>>
  /\ gap' = 0
  /\ UNCHANGED <<modemVars, now, rx, delivered>>

\* The other tasks of this turn are done.
TurnEnds ==
  /\ pc = "tasks"
  /\ pc' = "drain"
  /\ UNCHANGED <<atVars, modemVars, clockVars, rx, delivered>>

-----------------------------------------------------------------------------
(* The modem and the UART. *)

\* The modem is at work on the command numbered answered + 1, in time for it.
InTime ==
  /\ Len(written) = answered + 1
  /\ at.hasCurrent /\ Len(completed) = answered
  /\ ~Due(now, at.deadline)

MayAnswer == answered < Len(written) /\ (LateAnswers \/ InTime)

\* The echoed blank line and a line of data.
ModemData ==
  /\ MayAnswer
  /\ answering < MaxData
  /\ answering' = answering + 1
  /\ \E kind \in {"DATA", "CEREG", "overlong"} :
       /\ kind = "CEREG" => written[answered + 1] \in CeregQueries
       /\ rx' = rx \o <<L("blank", 0), L(kind, answered + 1)>>
  /\ UNCHANGED <<atVars, answered, reported, clockVars, pc, delivered>>

ModemFinal ==
  /\ MayAnswer
  /\ \E kind \in {"OK", "ERROR"} : rx' = Append(rx, L(kind, answered + 1))
  /\ answered' = answered + 1
  /\ answering' = 0
  /\ UNCHANGED <<atVars, reported, clockVars, pc, delivered>>

\* The modem gives no (further) answer to a command.
ModemSilent ==
  /\ answered < Len(written)
  /\ answered' = answered + 1
  /\ answering' = 0
  /\ UNCHANGED <<atVars, reported, clockVars, pc, rx, delivered>>

\* An unsolicited report; a delivered message is a header and its PDU, and a
\* change of the registration looks like a result of AT+CEREG?.  The reports are
\* of the classes isUrcLine() lists: any other line is data to the code, which
\* adds it to the response of whatever command is at work.
ModemReport ==
  LET n == Len(reported) + 1
  IN  /\ Len(reported) < MaxReports
      /\ \E lines \in { <<L("CMT", n), L("PDU", n)>>, <<L("CMTI", n)>>,
                        <<L("NOTICE", n)>>, <<L("REG", n)>> } :
           /\ rx' = rx \o lines
           /\ reported' = reported \o lines
      /\ UNCHANGED <<atVars, answered, answering, clockVars, pc, delivered>>

\* The UART buffer overflows while loop() is busy elsewhere.
LoseLine ==
  /\ LossyUart
  /\ \E i \in DOMAIN rx :
       rx' = [j \in 1 .. Len(rx) - 1 |-> IF j < i THEN rx[j] ELSE rx[j + 1]]
  /\ UNCHANGED <<atVars, modemVars, clockVars, pc, delivered>>

\* A millisecond passes.  When answers are never late, one that has begun to
\* arrive is complete and read before the deadline.
Tick ==
  /\ gap < MaxLoopGap
  /\ LateAnswers \/ (rx = <<>> /\ answering = 0)
                 \/ ~at.hasCurrent \/ ~Due(Plus(now, 1), at.deadline)
  /\ now' = Plus(now, 1)
  /\ gap' = gap + 1
  /\ age' = IF at.hasCurrent THEN age + 1 ELSE age
  /\ UNCHANGED <<atVars, modemVars, pc, rx, delivered>>

-----------------------------------------------------------------------------

Loop == ReadLine \/ Drained \/ Poll \/ TurnEnds

Modem == ModemData \/ ModemFinal \/ ModemSilent \/ ModemReport

Next == Loop \/ (\E c \in Commands : SubmitTask(c)) \/ Modem \/ LoseLine \/ Tick

Spec == Init /\ [][Next]_vars

\* loop() runs for ever and time passes; the modem owes nothing.
FairSpec == Spec /\ WF_vars(Loop) /\ WF_vars(Tick)

-----------------------------------------------------------------------------
(* Properties. *)

AtRecord ==
  [ queue          : [Slots -> Commands \cup {NoCommand}],
    head           : Slots,
    count          : 0 .. QueueCapacity,
    hasCurrent     : BOOLEAN,
    current        : Commands \cup {NoCommand},
    deadline       : Time,
    response       : Seq(Line),
    awaitingCmtPdu : BOOLEAN ]

\* Types; the ring never leaves its slots, and the response its buffer.
TypeOK ==
  /\ at \in AtRecord
  /\ Len(at.response) <= ResponseCapacity
  /\ now \in Time
  /\ pc \in Pcs
  /\ rx \in Seq(Line) /\ reported \in Seq(Line) /\ delivered \in Seq(Line)
  /\ answered \in Nat /\ answering \in Nat
  /\ accepted \in Seq(Commands) /\ written \in Seq(Commands)
  /\ completed \in Seq(Commands \X Results)
  /\ answers \in Seq([response : Seq(Line), by : Nat])
  /\ age \in Nat /\ gap \in Nat

\* The ring buffer, the separate current command and the callbacks that
\* submit from within finishCurrent() amount to a FIFO that runs one command
\* at a time and calls back exactly once for each one it accepted.
AtQueue ==
  INSTANCE AtCommandQueue WITH
    Commands      <- Commands,
    QueueCapacity <- QueueCapacity,
    accepted      <- accepted,
    written       <- written,
    completed     <- completed
ImplementsAtQueue == AtQueue!Spec

\* The line belongs in the response of the k-th command, c: it is of that
\* command's answer, or one of the registration reports that AT+CEREG? takes
\* for its own.
BelongsTo(line, k, c) == IF line.kind = "REG" THEN c \in CeregQueries ELSE line.tag = k

\* A modem that answers within the deadline or not at all: a command that is
\* not timed out is finished by its own final line and gets the data of its
\* own answer, even when messages are reported in the middle of it.  The one
\* foreign line a response can hold is a registration report that comes while
\* AT+CEREG? is at work (modem_at_core.cpp:190): no other command gets one.
\* (The modem reports what isUrcLine() lists and nothing else.)
AnswerBelongsToCommand ==
  \A k \in DOMAIN completed :
    /\ completed[k][2] # "Timeout" => answers[k].by = k
    /\ \A i \in DOMAIN answers[k].response :
         BelongsTo(answers[k].response[i], k, completed[k][1])

\* A message or a notice, which no command takes for its own.
IsReport(line) == line.kind \in {"CMT", "CMTI", "NOTICE", "PDU"}

\* The lines of messages and notices among these, in order.
Reports(lines) ==
  LET upTo[i \in 0 .. Len(lines)] ==
        IF i = 0 THEN <<>>
        ELSE IF IsReport(lines[i]) THEN Append(upTo[i - 1], lines[i]) ELSE upTo[i - 1]
  IN  upTo[Len(lines)]

Holds(lines, x) == \E i \in DOMAIN lines : lines[i] = x

\* The response of the k-th written command, so far or as it was handed over.
ResponseOf(k) == IF k \in DOMAIN answers THEN answers[k].response ELSE at.response

\* An AT+CEREG? has the line in its response, or had no room left for it.
TakenByQuery(line) ==
  \E k \in DOMAIN written :
    /\ written[k] \in CeregQueries
    /\ Holds(ResponseOf(k), line) \/ Len(ResponseOf(k)) = ResponseCapacity

\* Every line of a reported message or notice that has been read off the UART
\* went to the URC callback, in order, none to a command's response: "URC
\* may be inserted in an AT response and must not be appended to it, or the
\* message is swallowed by a business command" (modem_at_core.cpp:150).  A
\* report of the registration is the exception the code makes: it goes to the
\* callback too, unless AT+CEREG? is at work, which gets it in its response
\* (modem_at_core.cpp:185).  None is lost in any other way.
UrcReachesSubscriber ==
  /\ Reports(reported) = Reports(delivered) \o Reports(rx)
  /\ \A i \in DOMAIN reported :
       reported[i].kind = "REG" =>
         \/ Holds(delivered, reported[i]) \/ Holds(rx, reported[i])
         \/ TakenByQuery(reported[i])

\* The signed 32-bit deadline test agrees with the time that really passed,
\* also across the wrap of millis(): no command is given up before its
\* timeout, and none holds the channel for longer than one turn past it.
DeadlineIsExact ==
  at.hasCurrent =>
    /\ Due(now, at.deadline) <=> age >= TimeoutMs[at.current]
    /\ age <= TimeoutMs[at.current] + MaxLoopGap

\* Whatever the modem does, and whatever lines are lost, late or swallowed,
\* every accepted command is called back: no client waits for ever.
EveryCommandCompletes ==
  \A k \in 1 .. MaxAccepted : Len(accepted) >= k ~> Len(completed) >= k
=============================================================================
