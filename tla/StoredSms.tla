----------------------------- MODULE StoredSms -----------------------------
(***************************************************************************)
(* A message on its way from the modem to the queue of the forwarder:      *)
(* main.cpp ties the AT channel, the receiver, the storage reader and the  *)
(* message queue together with callbacks.  The modem stores the message on *)
(* the SIM and reports its place, the firmware reads it (AT+CMGR), decodes *)
(* it, queues it and deletes the place (AT+CMGD); or the modem delivers it *)
(* directly, as a header and a PDU.                                        *)
(*                                                                         *)
(* The AT channel is the FIFO that AtCommandQueue describes and ModemAt    *)
(* is proved to implement: a ring of waiting commands, one under way, one  *)
(* callback each.  Time is left out: an answer may come when the command   *)
(* has timed out, and then finishes the next one.                          *)
(*                                                                         *)
(* A turn of loop() is "drain" (modemAtPoll()), "sms" (the receiver's poll *)
(* and the two submit functions) and "clients" (everything else).          *)
(***************************************************************************)
EXTENDS SmsStorageReaderCore, SmsQueueCore

CONSTANTS
  AtCapacity,    \* kQueueCapacity of the AT channel
  NoSms,         \* an empty place
  Clients,       \* the other users of the channel: watchdog, PDP guard,
                 \* cellular status, console
  Console,       \* the one that is polled before the "sms" tasks
  Direct,        \* the PDUs the modem delivers directly
  LateAnswers,   \* may the modem answer after the timeout?
  ModemFaults,   \* may the modem answer ERROR, or not at all?
  ReportsEarly,  \* may the modem report a message stored in a place it has
                 \* just freed, before it answers the deletion?
  SlowParts,     \* may a long message time out before its last part?
  MaxRestarts    \* bound: restarts of the ESP32

ASSUME StoredSmsAssumption ==
  /\ AtCapacity \in Nat \ {0}
  /\ NoSms \notin Sms
  /\ Direct \subseteq Sms
  /\ {LateAnswers, ModemFaults, ReportsEarly, SlowParts} \subseteq BOOLEAN
  /\ MaxRestarts \in Nat

VARIABLES
  waiting,     \* AT commands in the ring
  current,     \* the command under way, or NoCommand
  response,    \* the first PDU in the response of the current command
  awaitingCmtPdu,  \* of ModemAtCore
  receiver, reader,
  queue,       \* the items of SmsQueueCore
  pc,          \* where loop() is
  uart,        \* lines on their way from the modem
  pending,     \* commands the modem has not finished with
  executed,    \* has it carried out the first of them?
  sim,         \* the PDU stored at each place
  arrived,     \* the PDUs the network has delivered to the modem
  queued,      \* history: how often each PDU was put into the queue
  deleted,     \* history: the PDUs a deletion removed from the SIM
  restarts     \* how often the ESP32 restarted

channelVars == <<waiting, current, response, awaitingCmtPdu>>
modemVars   == <<pending, executed, sim, arrived>>
history     == <<queued, deleted, restarts>>
vars == <<channelVars, receiver, reader, queue, pc, uart, modemVars, history>>

NoCommand  == [op |-> "none", arg |-> NoIndex]
Read(i)    == [op |-> "read", arg |-> i]
Delete(i)  == [op |-> "delete", arg |-> i]
Other(c)   == [op |-> "other", arg |-> c]

InFlight == {waiting[k] : k \in DOMAIN waiting} \cup ({current} \ {NoCommand})

Init ==
  /\ waiting = <<>> /\ current = NoCommand /\ response = NoSms
  /\ awaitingCmtPdu = FALSE
  /\ receiver = ReceiverBegin /\ reader = ReaderBegin /\ queue = <<>>
  /\ pc = "drain"
  /\ uart = <<>>
  /\ pending = <<>> /\ executed = FALSE
  /\ sim = [i \in Indices |-> NoSms]
  /\ arrived = {}
  /\ queued = [s \in Sms |-> 0] /\ deleted = {} /\ restarts = 0

-----------------------------------------------------------------------------
(* Handlers of main.cpp, as functions on the record of what they change.   *)

State == [waiting |-> waiting, receiver |-> receiver, reader |-> reader,
          queue |-> queue, queued |-> queued]

Becomes(s) ==
  /\ waiting' = s.waiting /\ receiver' = s.receiver /\ reader' = s.reader
  /\ queue' = s.queue /\ queued' = s.queued

\* modemAtSubmit() succeeds.  Faulty variant: one slot is wasted.
Accepts_WastesSlot(s) == Len(s.waiting) < AtCapacity - 1
Accepts(s)            == Len(s.waiting) < AtCapacity

\* handleSmsReceived(): the queue takes the message or drops it.
Received(s, msg) ==
  IF HasRoom(s.queue)
  THEN [s EXCEPT !.queue = Enqueue(@, msg, 0),
                 !.queued = [m \in Sms |-> IF m \in msg.parts THEN @[m] + 1 ELSE @[m]]]
  ELSE s

ReceivedAll(s, msgs) == IF msgs = <<>> THEN s ELSE Received(s, msgs[1])

\* submitStoredSmsDeleteIfReady(): a refused command counts as done.
SubmitDelete(s) ==
  IF ~DeleteIsReady(s.reader) THEN s
  ELSE LET rd == NextDelete(s.reader)
       IN  IF Accepts(s)
           THEN [s EXCEPT !.reader = rd, !.waiting = Append(@, Delete(rd.active))]
           ELSE [s EXCEPT !.reader = CompleteDelete(rd, "QueueFull")]

\* submitStoredSmsReadIfReady(): a refused command is a failed read.
SubmitRead(s) ==
  IF ~ReadIsReady(s.reader) THEN s
  ELSE LET rd == NextRead(s.reader)
       IN  IF Accepts(s)
           THEN [s EXCEPT !.reader = rd, !.waiting = Append(@, Read(rd.active))]
           ELSE [s EXCEPT !.reader = ClearActive(rd)]

\* handleStoredSmsReadResult(): read, decode, queue, and ask for deletion.
ReadResult(s, result, pdu) ==
  IF result # "Ok" \/ pdu = NoSms
  THEN [s EXCEPT !.reader = ClearActive(@)]
  ELSE LET o    == HandlePdu(s.receiver, pdu)
           room == HasRoom(s.queue)
           s1   == ReceivedAll([s EXCEPT !.receiver = o.receiver], o.received)
       IN  IF ~o.accepted
           THEN [s1 EXCEPT !.reader = ClearActive(@)]
           ELSE SubmitDelete(
                  [s1 EXCEPT !.reader = MessageAccepted(@, pdu, o.received # <<>> /\ room)])

\* The callback of a finished command.
Callback(s, c, result, pdu) ==
  CASE c.op = "read"   -> ReadResult(s, result, pdu)
    [] c.op = "delete" -> [s EXCEPT !.reader = CompleteDelete(@, result)]
    [] OTHER           -> s

\* handleModemUrc() as far as messages go: smsReceiverOnUrc().
OnUrc(s, line) ==
  IF s.receiver.awaitingPdu
  THEN IF line.kind \in {"PDU", "DATA"}
       THEN LET o == HandlePdu(s.receiver, line.of)
            IN  ReceivedAll([s EXCEPT !.receiver = o.receiver], o.received)
       ELSE [s EXCEPT !.receiver.awaitingPdu = FALSE]
  ELSE CASE line.kind = "CMT"  -> [s EXCEPT !.receiver.awaitingPdu = TRUE]
         [] line.kind = "CMTI" -> [s EXCEPT !.reader = EnqueueRead(@, line.of)]
         [] OTHER              -> s

-----------------------------------------------------------------------------
(* A turn of loop(). *)

L(kind, of) == [kind |-> kind, of |-> of]

\* modemAtPoll() reads a line.
ReadUrc(line) ==
  /\ awaitingCmtPdu \/ line.kind \in {"CMT", "CMTI"} \/ current = NoCommand
  /\ awaitingCmtPdu' = (~awaitingCmtPdu /\ line.kind = "CMT")
  /\ Becomes(OnUrc(State, line))
  /\ UNCHANGED <<current, response>>

ReadData(line) ==
  /\ ~awaitingCmtPdu /\ line.kind = "DATA" /\ current # NoCommand
  /\ response' = IF response = NoSms THEN line.of ELSE response
  /\ UNCHANGED <<awaitingCmtPdu, current, waiting, receiver, reader, queue, queued>>

ReadFinal(line) ==
  /\ ~awaitingCmtPdu /\ line.kind \in {"OK", "ERROR"} /\ current # NoCommand
  /\ current' = NoCommand
  /\ Becomes(Callback(State, current, IF line.kind = "OK" THEN "Ok" ELSE "Error", response))
  /\ response' = NoSms
  /\ UNCHANGED awaitingCmtPdu

ReadLine ==
  /\ pc = "drain"
  /\ uart # <<>>
  /\ uart' = Tail(uart)
  /\ LET line == Head(uart) IN ReadUrc(line) \/ ReadData(line) \/ ReadFinal(line)
  /\ UNCHANGED <<pc, modemVars, deleted, restarts>>

\* ModemAtCore::poll(): a command that nothing can answer any more times out;
\* others may, if the modem may be late.  Then the next one is written.
MayTimeOut  == current # NoCommand /\ (LateAnswers \/ pending = <<>>)
MustTimeOut == current # NoCommand /\ pending = <<>>

Poll(timeout) ==
  /\ pc = "drain"
  /\ uart = <<>>
  /\ timeout => MayTimeOut
  /\ MustTimeOut => timeout
  /\ pc' = "sms"
  /\ LET s == IF timeout THEN Callback(State, current, "Timeout", NoSms) ELSE State
     IN  IF (timeout \/ current = NoCommand) /\ s.waiting # <<>>
         THEN /\ Becomes([s EXCEPT !.waiting = Tail(@)])
              /\ current' = Head(s.waiting)
              /\ response' = NoSms
              /\ pending' = Append(pending, Head(s.waiting))
         ELSE /\ Becomes(s)
              /\ current' = IF timeout THEN NoCommand ELSE current
              /\ response' = IF timeout THEN NoSms ELSE response
              /\ UNCHANGED pending
  /\ UNCHANGED <<awaitingCmtPdu, uart, executed, sim, arrived, deleted, restarts>>

\* smsReceiverPoll(), submitStoredSmsDeleteIfReady() and
\* submitStoredSmsReadIfReady(); `due` are the slots whose time is over.
TimeOutSlots(s, due) ==
  LET upTo[i \in 0 .. MaxConcatMessages] ==
        IF i = 0 THEN s
        ELSE IF i \notin due THEN upTo[i - 1]
        ELSE Received([upTo[i - 1] EXCEPT !.receiver = ClearSlot(@, i)],
                      Message(s.receiver.slots[i]))
  IN  upTo[MaxConcatMessages]

SmsTasks(due, pduTimeout) ==
  /\ pc = "sms"
  /\ \A i \in due : SlowParts /\ InUse(receiver, i)
  /\ pduTimeout => SlowParts /\ receiver.awaitingPdu
  /\ pc' = "clients"
  /\ LET s1 == IF pduTimeout THEN [State EXCEPT !.receiver = PduTimeout(@)] ELSE State
     IN  Becomes(SubmitRead(SubmitDelete(TimeOutSlots(s1, due))))
  /\ UNCHANGED <<current, response, awaitingCmtPdu, uart, modemVars, deleted, restarts>>

\* Another client submits a command; none has two in flight.
ClientSubmits(c) ==
  /\ pc = "clients" \/ (pc = "sms" /\ c = Console)
  /\ Other(c) \notin InFlight
  /\ Accepts(State)
  /\ waiting' = Append(waiting, Other(c))
  /\ UNCHANGED <<current, response, awaitingCmtPdu, receiver, reader, queue, pc,
                 uart, modemVars, history>>

\* forwarderHttpPoll() delivers an item.
Forward(i) ==
  /\ pc = "clients"
  /\ queue' = MarkSent(queue, i)
  /\ UNCHANGED <<channelVars, receiver, reader, pc, uart, modemVars, history>>

TurnEnds ==
  /\ pc = "clients"
  /\ pc' = "drain"
  /\ UNCHANGED <<channelVars, receiver, reader, queue, uart, modemVars, history>>

\* The ESP32 restarts and forgets everything; the modem does not.  Answers
\* that arrive before the UART is opened again are lost.
Restart ==
  /\ restarts < MaxRestarts
  /\ restarts' = restarts + 1
  /\ waiting' = <<>> /\ current' = NoCommand /\ response' = NoSms
  /\ awaitingCmtPdu' = FALSE
  /\ receiver' = ReceiverBegin /\ reader' = ReaderBegin /\ queue' = <<>>
  /\ pc' = "drain"
  /\ uart' = <<>>
  /\ pending' \in {<<>>} \cup (IF LateAnswers THEN {pending} ELSE {})
  /\ executed' = (executed /\ pending' # <<>>)
  /\ UNCHANGED <<sim, arrived, queued, deleted>>

-----------------------------------------------------------------------------
(* The modem. *)

\* A PDU arrives from the network; it is stored, or delivered directly.
NetworkDelivers(s) ==
  /\ s \notin arrived
  /\ executed => ReportsEarly
  /\ arrived' = arrived \cup {s}
  /\ IF s \in Direct
     THEN /\ uart' = uart \o <<L("CMT", NoIndex), L("PDU", s)>>
          /\ UNCHANGED sim
     ELSE \E i \in Indices :
            /\ sim[i] = NoSms
            /\ \A j \in Indices : sim[j] = NoSms => i <= j
            /\ sim' = [sim EXCEPT ![i] = s]
            /\ uart' = Append(uart, L("CMTI", i))
  /\ UNCHANGED <<channelVars, receiver, reader, queue, pc, pending, executed, history>>

\* It carries out a deletion.
ModemDeletes ==
  /\ pending # <<>> /\ ~executed /\ Head(pending).op = "delete"
  /\ LET i == Head(pending).arg
     IN  /\ deleted' = deleted \cup ({sim[i]} \ {NoSms})
         /\ sim' = [sim EXCEPT ![i] = NoSms]
  /\ executed' = TRUE
  /\ UNCHANGED <<channelVars, receiver, reader, queue, pc, uart, pending, arrived,
                 queued, restarts>>

ModemReplies ==
  /\ pending # <<>>
  /\ LET c == Head(pending)
     IN  /\ c.op = "delete" => executed
         /\ uart' = IF c.op = "read" /\ sim[c.arg] # NoSms
                    THEN uart \o <<L("DATA", sim[c.arg]), L("OK", NoIndex)>>
                    ELSE Append(uart, L("OK", NoIndex))
  /\ pending' = Tail(pending)
  /\ executed' = FALSE
  /\ UNCHANGED <<channelVars, receiver, reader, queue, pc, sim, arrived, history>>

\* ERROR, or no answer; the command may have been carried out all the same.
ModemFails ==
  /\ ModemFaults
  /\ pending # <<>>
  /\ uart' \in {uart, Append(uart, L("ERROR", NoIndex))}
  /\ pending' = Tail(pending)
  /\ executed' = FALSE
  /\ UNCHANGED <<channelVars, receiver, reader, queue, pc, sim, arrived, history>>

-----------------------------------------------------------------------------

Loop ==
  \/ ReadLine
  \/ \E timeout \in BOOLEAN : Poll(timeout)
  \/ \E due \in SUBSET ConcatSlots, pduTimeout \in BOOLEAN : SmsTasks(due, pduTimeout)
  \/ TurnEnds

Modem == ModemDeletes \/ ModemReplies \/ ModemFails

Next ==
  \/ Loop
  \/ \E c \in Clients : ClientSubmits(c)
  \/ \E i \in DOMAIN queue : Forward(i)
  \/ Modem
  \/ \E s \in Sms : NetworkDelivers(s)
  \/ Restart

Spec == Init /\ [][Next]_vars

\* loop() runs for ever, the modem answers or gives up in the end, and of the
\* polls of the forwarder some deliver what is queued.
FairSpec ==
  /\ Spec /\ WF_vars(Loop) /\ WF_vars(Modem)
  /\ SF_vars(\E i \in DOMAIN queue : Forward(i))

-----------------------------------------------------------------------------
(* Properties. *)

Command == {Read(i) : i \in Indices} \cup {Delete(i) : i \in Indices}
             \cup {Other(c) : c \in Clients}

\* Types, and the limits of the queues.
TypeOK ==
  /\ waiting \in Seq(Command) /\ Len(waiting) <= AtCapacity
  /\ current \in Command \cup {NoCommand}
  /\ response \in Sms \cup {NoSms}
  /\ receiver.slots \in [ConcatSlots -> SUBSET Sms]
  /\ reader.queue \in Seq(Indices) /\ Len(reader.queue) <= ReadCapacity
  /\ reader.deletes \in Seq(Indices) /\ Len(reader.deletes) <= DeleteCapacity
  /\ Len(queue) <= Capacity
  /\ sim \in [Indices -> Sms \cup {NoSms}]
  /\ pending \in Seq(Command)

\* A message leaves the SIM only when its text, alone or as part of a long
\* message, is in the forwarder's queue or was: "read it with AT+CMGR, queue
\* it first, delete it when the receiving chain has accepted it"
\* (docs/esp32c3-ml307r-interaction.md:293).
DeletedOnlyIfQueued == \A s \in deleted : queued[s] > 0

\* No PDU is handed to the forwarder twice.
NeverQueuedTwice == \A s \in Sms : queued[s] <= 1

\* The reader waits exactly while its command is in the channel: it never
\* waits for a callback that will not come, nor has it two commands under
\* way, nor does it rest in the state AwaitingMessageQueue.
ReaderWaitsForItsCommand ==
  /\ reader.state = "Reading"  <=> \E i \in Indices : Read(i) \in InFlight
  /\ reader.state = "Deleting" <=> \E i \in Indices : Delete(i) \in InFlight
  /\ reader.state \in {"Reading", "Deleting"} =>
       LET mine == {Read(reader.active), Delete(reader.active)}
       IN  /\ \A c \in InFlight : c.op # "other" => c \in mine
           /\ Cardinality({k \in DOMAIN waiting : waiting[k] \in mine})
                + (IF current \in mine THEN 1 ELSE 0) = 1

\* loop() never finds the ring full when it submits for the reader: the other
\* clients have one command each in flight, and modemAtPoll() has just
\* started the oldest.
LoopSubmitIsTaken ==
  (pc = "sms" /\ (ReadIsReady(reader) \/ DeleteIsReady(reader))) => Accepts(State)

\* A stored message that is in the forwarder's queue, or was, leaves the SIM:
\* "submit AT+CMGD to delete the place, so that it is not processed again
\* after a restart ... after the merged message is queued, every index that
\* took part must be deleted" (docs/esp32c3-ml307r-interaction.md:293).
Stored(s) == \E i \in Indices : sim[i] = s

QueuedLeavesSim == \A s \in Sms : (Stored(s) /\ queued[s] > 0) ~> ~Stored(s)

\* A stored message, all of whose parts have arrived, is queued: "the
\* firmware must submit AT+CMGR to read the place, decode the PDU and queue
\* it" (docs/esp32c3-ml307r-interaction.md:293).
Arrived(s) == \A t \in Sms : Key[t] = Key[s] => t \in arrived

StoredIsQueued == \A s \in Sms : (Stored(s) /\ Arrived(s)) ~> (queued[s] > 0)
=============================================================================
