---------------------------- MODULE ModemAtCore ----------------------------
(***************************************************************************)
(* The AT command channel of modem_at_core.cpp, as operators on a record   *)
(* that holds the fields of class ModemAtCore.                             *)
(*                                                                         *)
(* The program has one thread, and a callback may submit a new command     *)
(* while its caller is still half way through poll() or onByte().  Writing *)
(* the methods as functions from one record to the next lets a module that *)
(* uses them chain a whole handler, callbacks included, into one action.   *)
(*                                                                         *)
(* A received line is a record [kind, tag].  The kinds are the classes     *)
(* handleLine() tells apart:                                               *)
(*   "blank"     an empty line                                             *)
(*   "overlong"  a line longer than kLineCapacity, dropped by onByte()     *)
(*   "OK"        the final result OK                                       *)
(*   "ERROR"     ERROR, +CME ERROR: or +CMS ERROR:                         *)
(*   "CMT"       the header of a directly delivered message                *)
(*   "CMTI"      the notice that a message was stored                      *)
(*   "REG","CEREG"  a +CEREG: line: an unsolicited report, or the result   *)
(*               of AT+CEREG?; the code has no test that tells them apart  *)
(*   "NOTICE"    +CDS:, +MATREADY or +CPIN:                                *)
(*   "PDU","DATA"  every other line; the code has no test that would tell  *)
(*               the PDU of a message from the data of an answer           *)
(* The tag says where the line comes from; no operator looks at it.        *)
(***************************************************************************)
EXTENDS Sequences, Clock32

CONSTANTS
  Commands,         \* the AT commands clients may submit
  NoCommand,        \* an empty slot
  CeregQueries,     \* the commands whose text starts with AT+CEREG?
  QueueCapacity,    \* kQueueCapacity
  ResponseCapacity, \* how many lines fit in response_ (kResponseCapacity)
  TimeoutMs         \* timeoutMs of submit()

ASSUME ModemAtCoreAssumption ==
  /\ NoCommand \notin Commands
  /\ CeregQueries \subseteq Commands
  /\ QueueCapacity \in Nat \ {0}
  /\ ResponseCapacity \in Nat
  /\ TimeoutMs \in [Commands -> 0 .. HalfRange]

Slots == 0 .. QueueCapacity - 1

AtBegin(now) ==
  [ queue          |-> [i \in Slots |-> NoCommand],
    head           |-> 0,
    count          |-> 0,
    hasCurrent     |-> FALSE,
    current        |-> NoCommand,
    deadline       |-> now,
    response       |-> <<>>,
    awaitingCmtPdu |-> FALSE ]

-----------------------------------------------------------------------------
(* submit(): append to the ring, or refuse when every slot is taken. *)

\* Faulty variant of Accepts: room for one too many.
Accepts_OffByOne(at) == at.count <= QueueCapacity

Accepts(at) == at.count < QueueCapacity

Slot(at, i) == (at.head + i) % QueueCapacity

Submit(at, c) ==
  IF Accepts(at)
  THEN [at EXCEPT !.queue[Slot(at, at.count)] = c, !.count = @ + 1]
  ELSE at

-----------------------------------------------------------------------------
(* poll(): a deadline that has passed finishes the current command, then a *)
(* free channel takes the oldest waiting one.                              *)

Expired(at, now) == at.hasCurrent /\ Due(now, at.deadline)

Finish(at) == [at EXCEPT !.hasCurrent = FALSE]

NextSlot(i) == (i + 1) % QueueCapacity

\* Faulty variant of Starts: the last waiting command is overlooked.
Starts_OffByOne(at) == ~at.hasCurrent /\ at.count > 1

Starts(at) == ~at.hasCurrent /\ at.count > 0

StartNextCommand(at, now) ==
  IF Starts(at)
  THEN LET c == at.queue[at.head]
       IN  [at EXCEPT !.current    = c,
                      !.head       = NextSlot(@),
                      !.count      = @ - 1,
                      !.hasCurrent = TRUE,
                      !.deadline   = Plus(now, TimeoutMs[c]),
                      !.response   = <<>>]
  ELSE at

-----------------------------------------------------------------------------
(* handleLine() *)

Ignored(line) == line.kind \in {"blank", "overlong"}

IsFinal(line) == line.kind \in {"OK", "ERROR"}

IsUrcLine(line) == line.kind \in {"CMT", "CMTI", "REG", "CEREG", "NOTICE"}

\* Faulty variant of ExpectsPlusLine: whatever command is at work.
ExpectsPlusLine_AnyCommand(at, line) == at.hasCurrent /\ line.kind \in {"REG", "CEREG"}

\* currentCommandExpectsPlusLine()
ExpectsPlusLine(at, line) ==
  /\ at.hasCurrent
  /\ line.kind \in {"REG", "CEREG"}
  /\ at.current \in CeregQueries

\* Faulty variant of EmitsUrc: the PDU after a +CMT: header is not expected.
EmitsUrc_ForgetsPdu(at, line) ==
  /\ ~Ignored(line)
  /\ ~at.hasCurrent \/ (IsUrcLine(line) /\ ~ExpectsPlusLine(at, line))

\* The line goes to the URC callback.
EmitsUrc(at, line) ==
  /\ ~Ignored(line)
  /\ \/ at.awaitingCmtPdu
     \/ ~at.hasCurrent
     \/ IsUrcLine(line) /\ ~ExpectsPlusLine(at, line)

\* The line finishes the current command.
Completes(at, line) ==
  /\ IsFinal(line)
  /\ at.hasCurrent
  /\ ~at.awaitingCmtPdu

\* The line is added to the response: data, and an error's own text.
Appends(at, line) ==
  /\ ~Ignored(line)
  /\ ~EmitsUrc(at, line)
  /\ line.kind # "OK"

\* appendResponseLine(): a line that does not fit is dropped.
AppendResponseLine(response, line) ==
  IF Len(response) < ResponseCapacity THEN Append(response, line) ELSE response

HandleLine(at, line) ==
  [at EXCEPT
     !.awaitingCmtPdu = IF Ignored(line) THEN @ ELSE ~@ /\ line.kind = "CMT",
     !.response       = IF Appends(at, line) THEN AppendResponseLine(@, line) ELSE @,
     !.hasCurrent     = @ /\ ~Completes(at, line)]
=============================================================================
