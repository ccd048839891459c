--------------------------- MODULE SerialAtConsole ---------------------------
(***************************************************************************)
(* The debugging console on the serial line: the line editor of            *)
(* serial_at_console_core.cpp, and serial_at_console.cpp, which hands what *)
(* was typed to the AT channel, one command at a time.  The buffer of the  *)
(* command is what the callback prints when the modem has answered.        *)
(*                                                                         *)
(* A line is a sequence of characters: "at" stands for these two letters,  *)
(* in either case, "!" for the rest of a command that the console refuses  *)
(* to run (+CMGD, +CFUN=...), anything else for itself.  All of them are   *)
(* printable: the console also stores control characters, which its echo   *)
(* leaves out (serial_at_console.cpp:114).                                 *)
(***************************************************************************)
EXTENDS Integers, Sequences, FiniteSetsExt, SequencesExt

CONSTANTS
  Characters,       \* bound: what is typed, " " among it
  LineCapacity,     \* kLineCapacity
  CommandCapacity,  \* kCommandCapacity
  MaxTyped          \* bound: characters on a line of the terminal

SerialAtConsoleAssumption ==
  /\ {"at", " "} \subseteq Characters
  /\ {LineCapacity, CommandCapacity, MaxTyped} \subseteq Nat \ {0}

VARIABLES
  line, overflowed,                  \* SerialAtConsoleCore: line_, overflowed_
  manualAtPending, manualAtCommand,  \* of serial_at_console.cpp
  running,                           \* the command it has in the AT channel, or <<>>
  typed                              \* history: the line as the terminal shows it

vars == <<line, overflowed, manualAtPending, manualAtCommand, running, typed>>

\* serialAtConsoleBegin()
Init ==
  /\ line = <<>> /\ overflowed = FALSE
  /\ manualAtPending = FALSE /\ manualAtCommand = <<>>
  /\ running = <<>>
  /\ typed = <<>>

-----------------------------------------------------------------------------
(* processLine() *)

Trim(s) ==
  LET solid == {i \in DOMAIN s : s[i] # " "}
  IN  IF solid = {} THEN <<>> ELSE SubSeq(s, Min(solid), Max(solid))

\* What follows the prefix "at ".
Argument(s) == Trim(SubSeq(s, 3, Len(s)))

IsUnsafeCommand(command) == IsPrefix(<<"at", "!">>, command)

\* Faulty variant: no look at the command that is pending.
ProcessCommand_NeverBusy(command, pending) ==
  IF IsUnsafeCommand(command) THEN "RejectedUnsafe"
  ELSE IF Len(command) + 1 > CommandCapacity THEN "TooLong"
  ELSE "Submit"

ProcessCommand(command, pending) ==
  IF IsUnsafeCommand(command) THEN "RejectedUnsafe"
  ELSE IF pending THEN "Busy"
  ELSE IF Len(command) + 1 > CommandCapacity THEN "TooLong"
  ELSE "Submit"

ProcessLine(s, pending) ==
  IF s = <<>> THEN "None"
  ELSE IF s = <<"help">> THEN "Help"
  ELSE IF IsPrefix(<<"at", " ">>, s) /\ IsPrefix(<<"at">>, Argument(s))
  THEN ProcessCommand(Argument(s), pending)
  ELSE "Invalid"

-----------------------------------------------------------------------------
(* serialAtConsolePoll() hands every character to onChar(). *)

Character(c) ==
  /\ Len(typed) < MaxTyped
  /\ typed' = Append(typed, c)
  /\ IF Len(line) + 1 >= LineCapacity
     THEN overflowed' = TRUE /\ line' = line
     ELSE line' = Append(line, c) /\ overflowed' = overflowed
  /\ UNCHANGED <<manualAtPending, manualAtCommand, running>>

\* A line that was too long stays so, whatever is rubbed out of it.
\* Faulty variant: there is room again.
OverflowAfterErase_Fits == FALSE
OverflowAfterErase == overflowed

Backspace ==
  /\ typed # <<>>
  /\ typed' = Front(typed)
  /\ line' = IF line = <<>> THEN <<>> ELSE Front(line)
  /\ overflowed' = OverflowAfterErase
  /\ UNCHANGED <<manualAtPending, manualAtCommand, running>>

\* handleConsoleAction() of a command: a refused submission ends it at once.
Submit(command, accepted) ==
  /\ manualAtCommand' = command
  /\ manualAtPending' = accepted
  /\ running' = IF accepted THEN command ELSE running

\* The channel may be full.
NewLine(accepted) ==
  /\ IF ~overflowed /\ ProcessLine(Trim(line), manualAtPending) = "Submit"
     THEN Submit(Argument(Trim(line)), accepted)
     ELSE UNCHANGED <<manualAtPending, manualAtCommand, running>>
  /\ line' = <<>> /\ overflowed' = FALSE
  /\ typed' = <<>>

\* printManualAtResult(): the modem has answered, or the time is over.
Result ==
  /\ running # <<>>
  /\ running' = <<>>
  /\ manualAtPending' = FALSE
  /\ UNCHANGED <<line, overflowed, manualAtCommand, typed>>

Next ==
  \/ \E c \in Characters : Character(c)
  \/ Backspace
  \/ \E accepted \in BOOLEAN : NewLine(accepted)
  \/ Result

Spec == Init /\ [][Next]_vars

-----------------------------------------------------------------------------
(* Properties. *)

\* Types; and the line and the command fit their buffers.
TypeOK ==
  /\ line \in Seq(Characters) /\ Len(line) < LineCapacity
  /\ manualAtCommand \in Seq(Characters) /\ Len(manualAtCommand) < CommandCapacity
  /\ {overflowed, manualAtPending} \subseteq BOOLEAN
  /\ typed \in Seq(Characters) /\ Len(typed) <= MaxTyped

\* The console is busy exactly while a command of it is in the channel, and the
\* buffer that the callback will print still names that command: no line typed
\* meanwhile gets into it, and no refusal leaves the console busy for ever.
ResultNamesItsCommand ==
  /\ manualAtPending <=> running # <<>>
  /\ manualAtPending => manualAtCommand = running

\* Of printable characters, the command that runs is the one that the terminal
\* shows, whole, after whatever rubbing out; a line that outgrew the buffer is
\* never run cut short.
RunsWhatWasTyped ==
  [][running' # running /\ running' # <<>> =>
       /\ IsPrefix(<<"at", " ">>, Trim(typed))
       /\ running' = Argument(Trim(typed))
       /\ ~IsUnsafeCommand(running')]_vars
=============================================================================
