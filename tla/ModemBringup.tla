---------------------------- MODULE ModemBringup ----------------------------
(***************************************************************************)
(* startup_sequencer_core.cpp, pdp_guard_core.cpp and what main.cpp does   *)
(* between them: the startup commands one by one, each tried at most       *)
(* twice, and then the guard that ends the modem's data connection.        *)
(*                                                                         *)
(* The AT channel is seen from these two clients: a submission is accepted *)
(* or refused, and an accepted one is called back once, some time later.   *)
(***************************************************************************)
EXTENDS Clock32, Sequences

CONSTANTS
  StartupRetry,  \* StartupSequencerCore::kRetryDelayMs
  GuardRetry,    \* PdpGuardCore::kRetryIntervalMs
  CommandTime,   \* bound: how long a command is in the channel
  MaxLoopGap,    \* bound: milliseconds between two polls
  MaxRefusals,   \* bound: submissions refused in a row, the ring being full
  HistoryCap     \* bound: how far `idle` counts

MaxAttempts == 2  \* kMaxAttemptsPerCommand

ASSUME ModemBringupAssumption ==
  /\ {StartupRetry, GuardRetry, CommandTime, MaxLoopGap} \subseteq Nat \ {0}
  /\ {MaxRefusals, HistoryCap} \subseteq Nat
  /\ StartupRetry + GuardRetry + MaxLoopGap < HalfRange

VARIABLES
  seq,      \* the fields of StartupSequencerCore
  guard,    \* the fields of PdpGuardCore
  command,  \* the command in the channel, or "none"
  age,      \* for how long
  now, gap, refused,
  up,       \* the modem answers
  data,     \* the modem's data connection is up
  downSeen, \* it was down at some moment since the last command was submitted
  sent,     \* history: the commands the channel accepted
  idle      \* history: true time since the last guard command ended or was
            \* refused with the guard's work not done, counted up to HistoryCap

vars == <<seq, guard, command, age, now, gap, refused, up, data, downSeen, sent, idle>>

StartupCommands == <<"AT", "CMGF", "CNMI", "CEREG?">>
GuardCommands   == {"MIPCALL?", "MIPCALL=0"}
Count(x) == IF x > HistoryCap THEN HistoryCap ELSE x

\* begin() of both
Init ==
  /\ now \in {0, ClockMod - 2}
  /\ seq = [index |-> 1, attempts |-> 0, pending |-> FALSE, next |-> now]
  /\ guard = [startupComplete |-> FALSE, pending |-> FALSE, deactivated |-> FALSE,
              state |-> "Query", next |-> 0]
  /\ command = "none" /\ age = 0 /\ gap = 0 /\ refused = 0
  /\ up \in BOOLEAN /\ data \in BOOLEAN /\ downSeen = ~data
  /\ sent = {} /\ idle = 0

-----------------------------------------------------------------------------
(* StartupSequencerCore *)

\* isComplete()
\* Faulty variant: the last command is not waited for.
StartupIsComplete_Early == seq.index >= Len(StartupCommands) - 1

StartupIsComplete == seq.index > Len(StartupCommands)

StartupToSubmit ==
  IF ~seq.pending /\ seq.index <= Len(StartupCommands) /\ Due(now, seq.next)
  THEN StartupCommands[seq.index] ELSE "none"

\* complete(); whatever the result, the second attempt is the last.
\* Faulty variant: a command is repeated until it succeeds.
StartupComplete_UntilOk(result) ==
  IF result = "Ok"
  THEN [seq EXCEPT !.pending = FALSE, !.attempts = 0, !.index = @ + 1, !.next = now]
  ELSE [seq EXCEPT !.pending = FALSE, !.attempts = 0, !.next = Plus(now, StartupRetry)]

StartupComplete(result) ==
  IF result = "Ok" \/ seq.attempts >= MaxAttempts
  THEN [seq EXCEPT !.pending = FALSE, !.attempts = 0, !.index = @ + 1, !.next = now]
  ELSE [seq EXCEPT !.pending = FALSE, !.next = Plus(now, StartupRetry)]

-----------------------------------------------------------------------------
(* PdpGuardCore *)

\* setStartupComplete(), which main.cpp calls once.
HandedOver ==
  IF guard.startupComplete THEN guard
  ELSE [guard EXCEPT !.startupComplete = TRUE, !.state = "Query", !.next = now]

\* commandToSubmit()
GuardToSubmit(g) ==
  IF ~g.startupComplete \/ g.pending \/ g.deactivated \/ ~Due(now, g.next)
  THEN "none"
  ELSE IF g.state = "Query" THEN "MIPCALL?" ELSE "MIPCALL=0"

\* complete(), with what parseConnectionActive() made of the response of the
\* query: active, inactive or nothing. Every failure goes back to the query.
\* Faulty variant: the disconnect is taken as done, whatever its result.
GuardComplete_AnyResult(result, parsed) ==
  CASE guard.state = "Query" /\ result = "Ok" /\ parsed = "active" ->
         [guard EXCEPT !.pending = FALSE, !.state = "Disconnect", !.next = now]
    [] guard.state = "Disconnect" \/ (result = "Ok" /\ parsed = "inactive") ->
         [guard EXCEPT !.pending = FALSE, !.deactivated = TRUE, !.state = "Complete"]
    [] OTHER -> [guard EXCEPT !.pending = FALSE, !.state = "Query",
                              !.next = Plus(now, GuardRetry)]

\* Faulty variant: a retry is scheduled but the command stays pending.
GuardComplete_KeepsPending(result, parsed) ==
  CASE result = "Ok" /\ guard.state = "Query" /\ parsed = "active" ->
         [guard EXCEPT !.pending = FALSE, !.state = "Disconnect", !.next = now]
    [] result = "Ok" /\ (guard.state = "Disconnect" \/ parsed = "inactive") ->
         [guard EXCEPT !.pending = FALSE, !.deactivated = TRUE, !.state = "Complete"]
    [] OTHER -> [guard EXCEPT !.state = "Query", !.next = Plus(now, GuardRetry)]

GuardComplete(result, parsed) ==
  CASE result = "Ok" /\ guard.state = "Query" /\ parsed = "active" ->
         [guard EXCEPT !.pending = FALSE, !.state = "Disconnect", !.next = now]
    [] result = "Ok" /\ (guard.state = "Disconnect" \/ parsed = "inactive") ->
         [guard EXCEPT !.pending = FALSE, !.deactivated = TRUE, !.state = "Complete"]
    [] OTHER -> [guard EXCEPT !.pending = FALSE, !.state = "Query",
                              !.next = Plus(now, GuardRetry)]

-----------------------------------------------------------------------------
(* main.cpp *)

Submitted(c) ==
  /\ command' = c
  /\ age' = 0
  /\ refused' = 0
  /\ downSeen' = ~data
  /\ sent' = sent \cup {c}

Refused ==
  /\ refused' = refused + 1
  /\ UNCHANGED <<command, age, downSeen, sent>>

\* pollStartupSequencer() before the end
PollStartup(accepted) ==
  /\ ~StartupIsComplete
  /\ IF StartupToSubmit = "none"
     THEN UNCHANGED <<seq, command, age, refused, downSeen, sent>>
     ELSE IF accepted
     THEN /\ seq' = [seq EXCEPT !.pending = TRUE, !.attempts = @ + 1]
          /\ Submitted(StartupToSubmit)
     ELSE /\ seq' = [seq EXCEPT !.next = Plus(now, StartupRetry)]
          /\ Refused
  /\ UNCHANGED <<guard, idle>>

\* pollStartupSequencer() after it, which hands over once, and pollPdpGuard()
PollGuard(accepted) ==
  LET submit == GuardToSubmit(HandedOver)
  IN  /\ StartupIsComplete
      /\ IF submit = "none"
         THEN /\ guard' = HandedOver
              /\ UNCHANGED <<command, age, refused, downSeen, sent, idle>>
         ELSE /\ idle' = 0
              /\ IF accepted
                 THEN /\ guard' = [HandedOver EXCEPT !.pending = TRUE]
                      /\ Submitted(submit)
                 ELSE /\ guard' = [HandedOver EXCEPT !.next = Plus(now, GuardRetry)]
                      /\ Refused
      /\ UNCHANGED seq

\* One round of loop()
Poll(accepted) ==
  /\ accepted \/ refused < MaxRefusals
  /\ PollStartup(accepted) \/ PollGuard(accepted)
  /\ gap' = 0
  /\ UNCHANGED <<now, up, data>>

\* handleStartupCommandResult()
StartupResult(result) ==
  /\ seq.pending
  /\ up => result = "Ok"
  /\ seq' = StartupComplete(result)
  /\ UNCHANGED <<guard, data, downSeen, idle>>

\* handlePdpGuardResult(). The query's answer tells of some moment since its
\* submission, or has no +MIPCALL line; a disconnect may have been done though
\* no answer came, and the modem may have restarted and dialled again since.
GuardResult(result) ==
  /\ guard.pending
  /\ up => result = "Ok"
  /\ \E parsed \in {"active", "inactive", "nothing"} :
       /\ parsed = "active" => data
       /\ parsed = "inactive" => downSeen
       /\ parsed = "nothing" => ~up
       /\ guard' = GuardComplete(result, parsed)
  /\ IF command = "MIPCALL=0" /\ result = "Ok" /\ ~downSeen
     THEN data' = FALSE /\ downSeen' = TRUE
     ELSE UNCHANGED <<data, downSeen>>
  /\ idle' = 0
  /\ UNCHANGED seq

Result(result) ==
  /\ command # "none"
  /\ StartupResult(result) \/ GuardResult(result)
  /\ command' = "none"
  /\ age' = 0
  /\ UNCHANGED <<now, gap, refused, up, sent>>

-----------------------------------------------------------------------------
(* The modem and the clock. *)

\* The modem carries AT+MIPCALL=0 out before it answers, if it answers.
ModemDisconnects ==
  /\ command = "MIPCALL=0"
  /\ data
  /\ data' = FALSE
  /\ downSeen' = TRUE
  /\ UNCHANGED <<seq, guard, command, age, now, gap, refused, up, sent, idle>>

ModemDown ==
  /\ up
  /\ up' = FALSE
  /\ UNCHANGED <<seq, guard, command, age, now, gap, refused, data, downSeen, sent, idle>>

\* It comes back, perhaps with its data connection dialled again.
ModemUp ==
  /\ ~up
  /\ up' = TRUE
  /\ data' \in {data, TRUE}
  /\ UNCHANGED <<seq, guard, command, age, now, gap, refused, downSeen, sent, idle>>

Tick ==
  /\ gap < MaxLoopGap
  /\ command # "none" => age < CommandTime
  /\ now' = Plus(now, 1)
  /\ gap' = gap + 1
  /\ age' = IF command # "none" THEN age + 1 ELSE age
  /\ idle' = IF guard.startupComplete /\ ~guard.pending /\ ~guard.deactivated
             THEN Count(idle + 1) ELSE 0
  /\ UNCHANGED <<seq, guard, command, refused, up, data, downSeen, sent>>

Results == {"Ok", "Error", "Timeout"}

Next ==
  \/ \E accepted \in BOOLEAN : Poll(accepted)
  \/ \E result \in Results : Result(result)
  \/ ModemDisconnects
  \/ ModemDown
  \/ ModemUp
  \/ Tick

Spec == Init /\ [][Next]_vars

\* loop() polls for ever, the channel calls back, time passes.
FairSpec ==
  /\ Spec
  /\ WF_vars(\E accepted \in BOOLEAN : Poll(accepted))
  /\ WF_vars(\E result \in Results : Result(result))
  /\ WF_vars(Tick)

-----------------------------------------------------------------------------
(* Properties. *)

\* Types; one command of the two clients in the channel at a time.
TypeOK ==
  /\ seq \in [ index : 1 .. Len(StartupCommands) + 1, attempts : 0 .. MaxAttempts,
               pending : BOOLEAN, next : Time ]
  /\ guard \in [ startupComplete : BOOLEAN, pending : BOOLEAN, deactivated : BOOLEAN,
                 state : {"Query", "Disconnect", "Complete"}, next : Time ]
  /\ command \in {"none"} \cup {StartupCommands[i] : i \in 1 .. Len(StartupCommands)} \cup GuardCommands
  /\ age \in 0 .. CommandTime /\ gap \in 0 .. MaxLoopGap /\ refused \in 0 .. MaxRefusals
  /\ now \in Time /\ up \in BOOLEAN /\ data \in BOOLEAN /\ downSeen \in BOOLEAN /\ idle \in 0 .. HistoryCap
  /\ seq.pending => command = StartupCommands[seq.index]
  /\ guard.pending => command = IF guard.state = "Query" THEN "MIPCALL?" ELSE "MIPCALL=0"
  /\ ~(seq.pending /\ guard.pending)

\* The guard never delays the setup of SMS reception: when it uses the channel,
\* every startup command has been submitted and has ended
\* (docs/esp32c3-ml307r-interaction.md:189).
GuardAfterStartup ==
  command \in GuardCommands =>
    {StartupCommands[i] : i \in 1 .. Len(StartupCommands)} \subseteq sent /\ ~seq.pending

\* The guard, its work not done, comes back after its retry interval, late by
\* one round of loop() at most, at any value of millis().
GuardRetriesInTime == idle <= GuardRetry + MaxLoopGap

\* The guard stops only on an answer given at a moment at which the data
\* connection was down, after its last command was submitted; an answer that
\* failed or did not come is no such answer.
GuardStopsWhenDown ==
  [][guard'.deactivated /\ ~guard.deactivated => downSeen']_vars

\* The startup ends whatever the modem does, and hands over.
StartupEnds == <>guard.startupComplete

\* With a modem that stays up, the guard ends its work.
GuardEnds == <>[]up => <>guard.deactivated
=============================================================================
