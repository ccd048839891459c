------------------------- MODULE ModemBringupProofs -------------------------
(***************************************************************************)
(* Theorems about ModemBringup, for all times of the two clients, every    *)
(* width of the clock and whatever the modem does.                         *)
(***************************************************************************)
EXTENDS ModemBringup, Clock32Proofs

Last == Len(StartupCommands)

LEMMA Commands ==
  /\ Last = 4
  /\ \A i \in 1 .. 4 : StartupCommands[i] \notin GuardCommands \cup {"none"}
<1>1. /\ StartupCommands[1] = "AT" /\ StartupCommands[2] = "CMGF"
      /\ StartupCommands[3] = "CNMI" /\ StartupCommands[4] = "CEREG?"
  BY DEF StartupCommands
<1>2. \A i \in 1 .. 4 : i = 1 \/ i = 2 \/ i = 3 \/ i = 4
  OBVIOUS
<1>3. \A i \in 1 .. 4 : StartupCommands[i] \notin GuardCommands \cup {"none"}
  BY <1>1, <1>2 DEF GuardCommands
<1>4. Last = 4
  BY DEF StartupCommands, Last
<1>. QED  BY <1>3, <1>4

-----------------------------------------------------------------------------
(* The inductive invariant. *)

Seqs   == [ index : 1 .. 5, attempts : 0 .. MaxAttempts, pending : BOOLEAN, next : Time ]
Guards == [ startupComplete : BOOLEAN, pending : BOOLEAN, deactivated : BOOLEAN,
            state : {"Query", "Disconnect", "Complete"}, next : Time ]
Names  == {"none"} \cup {StartupCommands[i] : i \in 1 .. 4} \cup GuardCommands

GuardName(g) == IF g.state = "Query" THEN "MIPCALL?" ELSE "MIPCALL=0"

Kinds ==
  /\ seq \in Seqs /\ guard \in Guards /\ command \in Names
  /\ age \in 0 .. CommandTime /\ gap \in 0 .. MaxLoopGap /\ refused \in 0 .. MaxRefusals
  /\ now \in Time /\ up \in BOOLEAN /\ data \in BOOLEAN /\ downSeen \in BOOLEAN
  /\ idle \in 0 .. HistoryCap
  /\ seq.pending => command = StartupCommands[seq.index]
  /\ guard.pending => command = GuardName(guard)
  /\ ~(seq.pending /\ guard.pending)

LEMMA Types == Kinds <=> TypeOK
<1>1. Len(StartupCommands) = 4
  BY Commands DEF Last
<1>. QED  BY <1>1 DEF Kinds, TypeOK, Seqs, Guards, Names, GuardName

Waiting == guard.startupComplete /\ ~guard.pending /\ ~guard.deactivated

\* What the sequencer has done: every command before the current one was
\* accepted by the channel, and the current one if it is pending; a second
\* attempt is the last.
Sequence ==
  /\ seq.pending => seq.index <= Last /\ StartupCommands[seq.index] \in sent
  /\ \A i \in 1 .. Last : i < seq.index => StartupCommands[i] \in sent
  /\ ~seq.pending => seq.attempts < MaxAttempts

\* The guard does nothing before the startup is complete, and a command of its
\* kind in the channel is its own.
HandOver ==
  /\ guard.startupComplete => seq.index > Last
  /\ guard.pending \/ guard.deactivated => guard.startupComplete
  /\ command \in GuardCommands => guard.pending

\* A guard that waits is late by no more than the time since the last poll, and
\* its idle time is no longer than the retry interval and that.
OnTime ==
  /\ ~Waiting => idle = 0
  /\ Waiting => \E late \in -GuardRetry .. gap :
                  /\ now - guard.next - late \in {0, ClockMod, -ClockMod}
                  /\ idle <= GuardRetry + late

Inv == Kinds /\ Sequence /\ HandOver

LEMMA Constants ==
  /\ {StartupRetry, GuardRetry, CommandTime, MaxLoopGap} \subseteq Nat \ {0}
  /\ MaxRefusals \in Nat /\ HistoryCap \in Nat
  /\ StartupRetry + GuardRetry + MaxLoopGap < HalfRange
  /\ HalfRange \in Nat /\ ClockMod = 2 * HalfRange
  /\ Time = 0 .. ClockMod - 1 /\ 0 \in Time
  BY ModemBringupAssumption, HalfRangeType DEF Time

LEMMA PlusTime == \A t \in Time, d \in {StartupRetry, GuardRetry} : Plus(t, d) \in Time
<1>1. \A t \in Time : t \in Int
  BY ClockModAssumption DEF Time
<1>2. StartupRetry \in Int /\ GuardRetry \in Int
  BY ModemBringupAssumption
<1>. QED  BY <1>1, <1>2, PlusType

LEMMA CountType == \A x \in Nat : Count(x) \in 0 .. HistoryCap /\ Count(x) <= x
  BY Constants DEF Count

LEMMA InitInv == Init => Inv
<1>. SUFFICES ASSUME Init PROVE Inv
  OBVIOUS
<1>1. now \in Time
  BY Constants, ClockModAssumption DEF Init, Time
<1>2. Kinds
  BY <1>1, Constants DEF Init, Kinds, Seqs, Guards, Names, MaxAttempts
<1>3. Sequence /\ HandOver
  BY Commands DEF Init, Sequence, HandOver, MaxAttempts, GuardCommands
<1>. QED  BY <1>2, <1>3 DEF Inv

-----------------------------------------------------------------------------
(* The steps: the invariant. *)

LEMMA HandedOverType ==
  ASSUME guard \in Guards, now \in Time
  PROVE  /\ HandedOver \in Guards /\ HandedOver.startupComplete
         /\ HandedOver.pending = guard.pending /\ HandedOver.deactivated = guard.deactivated
         /\ guard.startupComplete => HandedOver = guard
         /\ ~guard.startupComplete => HandedOver.state = "Query" /\ HandedOver.next = now
  BY DEF HandedOver, Guards

\* What the guard submits, with nothing of its own in the channel.
LEMMA GuardSubmits ==
  ASSUME NEW g \in Guards, GuardToSubmit(g) # "none"
  PROVE  ~g.pending /\ ~g.deactivated /\ Due(now, g.next) /\ GuardToSubmit(g) = GuardName(g)
         /\ GuardToSubmit(g) \in GuardCommands
  BY DEF GuardToSubmit, GuardName, GuardCommands

LEMMA StartupStep ==
  ASSUME Inv, NEW accepted \in BOOLEAN, accepted \/ refused < MaxRefusals,
         PollStartup(accepted), gap' = 0, UNCHANGED <<now, up, data>>
  PROVE  Inv'
<1>1. /\ seq \in Seqs /\ guard \in Guards /\ command \in Names
      /\ refused \in 0 .. MaxRefusals /\ now \in Time /\ data \in BOOLEAN
  BY DEF Inv, Kinds
<1>2. seq.index \in 1 .. 4 /\ ~guard.startupComplete /\ ~guard.pending
      /\ ~guard.deactivated /\ command \notin GuardCommands
  BY <1>1, Commands DEF PollStartup, StartupIsComplete, Inv, HandOver, Seqs, Guards, Last
<1>3. UNCHANGED <<guard, idle>>
  BY DEF PollStartup
<1>4. CASE StartupToSubmit = "none"
  <2>1. UNCHANGED <<seq, command, age, refused, downSeen, sent>>
    BY <1>4 DEF PollStartup
  <2>2. 0 \in 0 .. MaxLoopGap
    BY Constants
  <2>3. Kinds'
    BY <1>3, <2>1, <2>2 DEF Inv, Kinds, GuardName
  <2>. QED  BY <1>3, <2>1, <2>3 DEF Inv, Sequence, HandOver
<1>5. CASE StartupToSubmit # "none" /\ accepted
  <2>1. ~seq.pending /\ StartupToSubmit = StartupCommands[seq.index]
    BY <1>5 DEF StartupToSubmit
  <2>2. /\ seq' = [seq EXCEPT !.pending = TRUE, !.attempts = @ + 1]
        /\ command' = StartupCommands[seq.index] /\ age' = 0 /\ refused' = 0
        /\ downSeen' = ~data /\ sent' = sent \cup {StartupCommands[seq.index]}
    BY <1>5, <2>1 DEF PollStartup, Submitted
  <2>3. seq.attempts < MaxAttempts
    BY <2>1 DEF Inv, Sequence
  <2>4. seq' \in Seqs /\ seq'.pending /\ seq'.index = seq.index
    <3>1. seq.attempts + 1 \in 0 .. MaxAttempts
      BY <1>1, <2>3 DEF Seqs, MaxAttempts
    <3>2. seq' = [seq EXCEPT !.pending = TRUE, !.attempts = seq.attempts + 1]
      BY <2>2
    <3>. QED  BY <1>1, <3>1, <3>2 DEF Seqs
  <2>5. command' \in Names \ GuardCommands
    BY <1>2, <2>2, Commands DEF Names
  <2>6. Kinds'
    <3>1. /\ age' \in 0 .. CommandTime /\ gap' \in 0 .. MaxLoopGap /\ refused' \in 0 .. MaxRefusals
          /\ downSeen' \in BOOLEAN
      BY <2>2, Constants
    <3>2. up' \in BOOLEAN /\ idle' \in 0 .. HistoryCap /\ data' \in BOOLEAN
      BY <1>3 DEF Inv, Kinds
    <3>. QED  BY <1>1, <1>2, <1>3, <2>2, <2>4, <2>5, <3>1, <3>2 DEF Kinds
  <2>7. Sequence'
    BY <1>1, <1>2, <2>2, <2>4, Commands DEF Inv, Sequence, Last
  <2>8. HandOver'
    BY <1>2, <1>3, <2>5 DEF HandOver
  <2>. QED  BY <2>6, <2>7, <2>8 DEF Inv
<1>6. CASE StartupToSubmit # "none" /\ ~accepted
  <2>1. /\ seq' = [seq EXCEPT !.next = Plus(now, StartupRetry)]
        /\ refused' = refused + 1 /\ UNCHANGED <<command, age, downSeen, sent>>
    BY <1>6 DEF PollStartup, Refused
  <2>2. Plus(now, StartupRetry) \in Time
    BY <1>1, PlusTime
  <2>3. seq' \in Seqs /\ seq'.pending = seq.pending /\ seq'.index = seq.index
        /\ seq'.attempts = seq.attempts
    BY <1>1, <2>1, <2>2 DEF Seqs
  <2>4. refused' \in 0 .. MaxRefusals
    BY <1>1, <1>6, <2>1, Constants
  <2>5. 0 \in 0 .. MaxLoopGap
    BY Constants
  <2>6. Kinds'
    BY <1>3, <2>1, <2>3, <2>4, <2>5 DEF Inv, Kinds, GuardName
  <2>. QED  BY <1>3, <2>1, <2>3, <2>6 DEF Inv, Sequence, HandOver
<1>. QED  BY <1>4, <1>5, <1>6

LEMMA GuardStep ==
  ASSUME Inv, NEW accepted \in BOOLEAN, accepted \/ refused < MaxRefusals,
         PollGuard(accepted), gap' = 0, UNCHANGED <<now, up, data>>
  PROVE  Inv'
<1>. DEFINE h == HandedOver
            submit == GuardToSubmit(h)
<1>1. /\ seq \in Seqs /\ guard \in Guards /\ command \in Names /\ age \in 0 .. CommandTime
      /\ refused \in 0 .. MaxRefusals /\ now \in Time /\ data \in BOOLEAN
      /\ up \in BOOLEAN /\ downSeen \in BOOLEAN /\ idle \in 0 .. HistoryCap
  BY DEF Inv, Kinds
<1>2. seq.index > Last /\ UNCHANGED seq /\ ~seq.pending /\ seq.index \in Nat
  BY <1>1, Commands DEF PollGuard, StartupIsComplete, Inv, Sequence, Seqs, Last
<1>3. /\ h \in Guards /\ h.startupComplete
      /\ h.pending = guard.pending /\ h.deactivated = guard.deactivated
      /\ guard.startupComplete => h = guard
  BY <1>1, HandedOverType
<1>. HIDE DEF h
<1>4. 0 \in 0 .. MaxLoopGap /\ 0 \in 0 .. HistoryCap /\ 0 \in 0 .. CommandTime /\ 0 \in 0 .. MaxRefusals
  BY Constants
<1>5. CASE submit = "none"
  <2>1. guard' = h /\ UNCHANGED <<command, age, refused, downSeen, sent, idle>>
    BY <1>5 DEF PollGuard, h
  <2>2. guard'.pending => command = GuardName(guard')
    BY <1>1, <1>3, <2>1 DEF Inv, Kinds, HandOver
  <2>3. Kinds'
    BY <1>1, <1>2, <1>3, <1>4, <2>1, <2>2 DEF Kinds
  <2>. QED  BY <1>2, <1>3, <2>1, <2>3 DEF Inv, Sequence, HandOver
<1>6. CASE submit # "none" /\ accepted
  <2>1. ~h.pending /\ ~h.deactivated /\ submit = GuardName(h) /\ submit \in GuardCommands
    BY <1>3, <1>6, GuardSubmits
  <2>2. /\ guard' = [h EXCEPT !.pending = TRUE] /\ command' = submit /\ age' = 0 /\ refused' = 0
        /\ downSeen' = ~data /\ sent' = sent \cup {submit} /\ idle' = 0
    BY <1>6 DEF PollGuard, Submitted, h
  <2>3. guard' \in Guards /\ guard'.pending /\ guard'.startupComplete
        /\ GuardName(guard') = GuardName(h)
    BY <1>3, <2>2 DEF Guards, GuardName
  <2>4. Kinds'
    BY <1>1, <1>2, <1>4, <2>1, <2>2, <2>3 DEF Kinds, Names
  <2>. QED  BY <1>2, <2>2, <2>3, <2>4 DEF Inv, Sequence, HandOver
<1>7. CASE submit # "none" /\ ~accepted
  <2>1. ~h.pending /\ ~h.deactivated
    BY <1>3, <1>7, GuardSubmits
  <2>2. /\ guard' = [h EXCEPT !.next = Plus(now, GuardRetry)] /\ refused' = refused + 1
        /\ idle' = 0 /\ UNCHANGED <<command, age, downSeen, sent>>
    BY <1>7 DEF PollGuard, Refused, h
  <2>3. Plus(now, GuardRetry) \in Time
    BY <1>1, PlusTime
  <2>4. guard' \in Guards /\ ~guard'.pending /\ ~guard'.deactivated /\ guard'.startupComplete
    BY <1>3, <2>1, <2>2, <2>3 DEF Guards
  <2>5. refused' \in 0 .. MaxRefusals
    BY <1>1, <1>7, <2>2, Constants, SMTT(30)
  <2>6. Kinds'
    BY <1>1, <1>2, <1>4, <2>2, <2>4, <2>5 DEF Kinds
  <2>7. command' \notin GuardCommands
    BY <1>3, <2>1, <2>2 DEF Inv, HandOver
  <2>. QED  BY <1>2, <2>2, <2>4, <2>6, <2>7 DEF Inv, Sequence, HandOver
<1>. QED  BY <1>5, <1>6, <1>7

LEMMA StartupResultStep ==
  ASSUME Inv, NEW result \in Results, command # "none", StartupResult(result),
         command' = "none", age' = 0, UNCHANGED <<now, gap, refused, up, sent>>
  PROVE  Inv'
<1>1. seq \in Seqs /\ seq.pending /\ seq.index \in 1 .. 4 /\ seq.attempts \in 0 .. MaxAttempts
      /\ now \in Time /\ ~guard.pending
  BY Commands DEF StartupResult, Inv, Kinds, Sequence, Seqs, Last
<1>2. /\ seq' = StartupComplete(result) /\ UNCHANGED <<guard, data, downSeen, idle>>
  BY DEF StartupResult
<1>3. Plus(now, StartupRetry) \in Time
  BY <1>1, PlusTime
<1>4. /\ seq' \in Seqs /\ ~seq'.pending /\ seq'.attempts < MaxAttempts
      /\ seq'.index \in {seq.index, seq.index + 1}
  <2>1. CASE result = "Ok" \/ seq.attempts >= MaxAttempts
    <3>1. seq' = [seq EXCEPT !.pending = FALSE, !.attempts = 0, !.index = @ + 1, !.next = now]
      BY <1>2, <2>1 DEF StartupComplete
    <3>2. seq.index + 1 \in 1 .. 5 /\ 0 \in 0 .. MaxAttempts /\ 0 < MaxAttempts
      BY <1>1 DEF MaxAttempts
    <3>3. seq' = [seq EXCEPT !.pending = FALSE, !.attempts = 0, !.index = seq.index + 1, !.next = now]
      BY <3>1
    <3>. QED  BY <1>1, <3>2, <3>3 DEF Seqs
  <2>2. CASE ~(result = "Ok" \/ seq.attempts >= MaxAttempts)
    <3>1. seq' = [seq EXCEPT !.pending = FALSE, !.next = Plus(now, StartupRetry)]
      BY <1>2, <2>2 DEF StartupComplete
    <3>2. seq.attempts < MaxAttempts
      BY <1>1, <2>2 DEF MaxAttempts
    <3>. QED  BY <1>1, <1>3, <3>1, <3>2 DEF Seqs
  <2>. QED  BY <2>1, <2>2
<1>5. "none" \in Names /\ "none" \notin GuardCommands /\ 0 \in 0 .. CommandTime
  BY Constants DEF Names, GuardCommands
<1>6. Kinds'
  BY <1>1, <1>2, <1>4, <1>5 DEF Inv, Kinds
<1>7. Sequence'
  <2>1. \A i \in 1 .. Last : i < seq'.index => i < seq.index \/ i = seq.index
    BY <1>1, <1>4, Commands
  <2>2. StartupCommands[seq.index] \in sent
    BY <1>1 DEF Inv, Sequence
  <2>. QED  BY <1>4, <2>1, <2>2 DEF Inv, Sequence
<1>8. HandOver'
  <2>1. guard.startupComplete => seq.index > 4
    BY Commands DEF Inv, HandOver
  <2>. QED  BY <1>1, <1>2, <1>5, <2>1 DEF Inv, HandOver
<1>. QED  BY <1>6, <1>7, <1>8 DEF Inv

\* What the guard makes of a result.
LEMMA GuardCompletes ==
  ASSUME guard \in Guards, now \in Time, NEW result, NEW parsed
  PROVE  LET g == GuardComplete(result, parsed)
         IN  /\ g \in Guards /\ ~g.pending /\ g.startupComplete = guard.startupComplete
             /\ g.deactivated /\ ~guard.deactivated =>
                  result = "Ok" /\ (guard.state = "Disconnect" \/ parsed = "inactive")
             /\ ~g.deactivated => g.next \in {now, Plus(now, GuardRetry)}
<1>1. Plus(now, GuardRetry) \in Time
  BY PlusTime
<1>. DEFINE g == GuardComplete(result, parsed)
<1>2. CASE result = "Ok" /\ guard.state = "Query" /\ parsed = "active"
  <2>1. g = [guard EXCEPT !.pending = FALSE, !.state = "Disconnect", !.next = now]
    BY <1>2 DEF GuardComplete
  <2>. HIDE DEF g
  <2>2. g \in Guards /\ ~g.pending /\ g.startupComplete = guard.startupComplete
        /\ g.deactivated = guard.deactivated /\ g.next = now
    BY <2>1 DEF Guards
  <2>. QED  BY <2>2 DEF g
<1>3. CASE result = "Ok" /\ (guard.state = "Disconnect" \/ parsed = "inactive")
  <2>1. g = [guard EXCEPT !.pending = FALSE, !.deactivated = TRUE, !.state = "Complete"]
    BY <1>3 DEF GuardComplete
  <2>. HIDE DEF g
  <2>2. g \in Guards /\ ~g.pending /\ g.startupComplete = guard.startupComplete /\ g.deactivated
    BY <2>1 DEF Guards
  <2>. QED  BY <1>3, <2>2 DEF g
<1>4. CASE /\ ~(result = "Ok" /\ guard.state = "Query" /\ parsed = "active")
           /\ ~(result = "Ok" /\ (guard.state = "Disconnect" \/ parsed = "inactive"))
  <2>1. g = [guard EXCEPT !.pending = FALSE, !.state = "Query", !.next = Plus(now, GuardRetry)]
    BY <1>4 DEF GuardComplete
  <2>. HIDE DEF g
  <2>2. g \in Guards /\ ~g.pending /\ g.startupComplete = guard.startupComplete
        /\ g.deactivated = guard.deactivated /\ g.next = Plus(now, GuardRetry)
    BY <1>1, <2>1 DEF Guards
  <2>. QED  BY <2>2 DEF g
<1>. QED  BY <1>2, <1>3, <1>4

LEMMA GuardResultStep ==
  ASSUME Inv, NEW result \in Results, command # "none", GuardResult(result),
         command' = "none", age' = 0, UNCHANGED <<now, gap, refused, up, sent>>
  PROVE  Inv'
<1>1. guard \in Guards /\ guard.pending /\ guard.startupComplete /\ now \in Time /\ ~seq.pending
  BY DEF GuardResult, Inv, Kinds, HandOver
<1>2. guard' \in Guards /\ ~guard'.pending /\ guard'.startupComplete
  <2>1. PICK parsed : guard' = GuardComplete(result, parsed)
    BY DEF GuardResult
  <2>. QED  BY <1>1, <2>1, GuardCompletes
<1>3. idle' = 0 /\ UNCHANGED seq /\ data' \in BOOLEAN /\ downSeen' \in BOOLEAN
  BY DEF GuardResult, Inv, Kinds
<1>4. "none" \in Names /\ "none" \notin GuardCommands /\ 0 \in 0 .. CommandTime /\ 0 \in 0 .. HistoryCap
  BY Constants DEF Names, GuardCommands
<1>5. Kinds'
  BY <1>1, <1>2, <1>3, <1>4 DEF Inv, Kinds
<1>. QED  BY <1>1, <1>2, <1>3, <1>4, <1>5 DEF Inv, Sequence, HandOver

LEMMA ModemStep ==
  ASSUME Inv, ModemDisconnects \/ ModemDown \/ ModemUp
  PROVE  Inv'
<1>1. /\ UNCHANGED <<seq, guard, command, age, now, gap, refused, sent, idle>>
      /\ up' \in BOOLEAN /\ data' \in BOOLEAN /\ downSeen' \in BOOLEAN
  BY DEF ModemDisconnects, ModemDown, ModemUp, Inv, Kinds
<1>2. Kinds'
  BY <1>1 DEF Inv, Kinds, GuardName
<1>. QED  BY <1>1, <1>2 DEF Inv, Sequence, HandOver

LEMMA TickStep == ASSUME Inv, Tick PROVE Inv'
<1>1. /\ now \in Time /\ gap \in 0 .. MaxLoopGap /\ age \in 0 .. CommandTime /\ idle \in 0 .. HistoryCap
      /\ gap < MaxLoopGap
      /\ command # "none" => age < CommandTime
      /\ age' = (IF command # "none" THEN age + 1 ELSE age) /\ gap' = gap + 1
      /\ now' = Plus(now, 1)
      /\ UNCHANGED <<seq, guard, command, refused, up, data, downSeen, sent>>
  BY DEF Inv, Kinds, Tick
<1>2. now' \in Time
  <2>1. now \in Int /\ 1 \in Int
    BY <1>1, ClockModAssumption DEF Time
  <2>. QED  BY <1>1, <2>1, PlusType
<1>3. gap' \in 0 .. MaxLoopGap /\ age' \in 0 .. CommandTime
  <2>1. MaxLoopGap \in Nat /\ CommandTime \in Nat
    BY Constants
  <2>2. gap' \in 0 .. MaxLoopGap
    BY <1>1, <2>1
  <2>3. age' \in 0 .. CommandTime
    BY <1>1, <2>1
  <2>. QED  BY <2>2, <2>3
<1>4. idle' \in 0 .. HistoryCap
  <2>1. idle + 1 \in Nat /\ 0 \in 0 .. HistoryCap
    BY <1>1, Constants
  <2>. QED  BY <2>1, CountType DEF Tick
<1>5. Kinds'
  BY <1>1, <1>2, <1>3, <1>4 DEF Inv, Kinds, GuardName
<1>. QED  BY <1>1, <1>5 DEF Inv, Sequence, HandOver

LEMMA StepInv == Inv /\ [Next]_vars => Inv'
<1>. SUFFICES ASSUME Inv, [Next]_vars PROVE Inv'
  OBVIOUS
<1>1. ASSUME NEW accepted \in BOOLEAN, Poll(accepted) PROVE Inv'
  BY <1>1, StartupStep, GuardStep DEF Poll
<1>2. ASSUME NEW result \in Results, Result(result) PROVE Inv'
  BY <1>2, StartupResultStep, GuardResultStep DEF Result
<1>3. CASE ModemDisconnects \/ ModemDown \/ ModemUp
  BY <1>3, ModemStep
<1>4. CASE Tick
  BY <1>4, TickStep
<1>5. CASE UNCHANGED vars
  BY <1>5 DEF vars, Inv, Kinds, Sequence, HandOver, GuardName
<1>. QED  BY <1>1, <1>2, <1>3, <1>4, <1>5 DEF Next

LEMMA SpecInv == Spec => []Inv
  BY InitInv, StepInv, PTL DEF Spec

\* The types of the sequencer and the guard, and one command of the two in the
\* channel at a time.
THEOREM TypeCorrect == Spec => []TypeOK
<1>1. Inv => TypeOK
  BY Types DEF Inv
<1>. QED  BY <1>1, SpecInv, PTL

\* main.cpp hands over to the guard when every startup command was accepted by
\* the channel and has ended, whatever the modem answered.
THEOREM GuardComesAfterStartup == Spec => []GuardAfterStartup
<1>1. Inv => GuardAfterStartup
  <2>. SUFFICES ASSUME Inv, command \in GuardCommands
                PROVE  /\ \A i \in 1 .. Len(StartupCommands) : StartupCommands[i] \in sent
                       /\ ~seq.pending
    BY DEF GuardAfterStartup
  <2>1. seq.index > Last /\ seq \in Seqs /\ guard.pending
    BY DEF Inv, HandOver, Kinds
  <2>2. \A i \in 1 .. Last : i < seq.index
    BY <2>1, Commands DEF Seqs
  <2>3. ~seq.pending
    BY <2>1 DEF Inv, Kinds
  <2>. QED  BY <2>2, <2>3 DEF Inv, Sequence, Last
<1>. QED  BY <1>1, SpecInv, PTL

-----------------------------------------------------------------------------
(* The end of the guard's work. *)

Stops == guard'.deactivated /\ ~guard.deactivated => downSeen'

LEMMA StopStep == Inv /\ [Next]_vars => [Stops]_vars
<1>. SUFFICES ASSUME Inv, Next PROVE Stops
  OBVIOUS
<1>1. guard \in Guards /\ now \in Time /\ guard.pending => command = GuardName(guard)
  BY DEF Inv, Kinds
<1>2. ASSUME NEW accepted \in BOOLEAN, Poll(accepted) PROVE Stops
  <2>1. CASE PollStartup(accepted)
    BY <2>1 DEF PollStartup, Stops
  <2>2. CASE PollGuard(accepted)
    <3>1. guard \in Guards /\ now \in Time
      BY DEF Inv, Kinds
    <3>2. HandedOver \in Guards /\ HandedOver.deactivated = guard.deactivated
      BY <3>1, HandedOverType
    <3>3. guard' = HandedOver \/ guard' = [HandedOver EXCEPT !.pending = TRUE]
          \/ guard' = [HandedOver EXCEPT !.next = Plus(now, GuardRetry)]
      BY <2>2 DEF PollGuard
    <3>4. guard'.deactivated = guard.deactivated
      BY <3>2, <3>3 DEF Guards
    <3>. QED  BY <3>4 DEF Stops
  <2>. QED  BY <1>2, <2>1, <2>2 DEF Poll
<1>3. ASSUME NEW result \in Results, Result(result) PROVE Stops
  <2>1. CASE StartupResult(result)
    BY <2>1 DEF StartupResult, Stops
  <2>2. CASE GuardResult(result)
    <3>. SUFFICES ASSUME guard'.deactivated, ~guard.deactivated PROVE downSeen'
      BY DEF Stops
    <3>1. guard.pending /\ guard \in Guards /\ now \in Time /\ command = GuardName(guard)
          /\ downSeen \in BOOLEAN
      BY <2>2 DEF GuardResult, Inv, Kinds
    <3>2. PICK parsed : (parsed = "inactive" => downSeen) /\ guard' = GuardComplete(result, parsed)
      BY <2>2 DEF GuardResult
    <3>3. result = "Ok" /\ (guard.state = "Disconnect" \/ downSeen)
      BY <3>1, <3>2, GuardCompletes
    <3>4. guard.state = "Disconnect" => command = "MIPCALL=0"
      BY <3>1 DEF GuardName
    <3>. QED  BY <2>2, <3>1, <3>3, <3>4 DEF GuardResult
  <2>. QED  BY <1>3, <2>1, <2>2 DEF Result
<1>4. CASE ModemDisconnects \/ ModemDown \/ ModemUp \/ Tick
  BY <1>4 DEF ModemDisconnects, ModemDown, ModemUp, Tick, Stops
<1>. QED  BY <1>2, <1>3, <1>4 DEF Next

\* PdpGuardCore::complete(): the guard stops only on an answer given when the
\* data connection was down, after its last command was submitted.
THEOREM GuardStopsOnlyWhenDown == Spec => GuardStopsWhenDown
<1>1. GuardStopsWhenDown <=> [][Stops]_vars
  BY DEF GuardStopsWhenDown, Stops
<1>. QED  BY <1>1, SpecInv, StopStep, PTL DEF Spec

-----------------------------------------------------------------------------
(* The guard's retries. *)

LEMMA DueNow == \A t \in Time : Due(t, t)
<1>. SUFFICES ASSUME NEW t \in Time PROVE Due(t, t)
  OBVIOUS
<1>1. 0 \in -HalfRange .. HalfRange - 1 /\ t - t - 0 = 0
  BY Constants
<1>. QED  BY <1>1, DueIsExact

\* A retry that is set now is due a retry interval from now.
LEMMA RetrySet ==
  ASSUME NEW t \in Time
  PROVE  t - Plus(t, GuardRetry) - (-GuardRetry) \in {0, ClockMod, -ClockMod}
<1>1. t \in 0 .. ClockMod - 1 /\ GuardRetry \in 0 .. ClockMod /\ ClockMod \in Nat
  BY Constants
<1>2. Plus(t, GuardRetry) = IF t + GuardRetry < ClockMod THEN t + GuardRetry
                            ELSE t + GuardRetry - ClockMod
  BY <1>1, PlusValue
<1>. QED  BY <1>1, <1>2

LEMMA LateRange ==
  /\ GuardRetry \in Nat /\ MaxLoopGap \in Nat
  /\ -GuardRetry .. MaxLoopGap \subseteq -HalfRange .. HalfRange - 1
<1>1. GuardRetry \in Nat /\ MaxLoopGap \in Nat /\ StartupRetry \in Nat /\ HalfRange \in Nat
      /\ StartupRetry + GuardRetry + MaxLoopGap < HalfRange
  BY Constants
<1>. QED  BY <1>1

\* With the clock of one moment: what OnTime says when the guard waits.
Late(n, next, g, i) ==
  \E late \in -GuardRetry .. g :
    /\ n - next - late \in {0, ClockMod, -ClockMod}
    /\ i <= GuardRetry + late

LEMMA LateNow == ASSUME NEW t \in Time, NEW g \in Nat PROVE Late(t, t, g, 0)
<1>1. 0 \in -GuardRetry .. g /\ t - t - 0 = 0 /\ 0 <= GuardRetry + 0
  BY Constants, LateRange
<1>. QED  BY <1>1 DEF Late

LEMMA LateRetry == ASSUME NEW t \in Time, NEW g \in Nat PROVE Late(t, Plus(t, GuardRetry), g, 0)
<1>1. -GuardRetry \in -GuardRetry .. g /\ 0 <= GuardRetry + (-GuardRetry)
  BY LateRange
<1>. QED  BY <1>1, RetrySet DEF Late

LEMMA InitOnTime == Init => OnTime
  BY DEF Init, OnTime, Waiting

LEMMA PollOnTime ==
  ASSUME Inv, OnTime, NEW accepted \in BOOLEAN, Poll(accepted) PROVE OnTime'
<1>1. guard \in Guards /\ now \in Time /\ gap \in 0 .. MaxLoopGap /\ now' = now /\ gap' = 0
  BY DEF Inv, Kinds, Poll
<1>2. CASE PollStartup(accepted)
  <2>1. seq.index \in 1 .. 4 /\ UNCHANGED <<guard, idle>>
    BY <1>2, Commands DEF PollStartup, StartupIsComplete, Last, Inv, Kinds, Seqs
  <2>2. ~guard.startupComplete
    BY <2>1, Commands DEF Inv, HandOver
  <2>. QED  BY <2>1, <2>2 DEF OnTime, Waiting
<1>3. CASE PollGuard(accepted)
  <2>. DEFINE h == HandedOver
              submit == GuardToSubmit(h)
  <2>1. /\ h \in Guards /\ h.startupComplete
        /\ h.pending = guard.pending /\ h.deactivated = guard.deactivated
        /\ guard.startupComplete => h = guard
        /\ ~guard.startupComplete => h.next = now /\ ~guard.pending /\ ~guard.deactivated
    BY <1>1, HandedOverType DEF Inv, HandOver
  <2>. HIDE DEF h
  <2>2. CASE submit = "none"
    <3>1. guard' = h /\ idle' = idle
      BY <1>3, <2>2 DEF PollGuard, h
    <3>2. ~h.pending /\ ~h.deactivated => ~Due(now, h.next)
      BY <2>1, <2>2 DEF GuardToSubmit
    <3>3. CASE ~guard.startupComplete
      BY <1>1, <2>1, <3>2, <3>3, DueNow
    <3>4. CASE guard.startupComplete /\ ~Waiting
      BY <2>1, <3>1, <3>4 DEF OnTime, Waiting
    <3>5. CASE guard.startupComplete /\ Waiting
      <4>1. PICK late \in -GuardRetry .. gap :
                   /\ now - guard.next - late \in {0, ClockMod, -ClockMod}
                   /\ idle <= GuardRetry + late
        BY <3>5 DEF OnTime
      <4>2. late \in -GuardRetry .. MaxLoopGap /\ guard.next \in Time
        BY <1>1, LateRange DEF Guards
      <4>3. late < 0
        <5>1. late \in -HalfRange .. HalfRange - 1
          BY <4>2, LateRange
        <5>2. Due(now, guard.next) <=> late >= 0
          BY <1>1, <4>1, <4>2, <5>1, DueIsExact
        <5>3. ~Due(now, guard.next)
          BY <2>1, <3>2, <3>5 DEF Waiting
        <5>. QED  BY <4>2, <5>2, <5>3, LateRange
      <4>4. late \in -GuardRetry .. gap'
        BY <1>1, <4>2, <4>3, LateRange
      <4>5. guard' = guard
        BY <2>1, <3>1, <3>5
      <4>. QED  BY <1>1, <3>1, <3>5, <4>1, <4>4, <4>5 DEF OnTime, Waiting
    <3>. QED  BY <3>3, <3>4, <3>5
  <2>3. CASE submit # "none" /\ accepted
    <3>1. guard' = [h EXCEPT !.pending = TRUE] /\ idle' = 0
      BY <1>3, <2>3 DEF PollGuard, h
    <3>2. guard'.pending
      BY <2>1, <3>1 DEF Guards
    <3>. QED  BY <3>1, <3>2 DEF OnTime, Waiting
  <2>4. CASE submit # "none" /\ ~accepted
    <3>1. guard' = [h EXCEPT !.next = Plus(now, GuardRetry)] /\ idle' = 0
      BY <1>3, <2>4 DEF PollGuard, h
    <3>2. guard'.next = Plus(now, GuardRetry)
      BY <2>1, <3>1 DEF Guards
    <3>3. Late(now', guard'.next, gap', idle')
      BY <1>1, <3>1, <3>2, LateRetry
    <3>. QED  BY <3>1, <3>3 DEF OnTime, Late
  <2>. QED  BY <2>2, <2>3, <2>4
<1>. QED  BY <1>2, <1>3 DEF Poll

LEMMA ResultOnTime ==
  ASSUME Inv, OnTime, NEW result \in Results, Result(result) PROVE OnTime'
<1>1. guard \in Guards /\ now \in Time /\ gap \in Nat /\ now' = now /\ gap' = gap
  BY Constants DEF Inv, Kinds, Result
<1>2. CASE StartupResult(result)
  BY <1>1, <1>2 DEF StartupResult, OnTime, Waiting
<1>3. CASE GuardResult(result)
  <2>1. idle' = 0
    BY <1>3 DEF GuardResult
  <2>2. PICK parsed : guard' = GuardComplete(result, parsed)
    BY <1>3 DEF GuardResult
  <2>3. ~guard'.deactivated => guard'.next \in {now, Plus(now, GuardRetry)}
    BY <1>1, <2>2, GuardCompletes
  <2>4. Waiting' => Late(now', guard'.next, gap', idle')
    BY <1>1, <2>1, <2>3, LateNow, LateRetry DEF Waiting
  <2>. QED  BY <2>1, <2>4 DEF OnTime, Late
<1>. QED  BY <1>2, <1>3 DEF Result

LEMMA TickOnTime == ASSUME Inv, OnTime, Tick PROVE OnTime'
<1>1. /\ guard \in Guards /\ now \in Time /\ gap \in 0 .. MaxLoopGap /\ idle \in Nat
      /\ now' = Plus(now, 1) /\ gap' = gap + 1 /\ gap < MaxLoopGap /\ guard' = guard
      /\ idle' = IF Waiting THEN Count(idle + 1) ELSE 0
  BY Constants DEF Inv, Kinds, Tick, Waiting
<1>2. CASE ~Waiting
  BY <1>1, <1>2 DEF OnTime, Waiting
<1>3. CASE Waiting
  <2>1. PICK late \in -GuardRetry .. gap :
               /\ now - guard.next - late \in {0, ClockMod, -ClockMod}
               /\ idle <= GuardRetry + late
    BY <1>3 DEF OnTime
  <2>2. /\ GuardRetry \in Nat /\ MaxLoopGap \in Nat /\ HalfRange \in Nat /\ ClockMod = 2 * HalfRange
        /\ GuardRetry < HalfRange /\ MaxLoopGap < HalfRange
        /\ now \in 0 .. ClockMod - 1 /\ guard.next \in 0 .. ClockMod - 1
        /\ late \in Int /\ late >= -GuardRetry /\ late <= gap
    BY <1>1, Constants DEF Guards
  <2>3. now' = IF now + 1 < ClockMod THEN now + 1 ELSE now + 1 - ClockMod
    <3>1. 1 \in 0 .. ClockMod
      BY <2>2
    <3>. QED  BY <1>1, <3>1, PlusValue
  <2>4. now' - guard'.next - (late + 1) \in {0, ClockMod, -ClockMod}
    BY <1>1, <2>1, <2>2, <2>3
  <2>5. late + 1 \in -GuardRetry .. gap'
    BY <1>1, <2>2
  <2>6. idle' <= GuardRetry + (late + 1)
    <3>1. idle' = Count(idle + 1) /\ idle + 1 \in Nat
      BY <1>1, <1>3
    <3>2. idle' \in 0 .. HistoryCap /\ idle' <= idle + 1
      BY <3>1, CountType
    <3>. QED  BY <1>1, <2>1, <2>2, <3>2, Constants
  <2>7. Waiting'
    BY <1>1, <1>3 DEF Waiting
  <2>. QED  BY <2>4, <2>5, <2>6, <2>7 DEF OnTime
<1>. QED  BY <1>2, <1>3

LEMMA StepOnTime == Inv /\ OnTime /\ [Next]_vars => OnTime'
<1>1. CASE ModemDisconnects \/ ModemDown \/ ModemUp \/ UNCHANGED vars
  BY <1>1 DEF ModemDisconnects, ModemDown, ModemUp, vars, OnTime, Waiting
<1>. QED  BY <1>1, PollOnTime, ResultOnTime, TickOnTime DEF Next

\* PdpGuardCore::commandToSubmit(): the guard, its work not done, comes back
\* after its retry interval, late by one round of loop() at most, at any value
\* of millis().
THEOREM GuardComesBackInTime == Spec => []GuardRetriesInTime
<1>1. Inv /\ OnTime => GuardRetriesInTime
  <2>. SUFFICES ASSUME Inv, OnTime PROVE idle <= GuardRetry + MaxLoopGap
    BY DEF GuardRetriesInTime
  <2>1. gap \in 0 .. MaxLoopGap /\ idle \in Nat /\ GuardRetry \in Nat /\ MaxLoopGap \in Nat
    BY Constants DEF Inv, Kinds
  <2>2. CASE ~Waiting
    BY <2>1, <2>2 DEF OnTime
  <2>3. CASE Waiting
    <3>1. PICK late \in -GuardRetry .. gap : idle <= GuardRetry + late
      BY <2>3 DEF OnTime
    <3>. QED  BY <2>1, <3>1
  <2>. QED  BY <2>2, <2>3
<1>. QED  BY <1>1, SpecInv, InitOnTime, StepOnTime, PTL DEF Spec
=============================================================================
