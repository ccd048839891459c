--------------------------- MODULE CellularStatus ---------------------------
(***************************************************************************)
(* The schedule of cellular_status.cpp: which of the status queries goes   *)
(* to the modem when.  The static ones (identity, SIM) are asked once, all *)
(* of them again later when one failed; the dynamic ones are asked in      *)
(* rounds.  What the answers say is left to `ok`.                          *)
(***************************************************************************)
EXTENDS Clock32, FiniteSets

CONSTANTS
  StaticSteps, DynamicSteps,  \* how many there are
  PollInterval,     \* kPollIntervalMs
  StaticRetry,      \* kStaticRetryIntervalMs
  BetweenCommands,  \* kBetweenCommandsMs
  QueueRetry,       \* kQueueRetryMs
  CommandTime,      \* bound: how long a command is in the channel
  MaxLoopGap,       \* bound: milliseconds between two polls
  MaxRefusals       \* bound: submissions refused in a row, the ring being full

CellularStatusAssumption ==
  /\ {StaticSteps, DynamicSteps, PollInterval, StaticRetry, BetweenCommands, QueueRetry,
      CommandTime, MaxLoopGap} \subseteq Nat \ {0}
  /\ MaxRefusals \in Nat
  /\ \A d \in {PollInterval, StaticRetry, BetweenCommands, QueueRetry} : 2 * d < HalfRange

VARIABLES
  st,       \* the static variables of cellular_status.cpp
  command,  \* the query in the channel, <<"static" or "dynamic", index>>, or None
  age,      \* for how long
  now, gap, refused,
  up,       \* the modem answers every query in full
  known     \* history: the static steps answered so far

vars == <<st, command, age, now, gap, refused, up, known>>

None == <<"none", 0>>

\* cellularStatusBegin(), and cellularStatusSetStartupComplete(TRUE), which
\* comes before the first query.
Init ==
  /\ now \in Time
  /\ st = [ pending |-> FALSE, active |-> <<"dynamic", 0>>, retryNeeded |-> FALSE,
            staticIndex |-> 0, dynamicIndex |-> 0,
            nextPoll |-> now, nextRound |-> now, nextStatic |-> 0 ]
  /\ command = None /\ age = 0 /\ gap = 0 /\ refused = 0
  /\ up \in BOOLEAN
  /\ known = {}

-----------------------------------------------------------------------------

StaticDone(s) == s.staticIndex >= StaticSteps

\* cellularStatusPoll(): the static queries begin again when that is due.
Restarted ==
  IF StaticDone(st) /\ st.nextStatic # 0 /\ Due(now, st.nextStatic)
  THEN [st EXCEPT !.staticIndex = 0, !.retryNeeded = FALSE]
  ELSE st

MayPoll == ~st.pending /\ Due(now, st.nextPoll)

Submit(s, accepted) ==
  /\ accepted \/ refused < MaxRefusals
  /\ refused' = IF accepted THEN 0 ELSE refused + 1
  /\ st' = [s EXCEPT !.pending = accepted, !.nextPoll = Plus(now, QueueRetry)]
  /\ command' = IF accepted THEN s.active ELSE command
  /\ age' = IF accepted THEN 0 ELSE age

Poll(accepted) ==
  LET s == Restarted
  IN  /\ gap' = 0
      /\ CASE ~MayPoll ->
                UNCHANGED <<st, command, age, refused>>
           [] MayPoll /\ ~StaticDone(s) ->
                Submit([s EXCEPT !.active = <<"static", s.staticIndex>>], accepted)
           [] MayPoll /\ StaticDone(s) /\ Due(now, s.nextRound) ->
                Submit([s EXCEPT !.active = <<"dynamic", s.dynamicIndex>>], accepted)
           [] OTHER ->
                /\ st' = [s EXCEPT !.nextPoll = s.nextRound]
                /\ UNCHANGED <<command, age, refused>>
      /\ UNCHANGED <<now, up, known>>

\* Faulty variant: only the last query of the static ones counts.
AfterStatic_LastCounts(s, ok) ==
  LET t == [s EXCEPT !.staticIndex = @ + 1, !.retryNeeded = ~ok]
  IN  IF ~StaticDone(t) THEN t
      ELSE [t EXCEPT !.nextStatic = IF t.retryNeeded THEN Plus(now, StaticRetry) ELSE 0]

\* handleQueryResult(). The 0 of nextStatic means "no retry", also when it is
\* the sum.
AfterStatic(s, ok) ==
  LET t == [s EXCEPT !.staticIndex = @ + 1, !.retryNeeded = @ \/ ~ok]
  IN  IF ~StaticDone(t) THEN t
      ELSE [t EXCEPT !.nextStatic = IF t.retryNeeded THEN Plus(now, StaticRetry) ELSE 0]

\* Faulty variant: a failed dynamic query is repeated before the next one, and
\* the round never ends.
AfterDynamic_Same(s, ok) ==
  IF ~ok THEN s
  ELSE IF s.dynamicIndex + 1 >= DynamicSteps
  THEN [s EXCEPT !.dynamicIndex = 0, !.nextRound = Plus(now, PollInterval)]
  ELSE [s EXCEPT !.dynamicIndex = @ + 1]

AfterDynamic(s, ok) ==
  IF s.dynamicIndex + 1 >= DynamicSteps
  THEN [s EXCEPT !.dynamicIndex = 0, !.nextRound = Plus(now, PollInterval)]
  ELSE [s EXCEPT !.dynamicIndex = @ + 1]

Result(ok) ==
  /\ command # None
  /\ up => ok
  /\ st' = LET s == [st EXCEPT !.pending = FALSE, !.nextPoll = Plus(now, BetweenCommands)]
           IN  IF st.active[1] = "static" THEN AfterStatic(s, ok) ELSE AfterDynamic(s, ok)
  /\ known' = IF ok /\ st.active[1] = "static" THEN known \cup {st.active[2]} ELSE known
  /\ command' = None /\ age' = 0
  /\ UNCHANGED <<now, gap, refused, up>>

ModemChanges ==
  /\ up' = ~up
  /\ UNCHANGED <<st, command, age, now, gap, refused, known>>

Tick ==
  /\ gap < MaxLoopGap
  /\ command # None => age < CommandTime
  /\ now' = Plus(now, 1)
  /\ gap' = gap + 1
  /\ age' = IF command # None THEN age + 1 ELSE age
  /\ UNCHANGED <<st, command, refused, up, known>>

Next ==
  \/ \E accepted \in BOOLEAN : Poll(accepted)
  \/ \E ok \in BOOLEAN : Result(ok)
  \/ ModemChanges
  \/ Tick

Spec == Init /\ [][Next]_vars

FairSpec ==
  /\ Spec
  /\ WF_vars(\E accepted \in BOOLEAN : Poll(accepted))
  /\ WF_vars(\E ok \in BOOLEAN : Result(ok))
  /\ WF_vars(Tick)

-----------------------------------------------------------------------------
(* Properties. *)

\* Types; and the step that an answer will be parsed as, a variable of the
\* file, is the one whose query is in the channel.
TypeOK ==
  /\ st.nextPoll \in Time /\ st.nextRound \in Time /\ st.nextStatic \in Time
  /\ st.staticIndex \in 0 .. StaticSteps /\ st.dynamicIndex \in 0 .. DynamicSteps - 1
  /\ st.pending \in BOOLEAN /\ st.retryNeeded \in BOOLEAN
  /\ st.pending <=> command # None
  /\ st.pending => command = st.active
  /\ age \in 0 .. CommandTime /\ gap \in 0 .. MaxLoopGap /\ refused \in 0 .. MaxRefusals
  /\ now \in Time /\ up \in BOOLEAN /\ known \subseteq 0 .. StaticSteps - 1

\* The failed retry time: a round that failed StaticRetry before millis()
\* is 0 is taken for one that needs no retry.
RetryForgotten == StaticDone(st) /\ st.retryNeeded /\ st.nextStatic = 0

\* With a modem that answers in the end, every static datum becomes known,
\* whatever failed before and however the static queries meet the rounds of the
\* dynamic ones, but for the one moment in which the retry is forgotten.
StaticBecomesKnown ==
  <>[]up => <>(Cardinality(known) = StaticSteps \/ RetryForgotten)

\* The dynamic queries go on, each of them, also while the static ones keep
\* failing.
DynamicGoesOn ==
  \A i \in 0 .. DynamicSteps - 1 : []<>(command = <<"dynamic", i>>)
=============================================================================
