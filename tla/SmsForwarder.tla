---------------------------- MODULE SmsForwarder ----------------------------
(***************************************************************************)
(* Decoded messages on their way from the receiver to the push server:     *)
(* handleSmsReceived() of main.cpp enqueues them, forwarderHttpPoll() of   *)
(* forwarder_http.cpp takes one per turn of loop() and posts it.           *)
(*                                                                         *)
(* The POST blocks loop(), so a poll is one step, in which time passes.    *)
(* The forwarder's status, which only the web page reads, is left out.     *)
(* Messages are numbered in the order in which the queue accepted them.    *)
(***************************************************************************)
EXTENDS SmsQueueCore

CONSTANTS
  MaxArrivals,  \* bound: how many messages the queue accepts
  Refused,      \* the messages the server never takes
  Unbuildable,  \* the messages no request can be built for (too long)
  MaxPostTime,  \* how long a POST may block (kHttpTimeoutMs)
  MaxFailures,  \* bound: failed attempts at a message that is not refused
  MaxLoopGap    \* bound: milliseconds between two polls

ASSUME SmsForwarderAssumption ==
  /\ MaxArrivals \in Nat
  /\ MaxPostTime \in Nat
  /\ MaxPostTime < HalfRange
  /\ MaxFailures \in 0 .. MaxAttempts
  /\ MaxLoopGap \in Nat \ {0}

\* The delay has stopped growing when the count of attempts stops (at 255).
ASSUME RetryDelayAssumption == RetryDelay(MaxAttempts) = RetryDelay(MaxAttempts - 1)

VARIABLES
  queue,       \* the items of SmsQueueCore
  configured,  \* is there a Bark URL and key?
  connected,   \* WiFi.status() == WL_CONNECTED
  now,         \* millis()
  arrived,     \* how many messages the queue accepted
  pushes,      \* history: how often the server took each message
  lost,        \* history: how often it did so and the answer was lost
  waited,      \* history: true time since the last attempt at each failed
               \* message of the queue, counted up to its retry delay
  gap          \* time since the last poll

vars == <<queue, configured, connected, now, arrived, pushes, lost, waited, gap>>

Messages == 1 .. MaxArrivals

Item ==
  [ msg          : Messages,
    status       : {"Pending", "Sending", "Failed"},
    attemptCount : 0 .. MaxAttempts,
    nextAttempt  : Time ]

Init ==
  /\ queue = <<>>
  /\ configured \in BOOLEAN
  /\ connected = FALSE
  /\ now = 0
  /\ arrived = 0
  /\ pushes = [m \in Messages |-> 0]
  /\ lost = [m \in Messages |-> 0]
  /\ waited = [m \in Messages |-> 0]
  /\ gap = 0

AtMost(bound, x) == IF x > bound THEN bound ELSE x

\* The delay set when an item failed last; 0 if it never did.
DelaySet(item) ==
  IF item.attemptCount = 0 THEN 0 ELSE RetryDelay(item.attemptCount - 1)

\* Time d passes for the messages that wait for a retry.
Wait(d) ==
  [m \in Messages |->
     LET at == {i \in DOMAIN queue : queue[i].msg = m}
     IN  IF at = {} THEN 0
         ELSE AtMost(DelaySet(queue[CHOOSE i \in at : TRUE]), waited[m] + d)]

\* handleSmsReceived(): the receiver hands over a message; the queue takes it,
\* or is full and the message is dropped.
Receive ==
  /\ arrived < MaxArrivals
  /\ queue' = Enqueue(queue, arrived + 1, now)
  /\ arrived' = IF HasRoom(queue) THEN arrived + 1 ELSE arrived
  /\ UNCHANGED <<configured, connected, now, pushes, lost, waited, gap>>

-----------------------------------------------------------------------------
(* forwarderHttpPoll() *)

\* Not configured, offline, or no item that is ready.
PollNothing ==
  /\ ~configured \/ ~connected \/ Ready(queue, now) = {}
  /\ gap' = 0
  /\ UNCHANGED <<queue, configured, connected, now, arrived, pushes, lost, waited>>

\* forwarderHttpBuildBarkRequest() fails.
PollUnbuildable(i) ==
  /\ configured
  /\ connected
  /\ IsNext(queue, i, now)
  /\ queue[i].msg \in Unbuildable
  /\ queue' = MarkFailed(queue, i, MaxRetryDelay, now)
  /\ waited' = [waited EXCEPT ![queue[i].msg] = 0]
  /\ gap' = 0
  /\ UNCHANGED <<configured, connected, now, arrived, pushes, lost>>

\* The POST blocks for d and ends in a 2xx answer ("taken"), another answer
\* or none ("failed"), or no answer although the server took the message
\* ("answer lost").
PollPost(i, d, outcome) ==
  LET m       == queue[i].msg
      sending == MarkSending(queue, i)
      after   == Plus(now, d)
  IN  /\ configured
      /\ connected
      /\ IsNext(queue, i, now)
      /\ m \notin Unbuildable
      /\ IF m \in Refused THEN outcome = "failed"
         ELSE outcome # "taken" => queue[i].attemptCount < MaxFailures
      /\ queue' = IF outcome = "taken"
                  THEN MarkSent(sending, i)
                  ELSE MarkFailed(sending, i, RetryDelay(queue[i].attemptCount), after)
      /\ pushes' = IF outcome = "failed" THEN pushes ELSE [pushes EXCEPT ![m] = @ + 1]
      /\ lost' = IF outcome = "answer lost" THEN [lost EXCEPT ![m] = @ + 1] ELSE lost
      /\ now' = after
      /\ waited' = [Wait(d) EXCEPT ![m] = 0]
      /\ gap' = 0
      /\ UNCHANGED <<configured, connected, arrived>>

Outcomes == {"taken", "failed", "answer lost"}

ForwarderPoll ==
  \/ PollNothing
  \/ \E i \in DOMAIN queue :
       \/ PollUnbuildable(i)
       \/ \E d \in 0 .. MaxPostTime, outcome \in Outcomes : PollPost(i, d, outcome)

-----------------------------------------------------------------------------
(* The environment: the station, the settings page, the clock. *)

WifiChanges ==
  /\ connected' = ~connected
  /\ UNCHANGED <<queue, configured, now, arrived, pushes, lost, waited, gap>>

ConfigChanges ==
  /\ configured' = ~configured
  /\ UNCHANGED <<queue, connected, now, arrived, pushes, lost, waited, gap>>

Tick ==
  /\ gap < MaxLoopGap
  /\ now' = Plus(now, 1)
  /\ waited' = Wait(1)
  /\ gap' = gap + 1
  /\ UNCHANGED <<queue, configured, connected, arrived, pushes, lost>>

Next == Receive \/ ForwarderPoll \/ WifiChanges \/ ConfigChanges \/ Tick

Spec == Init /\ [][Next]_vars

\* loop() runs for ever, and time passes.
FairSpec == Spec /\ WF_vars(ForwarderPoll) /\ WF_vars(Tick)

-----------------------------------------------------------------------------
(* Properties. *)

\* Types; the queue within its capacity.
TypeOK ==
  /\ queue \in Seq(Item) /\ Len(queue) <= Capacity
  /\ configured \in BOOLEAN /\ connected \in BOOLEAN
  /\ now \in Time
  /\ arrived \in 0 .. MaxArrivals
  /\ pushes \in [Messages -> Nat] /\ lost \in [Messages -> Nat]
  /\ waited \in [Messages -> 0 .. MaxRetryDelay]
  /\ gap \in 0 .. MaxLoopGap

\* A message the queue accepted stays there until the server has taken it:
\* "messages are not lost while the webhook is unreachable" (TODO.md:431).
NoSilentLoss ==
  \A m \in 1 .. arrived : pushes[m] > 0 \/ \E i \in DOMAIN queue : queue[i].msg = m

\* The queue and its forwarder are an outbox: enqueue() accepts at the end,
\* markSent() takes out the one message whose post was answered 2xx and keeps
\* the others in their order, and a message is posted again after the server
\* took it only because the answer was lost.
Promised ==
  INSTANCE Outbox WITH
    Messages    <- Messages,
    Capacity    <- Capacity,
    accepted    <- arrived,
    waiting     <- [i \in DOMAIN queue |-> queue[i].msg],
    taken       <- pushes,
    unconfirmed <- lost
ImplementsOutbox == Promised!Spec

\* A failed message is not posted again before its retry delay has really
\* passed, also when millis() wraps in between.
Attempted(m) ==
  \E i \in DOMAIN queue : /\ queue[i].msg = m
                          /\ \E d \in 0 .. MaxPostTime, o \in Outcomes : PollPost(i, d, o)
NoEarlyRetry ==
  [][\A i \in DOMAIN queue :
       Attempted(queue[i].msg) =>
          waited[queue[i].msg] >= DelaySet(queue[i])]_vars

\* Once the network and the settings stay good, every accepted message the
\* server is willing to take is delivered, however slowly the POSTs of the
\* messages it always refuses fail in front of it: the growing delay makes
\* room for the messages behind.
EventuallyDelivered ==
  <>[](connected /\ configured) =>
    \A m \in Messages \ (Refused \cup Unbuildable) : (arrived >= m) ~> (pushes[m] > 0)
=============================================================================
