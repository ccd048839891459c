--------------------------- MODULE SmsQueueCore ---------------------------
(***************************************************************************)
(* The RAM queue of sms_queue_core.cpp and the retry delay of              *)
(* forwarder_http_core.cpp, as operators on a sequence of items: items_[0] *)
(* .. items_[count_-1] is the sequence, oldest message first.              *)
(*                                                                         *)
(* An item keeps the fields the forwarder decides by.  Status Sent exists  *)
(* in the code for the instant between markSent() setting it and removing  *)
(* the item; createdAtMs, updatedAtMs and lastError are only displayed.    *)
(***************************************************************************)
EXTENDS Sequences, Clock32

CONSTANTS
  Capacity,      \* kCapacity
  MaxAttempts,   \* the value at which attemptCount stops (255)
  BaseRetryDelay,  \* kBaseRetryDelayMs
  MaxRetryDelay    \* kMaxRetryDelayMs

ASSUME SmsQueueCoreAssumption ==
  /\ Capacity \in Nat \ {0}
  /\ MaxAttempts \in Nat \ {0}
  /\ BaseRetryDelay \in Nat \ {0} /\ MaxRetryDelay \in Nat
  /\ BaseRetryDelay <= MaxRetryDelay /\ MaxRetryDelay < HalfRange

NewItem(msg, now) ==
  [msg |-> msg, status |-> "Pending", attemptCount |-> 0, nextAttempt |-> now]

\* enqueue(): false, and the message is gone, when the queue is full.
HasRoom(queue) == Len(queue) < Capacity

Enqueue(queue, msg, now) ==
  IF HasRoom(queue) THEN Append(queue, NewItem(msg, now)) ELSE queue

\* acquireNext(): the first item that waits for an attempt whose time has come.
Ready(queue, now) ==
  {i \in DOMAIN queue : /\ queue[i].status \in {"Pending", "Failed"}
                        /\ Due(now, queue[i].nextAttempt)}

IsNext(queue, i, now) ==
  /\ i \in Ready(queue, now)
  /\ \A j \in Ready(queue, now) : i <= j

MarkSending(queue, i) == [queue EXCEPT ![i] = [@ EXCEPT !.status = "Sending"]]

\* Faulty variant of MarkSent: the last item is cut off whatever was sent.
MarkSent_DropsLast(queue, i) == SubSeq(queue, 1, Len(queue) - 1)

\* markSent(): the items behind it move up.
MarkSent(queue, i) ==
  [j \in 1 .. Len(queue) - 1 |-> IF j < i THEN queue[j] ELSE queue[j + 1]]

\* Faulty variants of MarkFailed: the count goes on; the item goes to the end.
MarkFailed_NoLimit(queue, i, delay, now) ==
  [queue EXCEPT ![i].status = "Failed", ![i].attemptCount = @ + 1,
                ![i].nextAttempt = Plus(now, delay)]
MarkFailed_ToTheEnd(queue, i, delay, now) ==
  Append(MarkSent(queue, i), [queue[i] EXCEPT !.status = "Failed", !.nextAttempt = Plus(now, delay)])

\* markFailed()
FailedItem(item, delay, now) ==
  [item EXCEPT !.status       = "Failed",
               !.attemptCount = IF @ < MaxAttempts THEN @ + 1 ELSE @,
               !.nextAttempt  = Plus(now, delay)]

MarkFailed(queue, i, delay, now) == [queue EXCEPT ![i] = FailedItem(@, delay, now)]

\* Faulty variant of RetryDelay: no backoff.
RetryDelay_Constant(attemptCount) == BaseRetryDelay

\* forwarderHttpRetryDelayMs(): doubled for each failed attempt, up to the
\* maximum.
RetryDelay(attemptCount) ==
  LET delay[n \in 0 .. attemptCount] ==
        IF n = 0 THEN BaseRetryDelay
        ELSE IF delay[n - 1] >= MaxRetryDelay \div 2 THEN MaxRetryDelay
        ELSE 2 * delay[n - 1]
  IN  IF delay[attemptCount] \in 0 .. MaxRetryDelay THEN delay[attemptCount] ELSE MaxRetryDelay
=============================================================================
