------------------------- MODULE SmsForwarderProofs -------------------------
(***************************************************************************)
(* Theorems about SmsForwarder, for every capacity of the queue, number of *)
(* messages, choice of the delays and width of the clock.                  *)
(***************************************************************************)
EXTENDS SmsForwarder, Clock32Proofs

-----------------------------------------------------------------------------
(* The operators of the queue. *)

\* forwarderHttpRetryDelayMs() never exceeds its maximum.
LEMMA RetryDelayRange == ASSUME NEW a PROVE RetryDelay(a) \in 0 .. MaxRetryDelay
<1>1. MaxRetryDelay \in Nat
  BY SmsQueueCoreAssumption
<1>. DEFINE delay[n \in 0 .. a] ==
        IF n = 0 THEN BaseRetryDelay
        ELSE IF delay[n - 1] >= MaxRetryDelay \div 2 THEN MaxRetryDelay
        ELSE 2 * delay[n - 1]
<1>2. RetryDelay(a) = IF delay[a] \in 0 .. MaxRetryDelay THEN delay[a] ELSE MaxRetryDelay
  BY DEF RetryDelay
<1>. HIDE DEF delay
<1>. QED  BY <1>1, <1>2

LEMMA DelaySetRange == \A it : DelaySet(it) \in 0 .. MaxRetryDelay
<1>1. \A it : DelaySet(it) = 0 \/ DelaySet(it) \in 0 .. MaxRetryDelay
  BY RetryDelayRange DEF DelaySet
<1>. QED  BY <1>1, SmsQueueCoreAssumption

\* The messages of a queue, oldest first.
Msgs(q) == [i \in DOMAIN q |-> q[i].msg]

LEMMA MsgsType ==
  ASSUME NEW q \in Seq(Item)
  PROVE  /\ Msgs(q) \in Seq(Messages)
         /\ Len(Msgs(q)) = Len(q) /\ DOMAIN Msgs(q) = 1 .. Len(q)
         /\ \A i \in 1 .. Len(q) : Msgs(q)[i] = q[i].msg
<1>1. Len(q) \in Nat /\ DOMAIN q = 1 .. Len(q) /\ \A i \in 1 .. Len(q) : q[i] \in Item
  OBVIOUS
<1>2. \A i \in 1 .. Len(q) : q[i].msg \in Messages
  BY <1>1 DEF Item
<1>3. Msgs(q) = [i \in 1 .. Len(q) |-> q[i].msg]
  BY <1>1 DEF Msgs
<1>. HIDE DEF Msgs
<1>4. Msgs(q) \in [1 .. Len(q) -> Messages] /\ \A i \in 1 .. Len(q) : Msgs(q)[i] = q[i].msg
  BY <1>2, <1>3
<1>5. Msgs(q) \in Seq(Messages) /\ Len(Msgs(q)) = Len(q)
  BY <1>1, <1>4
<1>. QED  BY <1>4, <1>5

\* enqueue() of a queue that has room.
LEMMA EnqueueMsgs ==
  ASSUME NEW q \in Seq(Item), NEW m \in Messages, NEW n \in Time, HasRoom(q)
  PROVE  /\ Enqueue(q, m, n) \in Seq(Item)
         /\ Len(Enqueue(q, m, n)) = Len(q) + 1
         /\ \A i \in DOMAIN q : Enqueue(q, m, n)[i] = q[i]
         /\ Enqueue(q, m, n)[Len(q) + 1] = NewItem(m, n)
         /\ Msgs(Enqueue(q, m, n)) = Append(Msgs(q), m)
<1>. DEFINE e == Enqueue(q, m, n)
<1>1. NewItem(m, n) \in Item
  BY SmsQueueCoreAssumption DEF NewItem, Item
<1>2. e = Append(q, NewItem(m, n))
  BY DEF Enqueue
<1>3. NewItem(m, n).msg = m
  BY DEF NewItem
<1>. DEFINE new == NewItem(m, n)
<1>. HIDE DEF new
<1>4. /\ e \in Seq(Item) /\ Len(e) = Len(q) + 1
      /\ \A i \in 1 .. Len(q) : e[i] = q[i]
      /\ e[Len(q) + 1] = new
  BY <1>1, <1>2 DEF new
<1>5. /\ Msgs(q) \in Seq(Messages) /\ Len(Msgs(q)) = Len(q)
      /\ \A i \in 1 .. Len(q) : Msgs(q)[i] = q[i].msg
  BY MsgsType
<1>6. /\ Msgs(e) \in Seq(Messages) /\ Len(Msgs(e)) = Len(q) + 1
      /\ \A i \in 1 .. Len(q) + 1 : Msgs(e)[i] = e[i].msg
  <2>. HIDE DEF e
  <2>. QED  BY <1>4, MsgsType
<1>. DEFINE x == Msgs(e)
            y == Msgs(q)
<1>. HIDE DEF x, y, e
<1>7. /\ Append(y, m) \in Seq(Messages) /\ Len(Append(y, m)) = Len(q) + 1
      /\ Append(y, m)[Len(q) + 1] = m
      /\ \A i \in 1 .. Len(q) : Append(y, m)[i] = y[i]
  BY <1>5 DEF y
<1>8. ASSUME NEW i \in 1 .. Len(q) + 1
      PROVE  x[i] = Append(y, m)[i]
  <2>1. CASE i = Len(q) + 1
    BY <1>3, <1>4, <1>6, <1>7, <2>1 DEF new, x
  <2>2. CASE i \in 1 .. Len(q)
    BY <1>4, <1>5, <1>6, <1>7, <2>2 DEF x, y
  <2>3. i = Len(q) + 1 \/ i \in 1 .. Len(q)
    <3>1. Len(q) \in Nat
      OBVIOUS
    <3>. QED  BY <3>1
  <2>. QED  BY <2>1, <2>2, <2>3
<1>9. x = Append(y, m)
  BY <1>6, <1>7, <1>8 DEF x
<1>. QED  BY <1>4, <1>9 DEF e, new, x, y

\* markFailed() and markSending() change one item and keep its message.
LEMMA MarkFailedMsgs ==
  ASSUME NEW q \in Seq(Item), NEW i \in DOMAIN q, NEW delay \in Nat, NEW n \in Time
  PROVE  /\ MarkFailed(q, i, delay, n) \in Seq(Item)
         /\ Len(MarkFailed(q, i, delay, n)) = Len(q)
         /\ \A j \in DOMAIN q : j # i => MarkFailed(q, i, delay, n)[j] = q[j]
         /\ MarkFailed(q, i, delay, n)[i].msg = q[i].msg
         /\ MarkFailed(q, i, delay, n)[i].nextAttempt = Plus(n, delay)
         /\ MarkFailed(q, i, delay, n)[i].attemptCount =
              IF q[i].attemptCount < MaxAttempts THEN q[i].attemptCount + 1
              ELSE q[i].attemptCount
         /\ Msgs(MarkFailed(q, i, delay, n)) = Msgs(q)
<1>. DEFINE f   == MarkFailed(q, i, delay, n)
            c   == IF q[i].attemptCount < MaxAttempts
                   THEN q[i].attemptCount + 1 ELSE q[i].attemptCount
            t   == Plus(n, delay)
            new == FailedItem(q[i], delay, n)
<1>1. q[i] \in Item /\ DOMAIN q = 1 .. Len(q)
  OBVIOUS
<1>2. f = [q EXCEPT ![i] = new]
  BY <1>1 DEF MarkFailed
<1>3. t \in Time
  <2>1. n \in Int /\ delay \in Int
    BY DEF Time
  <2>. QED  BY <2>1, PlusType
<1>. HIDE DEF f, t
<1>4. c \in 0 .. MaxAttempts
  BY <1>1, SmsQueueCoreAssumption DEF Item
<1>. HIDE DEF c
<1>5. /\ new \in Item
      /\ new.msg = q[i].msg /\ new.nextAttempt = t /\ new.attemptCount = c
  BY <1>1, <1>3, <1>4 DEF Item, FailedItem, c, t
<1>. HIDE DEF new
<1>6. /\ f \in Seq(Item) /\ Len(f) = Len(q) /\ DOMAIN f = DOMAIN q
      /\ f[i] = new /\ \A j \in DOMAIN q : j # i => f[j] = q[j]
  BY <1>1, <1>2, <1>5
<1>7. \A j \in DOMAIN q : f[j].msg = q[j].msg
  BY <1>5, <1>6
<1>8. Msgs(f) = Msgs(q)
  BY <1>6, <1>7 DEF Msgs
<1>. QED  BY <1>5, <1>6, <1>8 DEF f, c, t

LEMMA MarkSendingMsgs ==
  ASSUME NEW q \in Seq(Item), NEW i \in DOMAIN q
  PROVE  /\ MarkSending(q, i) \in Seq(Item)
         /\ Len(MarkSending(q, i)) = Len(q)
         /\ \A j \in DOMAIN q : /\ MarkSending(q, i)[j].msg = q[j].msg
                                /\ MarkSending(q, i)[j].attemptCount = q[j].attemptCount
                                /\ j # i => MarkSending(q, i)[j] = q[j]
         /\ Msgs(MarkSending(q, i)) = Msgs(q)
<1>. DEFINE s   == MarkSending(q, i)
            new == [msg |-> q[i].msg, status |-> "Sending",
                    attemptCount |-> q[i].attemptCount, nextAttempt |-> q[i].nextAttempt]
<1>1. q[i] \in Item /\ DOMAIN q = 1 .. Len(q)
  OBVIOUS
<1>2. s = [q EXCEPT ![i] = new]
  <2>1. \A it \in Item :
          [it EXCEPT !.status = "Sending"]
          = [msg |-> it.msg, status |-> "Sending",
             attemptCount |-> it.attemptCount, nextAttempt |-> it.nextAttempt]
    BY DEF Item
  <2>. QED  BY <1>1, <2>1 DEF MarkSending
<1>3. new \in Item
  BY <1>1 DEF Item
<1>4. new.msg = q[i].msg /\ new.attemptCount = q[i].attemptCount
  OBVIOUS
<1>. HIDE DEF s, new
<1>5. /\ s \in Seq(Item) /\ Len(s) = Len(q) /\ DOMAIN s = DOMAIN q
      /\ s[i] = new /\ \A j \in DOMAIN q : j # i => s[j] = q[j]
  BY <1>1, <1>2, <1>3
<1>6. \A j \in DOMAIN q : s[j].msg = q[j].msg /\ s[j].attemptCount = q[j].attemptCount
  BY <1>4, <1>5
<1>7. Msgs(s) = Msgs(q)
  BY <1>5, <1>6 DEF Msgs
<1>. QED  BY <1>5, <1>6, <1>7 DEF s

\* markSent() takes out one item and moves up the ones behind it.
LEMMA MarkSentMsgs ==
  ASSUME NEW q \in Seq(Item), NEW i \in DOMAIN q
  PROVE  /\ MarkSent(q, i) \in Seq(Item)
         /\ Len(MarkSent(q, i)) = Len(q) - 1
         /\ \A j \in 1 .. Len(q) - 1 : MarkSent(q, i)[j] = IF j < i THEN q[j] ELSE q[j + 1]
         /\ Msgs(MarkSent(q, i)) = Promised!Without(Msgs(q), i)
<1>. DEFINE r == MarkSent(q, i)
<1>1. Len(q) \in Nat /\ i \in 1 .. Len(q) /\ Len(q) - 1 \in Nat
  OBVIOUS
<1>2. r = [j \in 1 .. Len(q) - 1 |-> IF j < i THEN q[j] ELSE q[j + 1]]
  BY DEF MarkSent
<1>3. \A j \in 1 .. Len(q) - 1 : j \in DOMAIN q /\ j + 1 \in DOMAIN q
  BY <1>1
<1>. HIDE DEF r
<1>4. r \in [1 .. Len(q) - 1 -> Item]
  BY <1>2, <1>3
<1>5. r \in Seq(Item) /\ Len(r) = Len(q) - 1 /\ DOMAIN r = 1 .. Len(q) - 1
  BY <1>1, <1>4
<1>6. Len(Msgs(q)) = Len(q) /\ DOMAIN Msgs(q) = DOMAIN q
      /\ \A j \in DOMAIN q : Msgs(q)[j] = q[j].msg
  BY MsgsType
<1>7. Promised!Without(Msgs(q), i) =
        [j \in 1 .. Len(q) - 1 |-> Msgs(q)[IF j < i THEN j ELSE j + 1]]
  BY <1>6 DEF Promised!Without
<1>8. \A j \in 1 .. Len(q) - 1 : r[j].msg = Msgs(q)[IF j < i THEN j ELSE j + 1]
  BY <1>2, <1>3, <1>6
<1>9. Msgs(r) = Promised!Without(Msgs(q), i)
  BY <1>5, <1>7, <1>8 DEF Msgs
<1>. QED  BY <1>2, <1>5, <1>9 DEF r

-----------------------------------------------------------------------------
(* The retry delays.  A failed item whose delay is not over has its next   *)
(* attempt at a time that lies ahead by what is left of the delay, and by  *)
(* less than half the range of the clock.                                  *)

Rests(it, w, n) ==
  \/ w >= DelaySet(it)
  \/ \E r \in 1 .. MaxRetryDelay : r >= DelaySet(it) - w /\ it.nextAttempt = Plus(n, r)

LEMMA RestIsNotDue ==
  ASSUME NEW it \in Item, NEW w \in 0 .. MaxRetryDelay, NEW n \in Time,
         Rests(it, w, n), Due(n, it.nextAttempt)
  PROVE  w >= DelaySet(it)
<1>1. ASSUME NEW r \in 1 .. MaxRetryDelay, it.nextAttempt = Plus(n, r)
      PROVE  FALSE
  <2>1. /\ ClockMod \in Nat \ {0} /\ n \in 0 .. ClockMod - 1 /\ HalfRange \in Nat
        /\ ClockMod = 2 * HalfRange /\ MaxRetryDelay \in Nat /\ MaxRetryDelay < HalfRange
    BY ClockModAssumption, HalfRangeType, SmsQueueCoreAssumption DEF Time
  <2>2. r \in 0 .. ClockMod /\ -r \in -HalfRange .. HalfRange - 1 /\ ~(-r >= 0)
    BY <2>1
  <2>3. Plus(n, r) = IF n + r < ClockMod THEN n + r ELSE n + r - ClockMod
    BY <2>2, PlusValue
  <2>4. Plus(n, r) \in Time /\ n - Plus(n, r) - (-r) \in {0, ClockMod, -ClockMod}
    BY <2>1, <2>2, <2>3 DEF Time
  <2>5. Due(n, Plus(n, r)) <=> -r >= 0
    BY <2>2, <2>4, DueIsExact
  <2>. QED  BY <1>1, <2>2, <2>5
<1>. QED  BY <1>1 DEF Rests

LEMMA RestPasses ==
  ASSUME NEW it \in Item, NEW w \in 0 .. MaxRetryDelay, NEW n \in Time,
         NEW d \in 0 .. HalfRange, Rests(it, w, n)
  PROVE  Rests(it, AtMost(DelaySet(it), w + d), Plus(n, d))
<1>. DEFINE s == DelaySet(it)
<1>0. s \in 0 .. MaxRetryDelay /\ MaxRetryDelay \in Nat
  BY DelaySetRange, SmsQueueCoreAssumption
<1>1. CASE w >= s
  <2>1. AtMost(s, w + d) >= s
    BY <1>0, <1>1 DEF AtMost
  <2>. QED  BY <2>1 DEF Rests
<1>2. ASSUME NEW r \in 1 .. MaxRetryDelay, r >= s - w, it.nextAttempt = Plus(n, r)
      PROVE  Rests(it, AtMost(s, w + d), Plus(n, d))
  <2>. HIDE DEF s
  <2>1. /\ ClockMod \in Nat \ {0} /\ n \in 0 .. ClockMod - 1 /\ HalfRange \in Nat
        /\ ClockMod = 2 * HalfRange /\ MaxRetryDelay < HalfRange
    BY ClockModAssumption, HalfRangeType, SmsQueueCoreAssumption DEF Time
  <2>2. CASE w + d >= s
    <3>1. AtMost(s, w + d) >= s
      BY <1>0, <2>1, <2>2 DEF AtMost
    <3>. QED  BY <3>1 DEF Rests, s
  <2>3. CASE ~(w + d >= s)
    <3>1. /\ AtMost(s, w + d) = w + d
          /\ r - d \in 1 .. MaxRetryDelay /\ r - d >= s - (w + d)
      BY <1>0, <1>2, <2>1, <2>3 DEF AtMost
    <3>2. Plus(n, d) = (IF n + d < ClockMod THEN n + d ELSE n + d - ClockMod)
          /\ Plus(n, d) \in Time
      BY <2>1, PlusValue DEF Time
    <3>3. Plus(n, r) = IF n + r < ClockMod THEN n + r ELSE n + r - ClockMod
      <4>1. r \in 0 .. ClockMod
        BY <1>0, <2>1
      <4>. QED  BY <4>1, PlusValue
    <3>. DEFINE p == Plus(n, d)
    <3>4. Plus(p, r - d) = IF p + (r - d) < ClockMod THEN p + (r - d) ELSE p + (r - d) - ClockMod
      <4>. HIDE DEF p
      <4>1. p \in Time
        BY <3>2 DEF p
      <4>2. r - d \in 0 .. ClockMod
        BY <1>0, <2>1, <3>1
      <4>. QED  BY <4>1, <4>2, PlusValue
    <3>5. Plus(p, r - d) = Plus(n, r)
      <4>. DEFINE x == Plus(p, r - d)
                  y == Plus(n, r)
      <4>. HIDE DEF p, x, y
      <4>1. /\ p = (IF n + d < ClockMod THEN n + d ELSE n + d - ClockMod)
            /\ x = (IF p + (r - d) < ClockMod THEN p + (r - d) ELSE p + (r - d) - ClockMod)
            /\ y = (IF n + r < ClockMod THEN n + r ELSE n + r - ClockMod)
        BY <3>2, <3>3, <3>4 DEF p, x, y
      <4>2. ASSUME n + d < ClockMod PROVE x = y
        <5>1. p = n + d /\ p + (r - d) = n + r
          BY <1>0, <2>1, <4>1, <4>2
        <5>2. x = (IF n + r < ClockMod THEN n + r ELSE n + r - ClockMod)
          BY <1>0, <2>1, <4>1, <5>1
        <5>. QED  BY <4>1, <5>2
      <4>3. ASSUME ~(n + d < ClockMod) PROVE x = y
        <5>1. p = n + d - ClockMod /\ p + (r - d) = n + r - ClockMod
          BY <1>0, <2>1, <4>1, <4>3
        <5>2. n + r - ClockMod < ClockMod /\ ~(n + r < ClockMod)
          BY <1>0, <2>1, <3>1, <4>3
        <5>. QED  BY <4>1, <5>1, <5>2
      <4>4. x = y
        BY <4>2, <4>3
      <4>. QED  BY <4>4 DEF x, y
    <3>. QED  BY <1>2, <3>1, <3>5 DEF Rests, s
  <2>. QED  BY <2>2, <2>3
<1>. QED  BY <1>1, <1>2 DEF Rests

\* markFailed() with the delay of forwarder_http.cpp starts a rest.
LEMMA FailedRests ==
  ASSUME NEW q \in Seq(Item), NEW i \in DOMAIN q, NEW n \in Time,
         NEW delay \in {RetryDelay(q[i].attemptCount), MaxRetryDelay}
  PROVE  Rests(MarkFailed(q, i, delay, n)[i], 0, n)
<1>. DEFINE f == MarkFailed(q, i, delay, n)[i]
            a == q[i].attemptCount
<1>0. delay \in 0 .. MaxRetryDelay /\ delay \in Nat /\ MaxRetryDelay \in Nat
  BY RetryDelayRange, SmsQueueCoreAssumption
<1>1. f.nextAttempt = Plus(n, delay) /\ f.attemptCount = IF a < MaxAttempts THEN a + 1 ELSE a
  BY <1>0, MarkFailedMsgs
<1>2. a \in 0 .. MaxAttempts /\ MaxAttempts \in Nat \ {0}
  <2>1. q[i] \in Item
    OBVIOUS
  <2>. QED  BY <2>1, SmsQueueCoreAssumption DEF Item
<1>. HIDE DEF f, a
<1>3. DelaySet(f) = RetryDelay(a)
  <2>1. CASE a < MaxAttempts
    <3>1. f.attemptCount = a + 1 /\ f.attemptCount # 0 /\ f.attemptCount - 1 = a
      BY <1>1, <1>2, <2>1
    <3>. QED  BY <3>1 DEF DelaySet
  <2>2. CASE a = MaxAttempts
    <3>1. f.attemptCount = MaxAttempts /\ f.attemptCount # 0
      BY <1>1, <1>2, <2>2
    <3>. QED  BY <2>2, <3>1, RetryDelayAssumption DEF DelaySet
  <2>. QED  BY <1>2, <2>1, <2>2
<1>4. delay >= RetryDelay(a) /\ RetryDelay(a) \in 0 .. MaxRetryDelay
  BY <1>0, RetryDelayRange DEF a
<1>5. CASE RetryDelay(a) = 0
  BY <1>3, <1>5 DEF Rests, f
<1>6. CASE RetryDelay(a) # 0
  <2>1. delay \in 1 .. MaxRetryDelay /\ delay >= DelaySet(f) - 0
    BY <1>0, <1>3, <1>4, <1>6
  <2>. QED  BY <1>1, <2>1 DEF Rests, f
<1>. QED  BY <1>5, <1>6

-----------------------------------------------------------------------------
(* The inductive invariant: types; the queue in the order of arrival, so    *)
(* that no message is in it twice; nothing lost; every delay at rest.       *)

InOrder(q, n) ==
  /\ \A i \in DOMAIN q : q[i].msg <= n
  /\ \A i, j \in DOMAIN q : i < j => q[i].msg < q[j].msg

AllRest(q, w, n) == \A i \in DOMAIN q : Rests(q[i], w[q[i].msg], n)

Inv == TypeOK /\ InOrder(queue, arrived) /\ NoSilentLoss /\ AllRest(queue, waited, now)

OutboxStep == [Promised!Next]_<<arrived, Msgs(queue), pushes, lost>>

LEMMA InitInv == Init => Inv /\ Promised!Init
<1>. SUFFICES ASSUME Init PROVE Inv /\ Promised!Init
  OBVIOUS
<1>0. 0 \in Time /\ 0 \in 0 .. MaxRetryDelay /\ 0 \in 0 .. MaxLoopGap /\ 0 \in 0 .. MaxArrivals
      /\ Capacity \in Nat
  BY ClockModAssumption, SmsQueueCoreAssumption, SmsForwarderAssumption DEF Time
<1>1. queue = <<>> /\ queue \in Seq(Item) /\ Len(queue) = 0 /\ DOMAIN queue = {}
  BY DEF Init
<1>2. TypeOK
  <2>1. Len(queue) <= Capacity
    BY <1>0, <1>1
  <2>2. /\ [m \in Messages |-> 0] \in [Messages -> Nat]
        /\ [m \in Messages |-> 0] \in [Messages -> 0 .. MaxRetryDelay]
    BY <1>0
  <2>. QED  BY <1>0, <1>1, <2>1, <2>2 DEF Init, TypeOK
<1>3. InOrder(queue, arrived) /\ AllRest(queue, waited, now)
  BY <1>1 DEF InOrder, AllRest
<1>4. NoSilentLoss
  BY <1>0 DEF Init, NoSilentLoss
<1>5. Msgs(queue) = <<>>
  BY <1>1 DEF Msgs
<1>. QED  BY <1>2, <1>3, <1>4, <1>5 DEF Init, Inv, Promised!Init, Msgs

\* Two items of a queue in order hold different messages.
LEMMA OneItemEach ==
  ASSUME NEW q \in Seq(Item), NEW n \in Nat, InOrder(q, n),
         NEW i \in DOMAIN q, NEW j \in DOMAIN q, q[i].msg = q[j].msg
  PROVE  i = j
<1>1. i \in 1 .. Len(q) /\ j \in 1 .. Len(q) /\ Len(q) \in Nat
  OBVIOUS
<1>2. q[i].msg \in Nat /\ q[j].msg \in Nat
  <2>1. q[i] \in Item /\ q[j] \in Item
    OBVIOUS
  <2>. QED  BY <2>1, SmsForwarderAssumption DEF Item, Messages
<1>3. CASE i < j
  BY <1>2, <1>3 DEF InOrder
<1>4. CASE j < i
  BY <1>2, <1>4 DEF InOrder
<1>. QED  BY <1>1, <1>3, <1>4

\* What Wait() makes of the true time since the last attempts.
LEMMA WaitValue ==
  ASSUME TypeOK, InOrder(queue, arrived), NEW d \in Nat
  PROVE  /\ Wait(d) \in [Messages -> 0 .. MaxRetryDelay]
         /\ \A i \in DOMAIN queue :
              Wait(d)[queue[i].msg] = AtMost(DelaySet(queue[i]), waited[queue[i].msg] + d)
<1>0. /\ queue \in Seq(Item) /\ arrived \in Nat
      /\ waited \in [Messages -> 0 .. MaxRetryDelay]
      /\ MaxRetryDelay \in Nat
  BY SmsQueueCoreAssumption, SmsForwarderAssumption DEF TypeOK
<1>. DEFINE at(m) == {i \in DOMAIN queue : queue[i].msg = m}
            c(m)  == CHOOSE i \in at(m) : TRUE
            v(m)  == IF at(m) = {} THEN 0
                     ELSE AtMost(DelaySet(queue[c(m)]), waited[m] + d)
<1>1. Wait(d) = [m \in Messages |-> v(m)]
  BY DEF Wait
<1>2. \A m \in Messages : v(m) \in 0 .. MaxRetryDelay
  <2>1. \A m \in Messages, x \in 0 .. MaxRetryDelay :
          AtMost(x, waited[m] + d) \in 0 .. MaxRetryDelay
    BY <1>0 DEF AtMost
  <2>. QED  BY <1>0, <2>1, DelaySetRange
<1>3. ASSUME NEW i \in DOMAIN queue
      PROVE  v(queue[i].msg) = AtMost(DelaySet(queue[i]), waited[queue[i].msg] + d)
  <2>. DEFINE m == queue[i].msg
  <2>1. i \in at(m)
    OBVIOUS
  <2>2. c(m) \in at(m)
    BY <2>1
  <2>3. c(m) = i
    <3>. DEFINE k == c(m)
    <3>1. k \in DOMAIN queue /\ queue[k].msg = queue[i].msg
      BY <2>2
    <3>. HIDE DEF k
    <3>2. k = i
      BY <1>0, <3>1, OneItemEach
    <3>. QED  BY <3>2 DEF k
  <2>. QED  BY <2>1, <2>3
<1>4. \A i \in DOMAIN queue : queue[i].msg \in Messages
  <2>1. \A i \in DOMAIN queue : queue[i] \in Item
    BY <1>0
  <2>. QED  BY <2>1 DEF Item
<1>. HIDE DEF v
<1>. QED  BY <1>1, <1>2, <1>3, <1>4

\* Time passes while no item changes.
LEMMA TimePasses ==
  ASSUME Inv, NEW d \in 0 .. HalfRange
  PROVE  AllRest(queue, Wait(d), Plus(now, d))
<1>. SUFFICES ASSUME NEW i \in DOMAIN queue
              PROVE  Rests(queue[i], Wait(d)[queue[i].msg], Plus(now, d))
  BY DEF AllRest
<1>1. queue[i] \in Item /\ now \in Time /\ d \in Nat
      /\ waited \in [Messages -> 0 .. MaxRetryDelay]
  BY HalfRangeType DEF Inv, TypeOK
<1>2. waited[queue[i].msg] \in 0 .. MaxRetryDelay
  BY <1>1 DEF Item
<1>3. Wait(d)[queue[i].msg] = AtMost(DelaySet(queue[i]), waited[queue[i].msg] + d)
  BY <1>1, WaitValue DEF Inv
<1>4. Rests(queue[i], waited[queue[i].msg], now)
  BY DEF Inv, AllRest
<1>. QED  BY <1>1, <1>2, <1>3, <1>4, RestPasses

LEMMA InvTypes ==
  ASSUME Inv
  PROVE  /\ queue \in Seq(Item) /\ Len(queue) <= Capacity /\ Len(queue) \in Nat
         /\ DOMAIN queue = 1 .. Len(queue)
         /\ \A i \in DOMAIN queue : queue[i] \in Item /\ queue[i].msg \in Messages
         /\ now \in Time /\ arrived \in 0 .. MaxArrivals /\ MaxArrivals \in Nat
         /\ pushes \in [Messages -> Nat] /\ lost \in [Messages -> Nat]
         /\ waited \in [Messages -> 0 .. MaxRetryDelay]
         /\ MaxRetryDelay \in Nat /\ 0 \in 0 .. MaxRetryDelay
         /\ 0 \in 0 .. MaxLoopGap /\ gap \in 0 .. MaxLoopGap /\ Capacity \in Nat
         /\ configured \in BOOLEAN /\ connected \in BOOLEAN
<1>1. /\ queue \in Seq(Item) /\ Len(queue) <= Capacity
      /\ now \in Time /\ arrived \in 0 .. MaxArrivals
      /\ pushes \in [Messages -> Nat] /\ lost \in [Messages -> Nat]
      /\ waited \in [Messages -> 0 .. MaxRetryDelay] /\ gap \in 0 .. MaxLoopGap
      /\ configured \in BOOLEAN /\ connected \in BOOLEAN
  BY DEF Inv, TypeOK
<1>2. \A i \in DOMAIN queue : queue[i] \in Item
  BY <1>1
<1>3. \A i \in DOMAIN queue : queue[i].msg \in Messages
  BY <1>2 DEF Item
<1>. QED  BY <1>1, <1>2, <1>3, SmsQueueCoreAssumption, SmsForwarderAssumption

\* A step that changes neither the queue nor what has been pushed, nor the time.
LEMMA IdleInv ==
  ASSUME Inv, UNCHANGED <<queue, now, arrived, pushes, lost, waited>>,
         configured' \in BOOLEAN, connected' \in BOOLEAN, gap' \in 0 .. MaxLoopGap
  PROVE  Inv' /\ OutboxStep
<1>1. TypeOK'
  BY InvTypes DEF TypeOK
<1>2. InOrder(queue, arrived)' /\ NoSilentLoss' /\ AllRest(queue, waited, now)'
  BY DEF Inv, InOrder, NoSilentLoss, AllRest, Rests
<1>3. Msgs(queue)' = Msgs(queue)
  BY DEF Msgs
<1>. QED  BY <1>1, <1>2, <1>3 DEF Inv, OutboxStep

LEMMA ReceiveInv ==
  ASSUME Inv, Receive
  PROVE  Inv' /\ OutboxStep
<1>0. /\ UNCHANGED <<configured, connected, now, pushes, lost, waited, gap>>
      /\ arrived < MaxArrivals
  BY DEF Receive
<1>1. CASE ~HasRoom(queue)
  <2>1. queue' = queue /\ arrived' = arrived
    BY <1>1 DEF Receive, Enqueue
  <2>. QED  BY <1>0, <2>1, IdleInv, InvTypes
<1>2. CASE HasRoom(queue)
  <2>. DEFINE m == arrived + 1
  <2>1. m \in Messages /\ m \in Nat /\ arrived' = m /\ m \in 0 .. MaxArrivals
    BY <1>0, <1>2, InvTypes DEF Receive, Messages
  <2>2. queue' = Enqueue(queue, m, now)
    BY DEF Receive
  <2>3. /\ queue' \in Seq(Item) /\ Len(queue') = Len(queue) + 1
        /\ \A i \in DOMAIN queue : queue'[i] = queue[i]
        /\ queue'[Len(queue) + 1] = NewItem(m, now)
        /\ Msgs(queue') = Append(Msgs(queue), m)
    BY <1>2, <2>1, <2>2, EnqueueMsgs, InvTypes
  <2>4. NewItem(m, now).msg = m /\ NewItem(m, now).attemptCount = 0
    BY DEF NewItem
  <2>. DEFINE new == NewItem(m, now)
  <2>. HIDE DEF new
  <2>5. DOMAIN queue' = 1 .. Len(queue) + 1 /\ DOMAIN queue = 1 .. Len(queue) /\ Len(queue) \in Nat
    BY <2>3, InvTypes
  <2>6. \A i \in DOMAIN queue' :
          \/ i \in DOMAIN queue /\ queue'[i] = queue[i] /\ i <= Len(queue)
          \/ i = Len(queue) + 1 /\ queue'[i].msg = m /\ queue'[i].attemptCount = 0
    BY <2>3, <2>4, <2>5 DEF new
  <2>7. Len(queue) < Capacity
    BY <1>2 DEF HasRoom
  <2>8. TypeOK'
    BY <1>0, <2>1, <2>3, <2>5, <2>7, InvTypes DEF TypeOK
  <2>9. InOrder(queue, arrived)'
    <3>1. \A i \in DOMAIN queue : queue[i].msg \in Nat /\ queue[i].msg <= arrived /\ queue[i].msg < m
      BY InvTypes, <2>1 DEF Inv, InOrder, Messages
    <3>2. ASSUME NEW i \in DOMAIN queue', NEW j \in DOMAIN queue', i < j
          PROVE  queue'[i].msg < queue'[j].msg
      <4>1. i \in DOMAIN queue /\ queue'[i] = queue[i]
        BY <2>5, <2>6, <3>2
      <4>2. CASE j \in DOMAIN queue /\ queue'[j] = queue[j]
        BY <3>2, <4>1, <4>2 DEF Inv, InOrder
      <4>3. CASE queue'[j].msg = m
        BY <3>1, <4>1, <4>3
      <4>. QED  BY <2>6, <4>2, <4>3
    <3>3. \A i \in DOMAIN queue' : queue'[i].msg <= m
      BY <2>1, <2>6, <3>1
    <3>. QED  BY <2>1, <3>2, <3>3 DEF InOrder
  <2>10. NoSilentLoss'
    <3>. SUFFICES ASSUME NEW k \in 1 .. m
                  PROVE  pushes[k] > 0 \/ \E i \in DOMAIN queue' : queue'[i].msg = k
      BY <1>0, <2>1 DEF NoSilentLoss
    <3>1. CASE k = m
      BY <2>3, <2>4, <2>5, <3>1 DEF new
    <3>2. CASE k \in 1 .. arrived
      <4>1. pushes[k] > 0 \/ \E i \in DOMAIN queue : queue[i].msg = k
        BY <3>2 DEF Inv, NoSilentLoss
      <4>2. \A i \in DOMAIN queue : i \in DOMAIN queue' /\ queue'[i] = queue[i]
        BY <2>3, <2>5
      <4>. QED  BY <4>1, <4>2
    <3>. QED  BY <3>1, <3>2, InvTypes
  <2>11. AllRest(queue, waited, now)'
    <3>. SUFFICES ASSUME NEW i \in DOMAIN queue'
                  PROVE  Rests(queue'[i], waited[queue'[i].msg], now)
      BY <1>0 DEF AllRest
    <3>1. CASE i \in DOMAIN queue /\ queue'[i] = queue[i]
      BY <3>1 DEF Inv, AllRest
    <3>2. CASE queue'[i].msg = m /\ queue'[i].attemptCount = 0
      <4>1. DelaySet(queue'[i]) = 0 /\ waited[m] >= 0
        BY <2>1, <3>2, InvTypes DEF DelaySet
      <4>. QED  BY <3>2, <4>1 DEF Rests
    <3>. QED  BY <2>6, <3>1, <3>2
  <2>12. Promised!Accept
    <3>1. Len(Msgs(queue)) = Len(queue)
      BY MsgsType, InvTypes
    <3>. QED  BY <1>0, <2>1, <2>3, <2>7, <3>1 DEF Promised!Accept, Msgs
  <2>. QED  BY <2>8, <2>9, <2>10, <2>11, <2>12 DEF Inv, OutboxStep, Promised!Next
<1>. QED  BY <1>1, <1>2

\* markFailed() of an item that has not been pushed anew, time d having passed.
LEMMA FailedInv ==
  ASSUME Inv, NEW q \in Seq(Item), NEW i \in DOMAIN queue, NEW d \in 0 .. HalfRange,
         Len(q) = Len(queue), Msgs(q) = Msgs(queue),
         \A j \in DOMAIN queue : j # i => q[j] = queue[j],
         NEW delay \in {RetryDelay(q[i].attemptCount), MaxRetryDelay},
         queue' = MarkFailed(q, i, delay, Plus(now, d)),
         now' = Plus(now, d), arrived' = arrived,
         waited' = [Wait(d) EXCEPT ![queue[i].msg] = 0],
         pushes' \in [Messages -> Nat], lost' \in [Messages -> Nat],
         \A m \in Messages : pushes'[m] >= pushes[m],
         gap' = 0, UNCHANGED <<configured, connected>>
  PROVE  Inv' /\ Msgs(queue') = Msgs(queue)
<1>1. delay \in Nat /\ Plus(now, d) \in Time
  <2>1. now \in Int /\ d \in Int
    BY InvTypes, HalfRangeType, ClockModAssumption DEF Time
  <2>. QED  BY <2>1, PlusType, RetryDelayRange, SmsQueueCoreAssumption
<1>2. DOMAIN q = DOMAIN queue
  BY InvTypes
<1>3. /\ queue' \in Seq(Item) /\ Len(queue') = Len(queue) /\ DOMAIN queue' = DOMAIN queue
      /\ \A j \in DOMAIN queue : j # i => queue'[j] = queue[j]
      /\ Msgs(queue') = Msgs(queue)
  <2>1. /\ queue' \in Seq(Item) /\ Len(queue') = Len(q)
        /\ \A j \in DOMAIN q : j # i => queue'[j] = q[j]
        /\ Msgs(queue') = Msgs(q)
    BY <1>1, <1>2, MarkFailedMsgs, ZenonT(40)
  <2>. QED  BY <1>2, <2>1, InvTypes
<1>4. \A j \in DOMAIN queue : queue'[j].msg = queue[j].msg
  <2>1. \A j \in 1 .. Len(queue') : Msgs(queue')[j] = queue'[j].msg
    BY <1>3, MsgsType
  <2>2. \A j \in 1 .. Len(queue) : Msgs(queue)[j] = queue[j].msg
    BY MsgsType, InvTypes
  <2>. QED  BY <1>3, <2>1, <2>2, InvTypes
<1>5. /\ Wait(d) \in [Messages -> 0 .. MaxRetryDelay]
      /\ d \in Nat
  BY WaitValue, HalfRangeType DEF Inv
<1>6. waited' \in [Messages -> 0 .. MaxRetryDelay]
  BY <1>5, InvTypes
<1>7. TypeOK'
  BY <1>1, <1>3, <1>6, InvTypes DEF TypeOK
<1>8. InOrder(queue, arrived)'
  BY <1>3, <1>4, ZenonT(40) DEF Inv, InOrder
<1>9. NoSilentLoss'
  <2>. SUFFICES ASSUME NEW m \in 1 .. arrived
                PROVE  pushes'[m] > 0 \/ \E j \in DOMAIN queue : queue'[j].msg = m
    BY <1>3 DEF NoSilentLoss
  <2>1. pushes[m] > 0 \/ \E j \in DOMAIN queue : queue[j].msg = m
    BY DEF Inv, NoSilentLoss
  <2>2. m \in Messages
    BY InvTypes DEF Messages
  <2>3. pushes'[m] >= pushes[m] /\ pushes[m] \in Nat /\ pushes'[m] \in Nat
    BY <2>2, InvTypes
  <2>. QED  BY <1>4, <2>1, <2>3, SMTT(30)
<1>10. AllRest(queue, waited, now)'
  <2>. SUFFICES ASSUME NEW j \in DOMAIN queue
                PROVE  Rests(queue'[j], waited'[queue[j].msg], Plus(now, d))
    BY <1>3, <1>4 DEF AllRest
  <2>1. CASE j = i
    <3>1. waited'[queue[i].msg] = 0
      BY <1>5, InvTypes
    <3>2. Rests(queue'[i], 0, Plus(now, d))
      BY <1>1, <1>2, FailedRests
    <3>. QED  BY <2>1, <3>1, <3>2
  <2>2. CASE j # i
    <3>1. queue[j].msg # queue[i].msg
      <4>1. queue \in Seq(Item) /\ arrived \in Nat /\ InOrder(queue, arrived)
        BY InvTypes DEF Inv
      <4>. QED  BY <2>2, <4>1, OneItemEach
    <3>2. waited'[queue[j].msg] = Wait(d)[queue[j].msg]
      BY <1>5, <3>1, InvTypes
    <3>3. Rests(queue[j], Wait(d)[queue[j].msg], Plus(now, d))
      BY TimePasses DEF AllRest
    <3>. QED  BY <1>3, <2>2, <3>2, <3>3
  <2>. QED  BY <2>1, <2>2
<1>. QED  BY <1>3, <1>7, <1>8, <1>9, <1>10 DEF Inv

LEMMA UnbuildableInv ==
  ASSUME Inv, NEW i \in DOMAIN queue, PollUnbuildable(i)
  PROVE  Inv' /\ OutboxStep
<1>1. /\ queue' = MarkFailed(queue, i, MaxRetryDelay, now)
      /\ waited' = [waited EXCEPT ![queue[i].msg] = 0]
      /\ gap' = 0 /\ UNCHANGED <<configured, connected, now, arrived, pushes, lost>>
  BY DEF PollUnbuildable
<1>2. now \in Time /\ MaxRetryDelay \in Nat /\ queue \in Seq(Item)
  BY InvTypes
<1>3. /\ queue' \in Seq(Item) /\ Len(queue') = Len(queue) /\ DOMAIN queue' = DOMAIN queue
      /\ \A j \in DOMAIN queue : j # i => queue'[j] = queue[j]
      /\ Msgs(queue') = Msgs(queue) /\ queue'[i].msg = queue[i].msg
  <2>1. /\ queue' \in Seq(Item) /\ Len(queue') = Len(queue)
        /\ \A j \in DOMAIN queue : j # i => queue'[j] = queue[j]
        /\ Msgs(queue') = Msgs(queue) /\ queue'[i].msg = queue[i].msg
    BY <1>1, <1>2, MarkFailedMsgs
  <2>. QED  BY <2>1, InvTypes
<1>4. \A j \in DOMAIN queue : queue'[j].msg = queue[j].msg
  BY <1>3
<1>5. waited' \in [Messages -> 0 .. MaxRetryDelay]
  BY <1>1, InvTypes
<1>6. TypeOK'
  BY <1>1, <1>3, <1>5, InvTypes DEF TypeOK
<1>7. InOrder(queue, arrived)' /\ NoSilentLoss'
  BY <1>1, <1>3, <1>4 DEF Inv, InOrder, NoSilentLoss
<1>8. AllRest(queue, waited, now)'
  <2>. SUFFICES ASSUME NEW j \in DOMAIN queue
                PROVE  Rests(queue'[j], waited'[queue[j].msg], now)
    BY <1>1, <1>3, <1>4 DEF AllRest
  <2>1. CASE j = i
    <3>1. waited'[queue[i].msg] = 0
      BY <1>1, InvTypes
    <3>. QED  BY <1>1, <1>2, <2>1, <3>1, FailedRests
  <2>2. CASE j # i
    <3>1. queue[j].msg # queue[i].msg
      <4>1. queue \in Seq(Item) /\ arrived \in Nat /\ InOrder(queue, arrived)
        BY InvTypes DEF Inv
      <4>. QED  BY <2>2, <4>1, OneItemEach
    <3>2. waited'[queue[j].msg] = waited[queue[j].msg]
      BY <1>1, <3>1, InvTypes
    <3>. QED  BY <1>3, <2>2, <3>2 DEF Inv, AllRest
  <2>. QED  BY <2>1, <2>2
<1>. QED  BY <1>1, <1>3, <1>6, <1>7, <1>8 DEF Inv, OutboxStep

\* markSent() of the item that was pushed, time d having passed.
LEMMA SentInv ==
  ASSUME Inv, NEW q \in Seq(Item), NEW i \in DOMAIN queue, NEW d \in 0 .. HalfRange,
         Len(q) = Len(queue), Msgs(q) = Msgs(queue),
         \A j \in DOMAIN queue : j # i => q[j] = queue[j],
         queue' = MarkSent(q, i),
         now' = Plus(now, d), arrived' = arrived,
         waited' = [Wait(d) EXCEPT ![queue[i].msg] = 0],
         pushes' = [pushes EXCEPT ![queue[i].msg] = @ + 1],
         gap' = 0, UNCHANGED <<configured, connected, lost>>
  PROVE  Inv' /\ Promised!Deliver(i)
<1>. DEFINE from(k) == IF k < i THEN k ELSE k + 1
<1>1. Plus(now, d) \in Time /\ d \in Nat
  <2>1. now \in Int /\ d \in Int
    BY InvTypes, HalfRangeType, ClockModAssumption DEF Time
  <2>. QED  BY <2>1, PlusType, HalfRangeType
<1>2. DOMAIN q = DOMAIN queue /\ i \in 1 .. Len(queue) /\ Len(queue) \in Nat
  BY InvTypes
<1>3. /\ queue' \in Seq(Item) /\ Len(queue') = Len(queue) - 1
      /\ \A k \in 1 .. Len(queue) - 1 : queue'[k] = q[from(k)]
      /\ Msgs(queue') = Promised!Without(Msgs(queue), i)
  <2>1. /\ queue' \in Seq(Item) /\ Len(queue') = Len(q) - 1
        /\ \A k \in 1 .. Len(q) - 1 : queue'[k] = IF k < i THEN q[k] ELSE q[k + 1]
        /\ Msgs(queue') = Promised!Without(Msgs(q), i)
    BY <1>2, MarkSentMsgs
  <2>. QED  BY <2>1
<1>4. DOMAIN queue' = 1 .. Len(queue) - 1
  BY <1>3
<1>5. \A k \in DOMAIN queue' :
        from(k) \in DOMAIN queue /\ from(k) # i /\ queue'[k] = queue[from(k)]
  <2>1. \A k \in DOMAIN queue' : from(k) \in 1 .. Len(queue) /\ from(k) # i
    BY <1>2, <1>4
  <2>. QED  BY <1>2, <1>3, <1>4, <2>1, InvTypes
<1>6. \A j \in DOMAIN queue : j # i => \E k \in DOMAIN queue' : j = from(k)
  <2>. SUFFICES ASSUME NEW j \in DOMAIN queue, j # i
                PROVE  \E k \in DOMAIN queue' : j = from(k)
    OBVIOUS
  <2>1. j \in 1 .. Len(queue)
    BY InvTypes
  <2>2. CASE j < i
    <3>1. j \in DOMAIN queue' /\ j = from(j)
      BY <1>2, <1>4, <2>1, <2>2
    <3>. QED  BY <3>1
  <2>3. CASE j > i
    <3>1. j - 1 \in DOMAIN queue' /\ j = from(j - 1)
      BY <1>2, <1>4, <2>1, <2>3
    <3>. QED  BY <3>1
  <2>. QED  BY <1>2, <2>1, <2>2, <2>3
<1>7. \A k, l \in DOMAIN queue' : k < l => from(k) < from(l)
  BY <1>2, <1>4
<1>. HIDE DEF from
<1>8. /\ Wait(d) \in [Messages -> 0 .. MaxRetryDelay]
  BY <1>1, WaitValue DEF Inv
<1>9. /\ waited' \in [Messages -> 0 .. MaxRetryDelay]
      /\ pushes' \in [Messages -> Nat]
  BY <1>8, InvTypes
<1>10. TypeOK'
  <2>1. Len(queue') <= Capacity
    BY <1>3, InvTypes
  <2>. QED  BY <1>1, <1>3, <1>9, <2>1, InvTypes DEF TypeOK
<1>11. InOrder(queue, arrived)'
  BY <1>5, <1>7 DEF Inv, InOrder
<1>12. NoSilentLoss'
  <2>. SUFFICES ASSUME NEW m \in 1 .. arrived
                PROVE  pushes'[m] > 0 \/ \E k \in DOMAIN queue' : queue'[k].msg = m
    BY DEF NoSilentLoss
  <2>1. m \in Messages
    BY InvTypes DEF Messages
  <2>2. pushes[m] > 0 \/ \E j \in DOMAIN queue : queue[j].msg = m
    BY DEF Inv, NoSilentLoss
  <2>3. CASE m = queue[i].msg
    BY <2>1, <2>3, InvTypes
  <2>4. CASE m # queue[i].msg /\ pushes[m] > 0
    BY <2>1, <2>4, InvTypes
  <2>5. ASSUME m # queue[i].msg, NEW j \in DOMAIN queue, queue[j].msg = m
        PROVE  \E k \in DOMAIN queue' : queue'[k].msg = m
    BY <1>5, <1>6, <2>5
  <2>. QED  BY <2>2, <2>3, <2>4, <2>5
<1>13. AllRest(queue, waited, now)'
  <2>. SUFFICES ASSUME NEW k \in DOMAIN queue'
                PROVE  Rests(queue'[k], waited'[queue'[k].msg], Plus(now, d))
    BY DEF AllRest
  <2>. DEFINE j == from(k)
  <2>. HIDE DEF j
  <2>1. j \in DOMAIN queue /\ j # i /\ queue'[k] = queue[j]
    BY <1>5 DEF j
  <2>2. queue[j].msg # queue[i].msg
    <3>1. queue \in Seq(Item) /\ arrived \in Nat /\ InOrder(queue, arrived)
      BY InvTypes DEF Inv
    <3>. QED  BY <2>1, <3>1, OneItemEach
  <2>3. waited'[queue[j].msg] = Wait(d)[queue[j].msg]
    BY <1>8, <2>1, <2>2, InvTypes
  <2>4. Rests(queue[j], Wait(d)[queue[j].msg], Plus(now, d))
    BY <2>1, TimePasses DEF AllRest
  <2>. QED  BY <2>1, <2>3, <2>4
<1>14. Promised!Deliver(i)
  <2>1. Msgs(queue)[i] = queue[i].msg
    BY MsgsType, InvTypes
  <2>. QED  BY <1>3, <2>1 DEF Promised!Deliver, Msgs
<1>. QED  BY <1>10, <1>11, <1>12, <1>13, <1>14 DEF Inv

LEMMA PostInv ==
  ASSUME Inv, NEW i \in DOMAIN queue, NEW d \in 0 .. MaxPostTime,
         NEW outcome \in Outcomes, PollPost(i, d, outcome)
  PROVE  Inv' /\ OutboxStep
<1>. DEFINE m == queue[i].msg
            q == MarkSending(queue, i)
<1>1. /\ queue' = IF outcome = "taken" THEN MarkSent(q, i)
                  ELSE MarkFailed(q, i, RetryDelay(queue[i].attemptCount), Plus(now, d))
      /\ pushes' = (IF outcome = "failed" THEN pushes ELSE [pushes EXCEPT ![m] = @ + 1])
      /\ lost' = (IF outcome = "answer lost" THEN [lost EXCEPT ![m] = @ + 1] ELSE lost)
      /\ now' = Plus(now, d) /\ waited' = [Wait(d) EXCEPT ![m] = 0] /\ gap' = 0
      /\ UNCHANGED <<configured, connected, arrived>>
  BY DEF PollPost
<1>2. d \in 0 .. HalfRange
  BY HalfRangeType, SmsForwarderAssumption
<1>3. /\ q \in Seq(Item) /\ Len(q) = Len(queue) /\ Msgs(q) = Msgs(queue)
      /\ \A j \in DOMAIN queue : j # i => q[j] = queue[j]
      /\ q[i].attemptCount = queue[i].attemptCount
  BY MarkSendingMsgs, InvTypes
<1>4. m \in Messages /\ Msgs(queue)[i] = m
  BY MsgsType, InvTypes
<1>. HIDE DEF q
<1>5. DOMAIN Msgs(queue) = DOMAIN queue
  BY MsgsType, InvTypes
<1>6. CASE outcome = "taken"
  <2>1. Inv' /\ Promised!Deliver(i)
    BY <1>1, <1>2, <1>3, <1>6, SentInv
  <2>. QED  BY <1>5, <2>1 DEF OutboxStep, Promised!Next, Msgs
<1>7. CASE outcome # "taken"
  <2>1. queue' = MarkFailed(q, i, RetryDelay(q[i].attemptCount), Plus(now, d))
    BY <1>1, <1>3, <1>7
  <2>2. pushes' \in [Messages -> Nat] /\ lost' \in [Messages -> Nat]
        /\ \A k \in Messages : pushes'[k] >= pushes[k]
    <3>1. \A f \in [Messages -> Nat] :
            /\ [f EXCEPT ![m] = @ + 1] \in [Messages -> Nat]
            /\ \A k \in Messages : f[k] >= f[k] /\ [f EXCEPT ![m] = @ + 1][k] >= f[k]
      BY <1>4
    <3>. QED  BY <1>1, <3>1, InvTypes
  <2>3. Inv' /\ Msgs(queue') = Msgs(queue)
    BY <1>1, <1>2, <1>3, <2>1, <2>2, FailedInv
  <2>4. CASE outcome = "failed"
    BY <1>1, <2>3, <2>4 DEF OutboxStep
  <2>5. CASE outcome = "answer lost"
    <3>1. Promised!DeliverUnconfirmed(i)
      BY <1>1, <1>4, <2>3, <2>5 DEF Promised!DeliverUnconfirmed, Msgs
    <3>. QED  BY <1>5, <2>3, <3>1 DEF OutboxStep, Promised!Next, Msgs
  <2>. QED  BY <1>7, <2>4, <2>5 DEF Outcomes
<1>. QED  BY <1>6, <1>7

LEMMA TickInv ==
  ASSUME Inv, Tick
  PROVE  Inv' /\ OutboxStep
<1>1. /\ gap < MaxLoopGap /\ now' = Plus(now, 1) /\ waited' = Wait(1) /\ gap' = gap + 1
      /\ UNCHANGED <<queue, configured, connected, arrived, pushes, lost>>
  BY DEF Tick
<1>2. 1 \in 0 .. HalfRange /\ 1 \in Nat
  BY HalfRangeType
<1>3. now' \in Time
  <2>1. now \in Int
    BY InvTypes, ClockModAssumption DEF Time
  <2>. QED  BY <1>1, <2>1, PlusType
<1>4. waited' \in [Messages -> 0 .. MaxRetryDelay]
  BY <1>1, <1>2, WaitValue DEF Inv
<1>5. gap' \in 0 .. MaxLoopGap
  BY <1>1, InvTypes, SmsForwarderAssumption
<1>6. TypeOK'
  BY <1>1, <1>3, <1>4, <1>5, InvTypes DEF TypeOK
<1>7. InOrder(queue, arrived)' /\ NoSilentLoss'
  BY <1>1 DEF Inv, InOrder, NoSilentLoss
<1>8. AllRest(queue, waited, now)'
  <2>1. AllRest(queue, Wait(1), Plus(now, 1))
    BY <1>2, TimePasses
  <2>. QED  BY <1>1, <2>1 DEF AllRest, Rests
<1>9. Msgs(queue)' = Msgs(queue)
  BY <1>1 DEF Msgs
<1>. QED  BY <1>1, <1>6, <1>7, <1>8, <1>9 DEF Inv, OutboxStep

LEMMA NextInv ==
  ASSUME Inv, [Next]_vars
  PROVE  Inv' /\ OutboxStep
<1>1. CASE Receive
  BY <1>1, ReceiveInv
<1>2. CASE PollNothing
  BY <1>2, IdleInv, InvTypes DEF PollNothing
<1>3. ASSUME NEW i \in DOMAIN queue, PollUnbuildable(i)
      PROVE  Inv' /\ OutboxStep
  BY <1>3, UnbuildableInv
<1>4. ASSUME NEW i \in DOMAIN queue, NEW d \in 0 .. MaxPostTime, NEW o \in Outcomes,
             PollPost(i, d, o)
      PROVE  Inv' /\ OutboxStep
  BY <1>4, PostInv
<1>5. CASE WifiChanges \/ ConfigChanges \/ UNCHANGED vars
  BY <1>5, IdleInv, InvTypes DEF WifiChanges, ConfigChanges, vars
<1>6. CASE Tick
  BY <1>6, TickInv
<1>. QED  BY <1>1, <1>2, <1>3, <1>4, <1>5, <1>6 DEF Next, ForwarderPoll

-----------------------------------------------------------------------------

LEMMA Invariance == Spec => []Inv
<1>1. Init => Inv
  BY InitInv
<1>2. Inv /\ [Next]_vars => Inv'
  BY NextInv
<1>. QED  BY <1>1, <1>2, PTL DEF Spec

\* The array of SmsQueueCore stays within its capacity and its items, the
\* attempt counts included, within their types.
THEOREM TypeCorrect == Spec => []TypeOK
<1>1. Inv => TypeOK
  BY DEF Inv
<1>. QED  BY <1>1, Invariance, PTL

\* A message that enqueue() took leaves the queue only when the server has
\* taken it: neither markSent() of another item nor any failure drops it.
THEOREM NothingLost == Spec => []NoSilentLoss
<1>1. Inv => NoSilentLoss
  BY DEF Inv
<1>. QED  BY <1>1, Invariance, PTL

\* enqueue(), acquireNext(), markSending(), markSent() and markFailed() as
\* forwarderHttpPoll() calls them implement the outbox: first come, kept in
\* order, pushed twice only for a lost answer.
THEOREM ForwarderIsOutbox == Spec => ImplementsOutbox
<1>1. Init => Inv /\ Promised!Init
  BY InitInv
<1>2. Inv /\ [Next]_vars => Inv' /\ [Promised!Next]_(Promised!vars)
  BY NextInv DEF OutboxStep, Promised!vars, Msgs
<1>. QED  BY <1>1, <1>2, PTL DEF Spec, ImplementsOutbox, Promised!Spec

\* The signed comparison of acquireNext() lets no message be posted again
\* before the delay set at its last failure has really passed, wherever the
\* clock wraps and however long the posts of the others block.
THEOREM RetriesWait == Spec => NoEarlyRetry
<1>1. Inv => [\A i \in DOMAIN queue :
                Attempted(queue[i].msg) => waited[queue[i].msg] >= DelaySet(queue[i])]_vars
  <2>. SUFFICES ASSUME Inv, NEW i \in DOMAIN queue, Attempted(queue[i].msg)
                PROVE  waited[queue[i].msg] >= DelaySet(queue[i])
    OBVIOUS
  <2>1. PICK j \in DOMAIN queue :
          /\ queue[j].msg = queue[i].msg
          /\ \E d \in 0 .. MaxPostTime, o \in Outcomes : PollPost(j, d, o)
    BY DEF Attempted
  <2>2. Due(now, queue[j].nextAttempt)
    BY <2>1 DEF PollPost, IsNext, Ready
  <2>3. j = i
    <3>1. queue \in Seq(Item) /\ arrived \in Nat /\ InOrder(queue, arrived)
      BY InvTypes DEF Inv
    <3>. QED  BY <2>1, <3>1, OneItemEach
  <2>4. /\ queue[i] \in Item /\ waited[queue[i].msg] \in 0 .. MaxRetryDelay
        /\ now \in Time /\ Rests(queue[i], waited[queue[i].msg], now)
    BY InvTypes DEF Inv, AllRest
  <2>. QED  BY <2>2, <2>3, <2>4, RestIsNotDue
<1>. QED  BY <1>1, Invariance, PTL DEF NoEarlyRetry
=============================================================================
