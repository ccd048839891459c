--------------------------- MODULE ModemAtProofs ---------------------------
(***************************************************************************)
(* Theorems about ModemAt, for every set of commands, capacity, timeout    *)
(* and clock width.                                                        *)
(***************************************************************************)
EXTENDS ModemAt, Clock32Proofs, WellFoundedInduction

-----------------------------------------------------------------------------
(* The ring. *)

\* The i-th position of the ring after position h.
LEMMA RingPosition ==
  ASSUME NEW h \in Slots, NEW i \in 0 .. QueueCapacity
  PROVE  (h + i) % QueueCapacity = IF h + i < QueueCapacity THEN h + i ELSE h + i - QueueCapacity
<1>. USE ModemAtCoreAssumption DEF Slots
<1>1. CASE h + i < QueueCapacity
  BY <1>1
<1>2. CASE h + i >= QueueCapacity
  BY <1>2
<1>. QED  BY <1>1, <1>2

\* ... and it is a slot.
LEMMA RingRange ==
  \A h \in Slots, i \in 0 .. QueueCapacity : (h + i) % QueueCapacity \in Slots
  BY RingPosition, ModemAtCoreAssumption DEF Slots

\* Fewer than QueueCapacity steps from h never meet the same position twice.
LEMMA RingInjective ==
  ASSUME NEW h \in Slots, NEW i \in 0 .. QueueCapacity - 1, NEW j \in 0 .. i - 1
  PROVE  (h + i) % QueueCapacity # (h + j) % QueueCapacity
<1>1. /\ (h + i) % QueueCapacity = IF h + i < QueueCapacity THEN h + i ELSE h + i - QueueCapacity
      /\ (h + j) % QueueCapacity = IF h + j < QueueCapacity THEN h + j ELSE h + j - QueueCapacity
  BY RingPosition, ModemAtCoreAssumption
<1>2. QueueCapacity \in Nat /\ h \in 0 .. QueueCapacity - 1
  BY ModemAtCoreAssumption DEF Slots
<1>. QED  BY <1>1, <1>2

\* The position i steps after the next one is i + 1 steps away.
LEMMA RingSuccessor ==
  ASSUME NEW h \in Slots, NEW i \in 0 .. QueueCapacity - 1
  PROVE  (((h + 1) % QueueCapacity) + i) % QueueCapacity = (h + (i + 1)) % QueueCapacity
<1>. DEFINE k == (h + 1) % QueueCapacity
<1>0. QueueCapacity \in Nat \ {0} /\ h \in 0 .. QueueCapacity - 1
  BY ModemAtCoreAssumption DEF Slots
<1>1. k = (IF h + 1 < QueueCapacity THEN h + 1 ELSE h + 1 - QueueCapacity) /\ k \in Slots
  BY <1>0, RingPosition, RingRange
<1>. HIDE DEF k
<1>2. (k + i) % QueueCapacity = IF k + i < QueueCapacity THEN k + i ELSE k + i - QueueCapacity
  BY <1>0, <1>1, RingPosition
<1>3. (h + (i + 1)) % QueueCapacity =
        IF h + (i + 1) < QueueCapacity THEN h + (i + 1) ELSE h + (i + 1) - QueueCapacity
  BY <1>0, RingPosition
<1>4. (k + i) % QueueCapacity = (h + (i + 1)) % QueueCapacity
  <2>1. CASE h + 1 < QueueCapacity
    <3>1. k + i = h + (i + 1)
      BY <1>0, <1>1, <2>1
    <3>. QED  BY <3>1
  <2>2. CASE h + 1 = QueueCapacity
    BY <1>0, <1>1, <1>2, <1>3, <2>2
  <2>. QED  BY <1>0, <2>1, <2>2
<1>. QED  BY <1>4 DEF k

\* The next slot is a slot.
LEMMA NextSlotType == \A h \in Slots : NextSlot(h) \in Slots
  BY RingPosition, ModemAtCoreAssumption DEF NextSlot, Slots

\* submit() keeps the types of the fields,
LEMMA SubmitType ==
  ASSUME NEW a \in AtRecord, NEW c \in Commands
  PROVE  Submit(a, c) \in AtRecord
<1>1. CASE ~Accepts(a)
  BY <1>1 DEF Submit
<1>2. CASE Accepts(a)
  <2>. DEFINE q == [a.queue EXCEPT ![Slot(a, a.count)] = c]
  <2>1. q \in [Slots -> Commands \cup {NoCommand}]
    BY DEF AtRecord
  <2>2. a.count + 1 \in 0 .. QueueCapacity
    BY <1>2, ModemAtCoreAssumption DEF Accepts, AtRecord
  <2>3. Submit(a, c) = [a EXCEPT !.queue = q, !.count = a.count + 1]
    BY <1>2 DEF Submit, AtRecord
  <2>. HIDE DEF q
  <2>. QED  BY <2>1, <2>2, <2>3 DEF AtRecord
<1>. QED  BY <1>1, <1>2

\* ... startNextCommand(), with a command in the slot it takes,
LEMMA StartType ==
  ASSUME NEW a \in AtRecord, NEW n \in Time,
         Starts(a) => a.queue[a.head] \in Commands
  PROVE  StartNextCommand(a, n) \in AtRecord
<1>1. CASE ~Starts(a)
  BY <1>1 DEF StartNextCommand
<1>2. CASE Starts(a)
  <2>. DEFINE c == a.queue[a.head]
  <2>1. c \in Commands /\ TimeoutMs[c] \in Int /\ n \in Int
    BY <1>2, ModemAtCoreAssumption DEF Time, HalfRange
  <2>2. Plus(n, TimeoutMs[c]) \in Time
    BY <2>1, PlusType
  <2>3. NextSlot(a.head) \in Slots
    BY NextSlotType DEF AtRecord
  <2>4. a.count - 1 \in 0 .. QueueCapacity
    BY <1>2, ModemAtCoreAssumption DEF Starts, AtRecord
  <2>5. StartNextCommand(a, n) =
          [a EXCEPT !.current = c, !.head = NextSlot(a.head), !.count = a.count - 1,
                    !.hasCurrent = TRUE, !.deadline = Plus(n, TimeoutMs[c]),
                    !.response = <<>>]
    BY <1>2 DEF StartNextCommand, AtRecord
  <2>6. <<>> \in Seq(Line)
    OBVIOUS
  <2>. HIDE DEF c
  <2>. QED  BY <2>1, <2>2, <2>3, <2>4, <2>5, <2>6 DEF AtRecord
<1>. QED  BY <1>1, <1>2

\* ... and handleLine().
LEMMA HandleLineType ==
  ASSUME NEW a \in AtRecord, NEW line \in Line
  PROVE  HandleLine(a, line) \in AtRecord
<1>. DEFINE aw == IF Ignored(line) THEN a.awaitingCmtPdu
                  ELSE ~a.awaitingCmtPdu /\ line.kind = "CMT"
            re == IF Appends(a, line) THEN AppendResponseLine(a.response, line)
                  ELSE a.response
            hc == a.hasCurrent /\ ~Completes(a, line)
<1>1. aw \in BOOLEAN
  BY DEF AtRecord
<1>2. re \in Seq(Line)
  BY DEF AtRecord, AppendResponseLine
<1>3. hc \in BOOLEAN
  BY DEF AtRecord
<1>4. HandleLine(a, line) =
        [a EXCEPT !.awaitingCmtPdu = aw, !.response = re, !.hasCurrent = hc]
  BY DEF HandleLine, AtRecord
<1>. HIDE DEF aw, re, hc
<1>. QED  BY <1>1, <1>2, <1>3, <1>4 DEF AtRecord

-----------------------------------------------------------------------------
(* The ring, the current command and the three histories agree.            *)

RingHolds(a, acc, wr, com) ==
  /\ Len(acc) = Len(wr) + a.count
  /\ Len(wr) = Len(com) + (IF a.hasCurrent THEN 1 ELSE 0)
  /\ a.hasCurrent => a.current = wr[Len(wr)]
  /\ \A i \in 0 .. a.count - 1 : a.queue[Slot(a, i)] = acc[Len(wr) + 1 + i]

\* submit() stores the new command after the waiting ones.
LEMMA SubmitRing ==
  ASSUME NEW a \in AtRecord, NEW acc \in Seq(Commands), NEW wr \in Seq(Commands),
         NEW com \in Seq(Commands \X Results), NEW c \in Commands,
         RingHolds(a, acc, wr, com), Accepts(a)
  PROVE  RingHolds(Submit(a, c), Append(acc, c), wr, com)
<1>. DEFINE b == Submit(a, c)
<1>1. /\ b.head = a.head /\ b.count = a.count + 1 /\ b.hasCurrent = a.hasCurrent
      /\ b.current = a.current
      /\ b.queue = [a.queue EXCEPT ![Slot(a, a.count)] = c]
  BY DEF Submit, AtRecord
<1>. HIDE DEF b
<1>2. /\ a.count \in 0 .. QueueCapacity - 1 /\ a.head \in Slots /\ QueueCapacity \in Nat
      /\ a.queue \in [Slots -> Commands \cup {NoCommand}]
  BY ModemAtCoreAssumption DEF Accepts, AtRecord
<1>3. Len(Append(acc, c)) = Len(acc) + 1 /\ Append(acc, c)[Len(acc) + 1] = c
  OBVIOUS
<1>4. Len(acc) = Len(wr) + a.count /\ Len(wr) \in Nat
  BY DEF RingHolds
<1>5. ASSUME NEW i \in 0 .. b.count - 1
      PROVE  b.queue[Slot(b, i)] = Append(acc, c)[Len(wr) + 1 + i]
  <2>1. i \in 0 .. a.count /\ i \in 0 .. QueueCapacity
    BY <1>1, <1>2
  <2>2. Slot(b, i) = Slot(a, i)
    BY <1>1 DEF Slot
  <2>3. Slot(a, i) \in Slots /\ Slot(a, a.count) \in Slots
    BY <1>2, <2>1, RingRange DEF Slot
  <2>4. CASE i = a.count
    <3>1. b.queue[Slot(b, i)] = c
      BY <1>1, <1>2, <2>2, <2>3, <2>4
    <3>2. Len(wr) + 1 + i = Len(acc) + 1
      BY <1>2, <1>4, <2>1, <2>4
    <3>. QED  BY <1>3, <3>1, <3>2
  <2>5. CASE i \in 0 .. a.count - 1
    <3>1. Slot(a, i) # Slot(a, a.count)
      BY <1>2, <2>5, RingInjective DEF Slot
    <3>2. b.queue[Slot(b, i)] = a.queue[Slot(a, i)]
      BY <1>1, <1>2, <2>2, <2>3, <3>1
    <3>3. Append(acc, c)[Len(wr) + 1 + i] = acc[Len(wr) + 1 + i]
      BY <1>2, <1>4, <2>5
    <3>. QED  BY <2>5, <3>2, <3>3 DEF RingHolds
  <2>6. i = a.count \/ i \in 0 .. a.count - 1
    BY <1>2, <2>1
  <2>. QED  BY <2>4, <2>5, <2>6
<1>6. /\ Len(Append(acc, c)) = Len(wr) + b.count
      /\ Len(wr) = Len(com) + (IF b.hasCurrent THEN 1 ELSE 0)
      /\ b.hasCurrent => b.current = wr[Len(wr)]
  BY <1>1, <1>2, <1>3, <1>4 DEF RingHolds
<1>. QED  BY <1>5, <1>6 DEF RingHolds, b

\* startNextCommand() takes the oldest waiting command.
LEMMA StartRing ==
  ASSUME NEW a \in AtRecord, NEW acc \in Seq(Commands), NEW wr \in Seq(Commands),
         NEW com \in Seq(Commands \X Results), NEW n \in Time,
         RingHolds(a, acc, wr, com), Starts(a)
  PROVE  /\ a.queue[a.head] = acc[Len(wr) + 1]
         /\ a.queue[a.head] \in Commands
         /\ RingHolds(StartNextCommand(a, n), acc, Append(wr, a.queue[a.head]), com)
<1>. DEFINE b == StartNextCommand(a, n)
            c == a.queue[a.head]
            w == Append(wr, c)
<1>1. /\ b.head = NextSlot(a.head) /\ b.count = a.count - 1 /\ b.hasCurrent = TRUE
      /\ b.current = c /\ b.queue = a.queue
  BY DEF StartNextCommand, AtRecord
<1>. HIDE DEF b
<1>2. /\ a.count \in 1 .. QueueCapacity /\ a.head \in Slots /\ a.hasCurrent = FALSE
      /\ QueueCapacity \in Nat
  BY ModemAtCoreAssumption DEF Starts, AtRecord
<1>3. Len(acc) = Len(wr) + a.count /\ Len(wr) = Len(com)
  BY <1>2 DEF RingHolds
<1>4. c = acc[Len(wr) + 1]
  <2>1. Slot(a, 0) = a.head
    BY <1>2, RingPosition, ModemAtCoreAssumption DEF Slot, Slots
  <2>2. 0 \in 0 .. a.count - 1
    BY <1>2
  <2>3. a.queue[Slot(a, 0)] = acc[Len(wr) + 1 + 0]
    BY <2>2 DEF RingHolds
  <2>. QED  BY <2>1, <2>3
<1>5. c \in Commands
  <2>1. Len(wr) + 1 \in 1 .. Len(acc)
    BY <1>2, <1>3
  <2>. QED  BY <1>4, <2>1
<1>. HIDE DEF c
<1>6. Len(w) = Len(wr) + 1 /\ w[Len(w)] = c
  BY <1>5
<1>. HIDE DEF w
<1>7. ASSUME NEW i \in 0 .. b.count - 1
      PROVE  b.queue[Slot(b, i)] = acc[Len(w) + 1 + i]
  <2>1. i \in 0 .. QueueCapacity - 1 /\ i + 1 \in 0 .. a.count - 1
    BY <1>1, <1>2
  <2>2. Slot(b, i) = Slot(a, i + 1)
    BY <1>1, <1>2, <2>1, RingSuccessor DEF Slot, NextSlot
  <2>3. a.queue[Slot(a, i + 1)] = acc[Len(wr) + 1 + (i + 1)]
    BY <2>1 DEF RingHolds
  <2>4. Len(wr) + 1 + (i + 1) = Len(w) + 1 + i
    BY <1>6
  <2>. QED  BY <1>1, <2>2, <2>3, <2>4
<1>8. /\ Len(acc) = Len(w) + b.count
      /\ Len(w) = Len(com) + (IF b.hasCurrent THEN 1 ELSE 0)
      /\ b.hasCurrent => b.current = w[Len(w)]
  BY <1>1, <1>2, <1>3, <1>6, SMTT(30)
<1>9. RingHolds(b, acc, w, com)
  BY <1>7, <1>8 DEF RingHolds
<1>. QED  BY <1>4, <1>5, <1>9 DEF b, c, w

\* Everything that does not touch the ring leaves it right.
LEMMA SameRing ==
  ASSUME NEW a, NEW b, NEW acc, NEW wr, NEW com,
         RingHolds(a, acc, wr, com),
         b.queue = a.queue, b.head = a.head, b.count = a.count,
         b.hasCurrent = a.hasCurrent, b.current = a.current
  PROVE  RingHolds(b, acc, wr, com)
  BY DEF RingHolds, Slot

\* finishCurrent() calls back for the last command written, once.
LEMMA FinishRing ==
  ASSUME NEW a \in AtRecord, NEW b \in AtRecord, NEW acc \in Seq(Commands),
         NEW wr \in Seq(Commands), NEW com \in Seq(Commands \X Results),
         NEW r \in Results, RingHolds(a, acc, wr, com), a.hasCurrent = TRUE,
         b.queue = a.queue, b.head = a.head, b.count = a.count, b.hasCurrent = FALSE
  PROVE  /\ Len(wr) > Len(com)
         /\ a.current \in Commands
         /\ a.current = wr[Len(wr)]
         /\ Append(com, <<a.current, r>>) \in Seq(Commands \X Results)
         /\ RingHolds(b, acc, wr, Append(com, <<a.current, r>>))
<1>1. Len(wr) = Len(com) + 1 /\ a.current = wr[Len(wr)] /\ Len(acc) = Len(wr) + a.count
  BY DEF RingHolds
<1>2. a.current \in Commands
  BY <1>1
<1>3. /\ Append(com, <<a.current, r>>) \in Seq(Commands \X Results)
      /\ Len(Append(com, <<a.current, r>>)) = Len(com) + 1
  BY <1>2
<1>4. \A i \in 0 .. b.count - 1 : b.queue[Slot(b, i)] = acc[Len(wr) + 1 + i]
  BY DEF RingHolds, Slot
<1>5. RingHolds(b, acc, wr, Append(com, <<a.current, r>>))
  BY <1>1, <1>3, <1>4 DEF RingHolds
<1>. QED  BY <1>1, <1>2, <1>3, <1>5

\* What a callback or a task submits is appended, or refused and forgotten.
LEMMA SubmissionRing ==
  ASSUME NEW a \in AtRecord, NEW acc \in Seq(Commands), NEW wr \in Seq(Commands),
         NEW com \in Seq(Commands \X Results), NEW s \in Submissions,
         RingHolds(a, acc, wr, com)
  PROVE  /\ SubmitAll(a, s) \in AtRecord
         /\ SubmitAll(a, s).hasCurrent = a.hasCurrent
         /\ Taken(a, acc, s) \in Seq(Commands)
         /\ RingHolds(SubmitAll(a, s), Taken(a, acc, s), wr, com)
         /\ \/ Taken(a, acc, s) = acc
            \/ /\ Len(acc) - Len(wr) < QueueCapacity
               /\ \E c \in Commands : Taken(a, acc, s) = Append(acc, c)
<1>1. CASE s = <<>>
  BY <1>1 DEF SubmitAll, Taken
<1>2. CASE s # <<>>
  <2>0. PICK c \in Commands : s = <<c>>
    BY <1>2 DEF Submissions
  <2>1. s # <<>> /\ s[1] = c
    BY <2>0
  <2>2. SubmitAll(a, s) = Submit(a, c) /\ Submit(a, c) \in AtRecord
    BY <2>1, SubmitType DEF SubmitAll
  <2>3. Submit(a, c).hasCurrent = a.hasCurrent
    BY DEF Submit, AtRecord
  <2>4. CASE ~Accepts(a)
    <3>1. Submit(a, c) = a /\ Taken(a, acc, s) = acc
      BY <2>4 DEF Submit, Taken
    <3>. QED  BY <2>2, <2>3, <3>1
  <2>5. CASE Accepts(a)
    <3>1. Taken(a, acc, s) = Append(acc, c) /\ Append(acc, c) \in Seq(Commands)
      BY <2>1, <2>5 DEF Taken
    <3>2. RingHolds(Submit(a, c), Append(acc, c), wr, com)
      BY <2>5, SubmitRing
    <3>3. Len(acc) - Len(wr) < QueueCapacity
      <4>1. Len(acc) = Len(wr) + a.count /\ a.count < QueueCapacity /\ a.count \in Int
        BY <2>5 DEF RingHolds, Accepts, AtRecord
      <4>. QED  BY <4>1, ModemAtCoreAssumption
    <3>. QED  BY <2>2, <2>3, <3>1, <3>2, <3>3
  <2>. QED  BY <2>4, <2>5
<1>. QED  BY <1>1, <1>2

-----------------------------------------------------------------------------
(* The specification. *)

RingInv == RingHolds(at, accepted, written, completed)

AtQueueStep == [AtQueue!Next]_<<accepted, written, completed>>

\* The channel starts empty.
LEMMA InitStep ==
  ASSUME Init
  PROVE  TypeOK /\ RingInv /\ AtQueue!Init
<1>1. now \in Time
  BY ModemAtAssumption DEF Init
<1>2. at \in AtRecord /\ at.count = 0 /\ at.hasCurrent = FALSE /\ at.response = <<>>
  <2>1. /\ [i \in Slots |-> NoCommand] \in [Slots -> Commands \cup {NoCommand}]
        /\ 0 \in Slots /\ 0 \in 0 .. QueueCapacity /\ <<>> \in Seq(Line)
    BY ModemAtCoreAssumption DEF Slots
  <2>2. at = AtBegin(now)
    BY DEF Init
  <2>. QED  BY <1>1, <2>1, <2>2 DEF AtBegin, AtRecord
<1>3. TypeOK
  BY <1>1, <1>2, ModemAtCoreAssumption DEF Init, TypeOK, Pcs
<1>4. RingInv
  BY <1>2 DEF Init, RingInv, RingHolds
<1>. QED  BY <1>3, <1>4 DEF Init, AtQueue!Init

\* A task's submission is one of the queue, or refused.
LEMMA SubmitTaskStep ==
  ASSUME TypeOK, RingInv, NEW c \in Commands, SubmitTask(c)
  PROVE  TypeOK' /\ RingInv' /\ AtQueueStep
<1>. DEFINE s == <<c>>
<1>1. s \in Submissions /\ SubmitAll(at, s) = Submit(at, c)
  BY DEF Submissions, SubmitAll
<1>2. at' = SubmitAll(at, s) /\ accepted' = Taken(at, accepted, s)
  BY <1>1 DEF SubmitTask, Record
<1>. HIDE DEF s
<1>3. /\ at' \in AtRecord /\ accepted' \in Seq(Commands)
      /\ RingHolds(at', accepted', written, completed)
      /\ \/ accepted' = accepted
         \/ /\ Len(accepted) - Len(written) < QueueCapacity
            /\ \E d \in Commands : accepted' = Append(accepted, d)
  BY <1>1, <1>2, SubmissionRing, SMTT(30) DEF TypeOK, RingInv
<1>4. Len(at'.response) <= ResponseCapacity
  BY <1>1, <1>2 DEF Submit, TypeOK, AtRecord
<1>5. UNCHANGED <<written, completed, answers, modemVars, clockVars, pc, rx, delivered>>
  BY DEF SubmitTask
<1>6. TypeOK'
  BY <1>3, <1>4, <1>5 DEF TypeOK, modemVars, clockVars
<1>7. RingInv'
  BY <1>3, <1>5 DEF RingInv
<1>8. AtQueueStep
  BY <1>3, <1>5 DEF AtQueueStep, AtQueue!Next, AtQueue!Submit, AtQueue!Waiting
<1>. QED  BY <1>6, <1>7, <1>8

\* A response never outgrows its buffer.
LEMMA ResponseBound ==
  ASSUME NEW response \in Seq(Line), NEW line, Len(response) <= ResponseCapacity
  PROVE  Len(AppendResponseLine(response, line)) <= ResponseCapacity
  BY ModemAtCoreAssumption DEF AppendResponseLine

\* Reading a line is a step of the queue only when it finishes a command.
LEMMA ReadLineStep ==
  ASSUME TypeOK, RingInv, ReadLine
  PROVE  TypeOK' /\ RingInv' /\ AtQueueStep
<1>. DEFINE line == Head(rx)
            a    == HandleLine(at, line)
<1>1. rx \in Seq(Line) /\ rx # <<>> /\ at \in AtRecord
  BY DEF ReadLine, TypeOK
<1>2. line \in Line /\ Tail(rx) \in Seq(Line)
  BY <1>1
<1>3. a \in AtRecord
  BY <1>1, <1>2, HandleLineType
<1>4. /\ a.queue = at.queue /\ a.head = at.head /\ a.count = at.count
      /\ a.current = at.current
      /\ a.hasCurrent = (at.hasCurrent /\ ~Completes(at, line))
      /\ a.response = IF Appends(at, line) THEN AppendResponseLine(at.response, line)
                                           ELSE at.response
  BY <1>1 DEF HandleLine, AtRecord
<1>5. Len(a.response) <= ResponseCapacity
  BY <1>1, <1>4, ResponseBound DEF TypeOK, AtRecord
<1>6. /\ rx' = Tail(rx)
      /\ delivered' = Append(delivered, line) \/ delivered' = delivered
      /\ UNCHANGED <<written, modemVars, clockVars, pc>>
  BY DEF ReadLine
<1>7. delivered' \in Seq(Line)
  <2>. HIDE DEF line
  <2>1. delivered \in Seq(Line)
    BY DEF TypeOK
  <2>2. Append(delivered, line) \in Seq(Line)
    BY <1>2, <2>1
  <2>. QED  BY <1>6, <2>1, <2>2
<1>8. CASE ~Completes(at, line)
  <2>1. at' = a /\ UNCHANGED <<completed, answers, accepted>>
    BY <1>8 DEF ReadLine
  <2>. HIDE DEF a, line
  <2>2. RingInv'
    BY <1>1, <1>4, <1>6, <1>8, <2>1, SameRing DEF RingInv, AtRecord
  <2>3. TypeOK'
    BY <1>2, <1>3, <1>5, <1>6, <1>7, <2>1 DEF TypeOK, modemVars, clockVars
  <2>4. AtQueueStep
    BY <1>6, <2>1 DEF AtQueueStep
  <2>. QED  BY <2>2, <2>3, <2>4
<1>9. CASE Completes(at, line)
  <2>. DEFINE r == IF line.kind = "OK" THEN "Ok" ELSE "Error"
              com == Append(completed, <<at.current, r>>)
  <2>1. PICK s \in Submissions : at' = SubmitAll(a, s) /\ accepted' = Taken(a, accepted, s)
    BY <1>9 DEF ReadLine, Record
  <2>2. /\ completed' = com
        /\ answers' = Append(answers, [response |-> a.response, by |-> line.tag])
    BY <1>9 DEF ReadLine, RecordCompletion
  <2>3. at.hasCurrent = TRUE /\ a.hasCurrent = FALSE
    BY <1>1, <1>4, <1>9 DEF Completes, AtRecord
  <2>4. r \in Results
    BY DEF Results
  <2>. HIDE DEF a, line, r
  <2>5. /\ Len(written) > Len(completed) /\ at.current = written[Len(written)]
        /\ com \in Seq(Commands \X Results)
        /\ RingHolds(a, accepted, written, com)
    BY <1>1, <1>3, <1>4, <2>3, <2>4, FinishRing DEF TypeOK, RingInv
  <2>. HIDE DEF com
  <2>6. /\ at' \in AtRecord /\ accepted' \in Seq(Commands)
        /\ RingHolds(at', accepted', written, com)
        /\ \/ accepted' = accepted
           \/ /\ Len(accepted) - Len(written) < QueueCapacity
              /\ \E c \in Commands : accepted' = Append(accepted, c)
    <3>1. accepted \in Seq(Commands) /\ written \in Seq(Commands)
      BY DEF TypeOK
    <3>2. /\ SubmitAll(a, s) \in AtRecord
          /\ Taken(a, accepted, s) \in Seq(Commands)
          /\ RingHolds(SubmitAll(a, s), Taken(a, accepted, s), written, com)
          /\ \/ Taken(a, accepted, s) = accepted
             \/ /\ Len(accepted) - Len(written) < QueueCapacity
                /\ \E c \in Commands : Taken(a, accepted, s) = Append(accepted, c)
      BY <1>3, <2>1, <2>5, <3>1, SubmissionRing
    <3>. QED  BY <2>1, <3>2
  <2>7. at'.response = a.response
    BY <1>3, <2>1 DEF SubmitAll, Submit, AtRecord
  <2>8. answers' \in Seq([response : Seq(Line), by : Nat])
    BY <1>2, <1>3, <2>2 DEF TypeOK, AtRecord, Line
  <2>9. TypeOK'
    BY <1>2, <1>5, <1>6, <1>7, <2>2, <2>5, <2>6, <2>7, <2>8 DEF TypeOK, modemVars, clockVars
  <2>10. RingInv'
    BY <1>6, <2>2, <2>6 DEF RingInv
  <2>11. AtQueue!Complete(r)
    BY <1>6, <2>2, <2>5, <2>6
       DEF AtQueue!Complete, AtQueue!Outstanding, AtQueue!Waiting, com
  <2>12. AtQueueStep
    BY <2>4, <2>11 DEF AtQueueStep, AtQueue!Next, AtQueue!Results, Results
  <2>. QED  BY <2>9, <2>10, <2>12
<1>. QED  BY <1>8, <1>9

\* The tail of poll(): from a channel with the callback's submission in it.
LEMMA PollStart ==
  ASSUME NEW a \in AtRecord, NEW acc \in Seq(Commands), NEW com \in Seq(Commands \X Results),
         NEW wr \in Seq(Commands), NEW n \in Time, RingHolds(a, acc, wr, com),
         Len(a.response) <= ResponseCapacity
  PROVE  /\ StartNextCommand(a, n) \in AtRecord
         /\ Len(StartNextCommand(a, n).response) <= ResponseCapacity
         /\ Sent(a, wr) \in Seq(Commands)
         /\ RingHolds(StartNextCommand(a, n), acc, Sent(a, wr), com)
         /\ \/ Sent(a, wr) = wr
            \/ /\ a.hasCurrent = FALSE
               /\ Len(acc) > Len(wr)
               /\ Sent(a, wr) = Append(wr, acc[Len(wr) + 1])
<1>1. CASE ~Starts(a)
  BY <1>1 DEF StartNextCommand, Sent
<1>2. CASE Starts(a)
  <2>. DEFINE c == a.queue[a.head]
              b == StartNextCommand(a, n)
  <2>1. c = acc[Len(wr) + 1] /\ c \in Commands /\ RingHolds(b, acc, Append(wr, c), com)
    BY <1>2, StartRing
  <2>2. b \in AtRecord
    BY <2>1, StartType
  <2>3. b.response = <<>>
    BY <1>2 DEF StartNextCommand, AtRecord
  <2>4. a.hasCurrent = FALSE /\ a.count > 0 /\ a.count \in Int /\ Len(acc) = Len(wr) + a.count
    BY <1>2 DEF Starts, AtRecord, RingHolds
  <2>. HIDE DEF b, c
  <2>5. Len(b.response) <= ResponseCapacity
    BY <2>3, ModemAtCoreAssumption
  <2>6. Append(wr, c) \in Seq(Commands) /\ Len(acc) > Len(wr)
    BY <2>1, <2>4
  <2>7. Sent(a, wr) = Append(wr, c)
    BY <1>2 DEF Sent, c
  <2>. QED  BY <2>1, <2>2, <2>4, <2>5, <2>6, <2>7 DEF b
<1>. QED  BY <1>1, <1>2

\* poll() completes a command, writes one, or both.
LEMMA PollStep ==
  ASSUME TypeOK, RingInv, Poll
  PROVE  TypeOK' /\ RingInv' /\ AtQueueStep
<1>. DEFINE fin == IF Expired(at, now) THEN Finish(at) ELSE at
            com == IF Expired(at, now) THEN Append(completed, <<at.current, "Timeout">>)
                   ELSE completed
<1>0. /\ at \in AtRecord /\ now \in Time /\ accepted \in Seq(Commands)
      /\ written \in Seq(Commands) /\ completed \in Seq(Commands \X Results)
      /\ RingHolds(at, accepted, written, completed)
  BY DEF TypeOK, RingInv
<1>1. PICK s \in Submissions :
        /\ s # <<>> => Expired(at, now)
        /\ accepted' = Taken(fin, accepted, s)
        /\ at' = StartNextCommand(SubmitAll(fin, s), now)
        /\ written' = Sent(SubmitAll(fin, s), written)
        /\ age' = IF Starts(SubmitAll(fin, s)) THEN 0 ELSE age
  BY DEF Poll, Record
<1>2. /\ pc' = "tasks" /\ gap' = 0 /\ UNCHANGED <<modemVars, now, rx, delivered>>
      /\ completed' = com
      /\ \/ answers' = answers
         \/ answers' = Append(answers, [response |-> at.response, by |-> 0])
  BY DEF Poll, RecordCompletion
<1>3. /\ fin \in AtRecord /\ com \in Seq(Commands \X Results) /\ fin.response = at.response
      /\ RingHolds(fin, accepted, written, com)
      /\ Expired(at, now) => /\ Len(written) > Len(completed)
                             /\ at.current = written[Len(written)]
                             /\ fin.hasCurrent = FALSE
  <2>1. CASE ~Expired(at, now)
    BY <1>0, <2>1
  <2>2. CASE Expired(at, now)
    <3>1. at.hasCurrent = TRUE /\ fin = Finish(at)
      BY <1>0, <2>2 DEF Expired, AtRecord
    <3>2. /\ fin \in AtRecord /\ fin.queue = at.queue /\ fin.head = at.head
          /\ fin.count = at.count /\ fin.hasCurrent = FALSE /\ fin.response = at.response
      BY <1>0, <3>1 DEF Finish, AtRecord
    <3>3. "Timeout" \in Results
      BY DEF Results
    <3>. QED  BY <1>0, <2>2, <3>1, <3>2, <3>3, FinishRing
  <2>. QED  BY <2>1, <2>2
<1>. HIDE DEF fin, com
<1>. DEFINE a   == SubmitAll(fin, s)
            acc == Taken(fin, accepted, s)
<1>4. /\ a \in AtRecord /\ acc \in Seq(Commands) /\ a.hasCurrent = fin.hasCurrent
      /\ RingHolds(a, acc, written, com)
      /\ \/ acc = accepted
         \/ /\ Len(accepted) - Len(written) < QueueCapacity
            /\ \E c \in Commands : acc = Append(accepted, c)
  BY <1>0, <1>1, <1>3, SubmissionRing
<1>5. Len(a.response) <= ResponseCapacity
  BY <1>3 DEF SubmitAll, Submit, AtRecord, TypeOK
<1>6. s = <<>> => a = fin /\ acc = accepted
  BY DEF SubmitAll, Taken
<1>7. at' = StartNextCommand(a, now) /\ accepted' = acc
  BY <1>1
<1>8. /\ written' = Sent(a, written)
      /\ age' \in Nat
  BY <1>1 DEF TypeOK
<1>. HIDE DEF a, acc
<1>9. /\ at' \in AtRecord
      /\ Len(at'.response) <= ResponseCapacity
      /\ written' \in Seq(Commands)
      /\ RingHolds(at', accepted', written', com)
      /\ \/ written' = written
         \/ /\ a.hasCurrent = FALSE
            /\ Len(acc) > Len(written)
            /\ written' = Append(written, acc[Len(written) + 1])
  <2>1. /\ StartNextCommand(a, now) \in AtRecord
        /\ Len(StartNextCommand(a, now).response) <= ResponseCapacity
        /\ Sent(a, written) \in Seq(Commands)
        /\ RingHolds(StartNextCommand(a, now), acc, Sent(a, written), com)
        /\ \/ Sent(a, written) = written
           \/ /\ a.hasCurrent = FALSE
              /\ Len(acc) > Len(written)
              /\ Sent(a, written) = Append(written, acc[Len(written) + 1])
    <3>1. /\ a \in AtRecord /\ acc \in Seq(Commands) /\ com \in Seq(Commands \X Results)
          /\ written \in Seq(Commands) /\ now \in Time /\ RingHolds(a, acc, written, com)
          /\ Len(a.response) <= ResponseCapacity
      BY <1>0, <1>3, <1>4, <1>5
    <3>. QED  BY <3>1, PollStart, ZenonT(40)
  <2>. QED  BY <1>7, <1>8, <2>1
<1>10. RingInv'
  BY <1>2, <1>9 DEF RingInv
<1>11. TypeOK'
  <2>1. answers' \in Seq([response : Seq(Line), by : Nat])
    <3>. DEFINE Answer == [response : Seq(Line), by : Nat]
                x == [response |-> at.response, by |-> 0]
    <3>1. x \in Answer /\ answers \in Seq(Answer)
      BY <1>0 DEF AtRecord, TypeOK
    <3>2. answers' = answers \/ answers' = Append(answers, x)
      BY <1>2
    <3>3. ASSUME answers' \in Seq(Answer)  PROVE answers' \in Seq([response : Seq(Line), by : Nat])
      BY <3>3
    <3>. HIDE DEF Answer, x
    <3>4. answers' \in Seq(Answer)
      BY <3>1, <3>2
    <3>. QED  BY <3>3, <3>4
  <2>2. accepted' \in Seq(Commands) /\ completed' \in Seq(Commands \X Results)
    BY <1>2, <1>3, <1>4, <1>7
  <2>. QED  BY <1>2, <1>8, <1>9, <2>1, <2>2 DEF TypeOK, modemVars, Pcs
<1>12. AtQueueStep
  <2>1. CASE Expired(at, now)
    <3>1. completed' = Append(completed, <<written[Len(written)], "Timeout">>)
      BY <1>2, <1>3, <2>1 DEF com
    <3>2. AtQueue!Outstanding
      BY <1>3, <2>1 DEF AtQueue!Outstanding
    <3>3. AtQueue!Complete("Timeout")
      BY <1>4, <1>7, <1>9, <3>1, <3>2 DEF AtQueue!Complete, AtQueue!Waiting
    <3>. QED  BY <3>3 DEF AtQueueStep, AtQueue!Next, AtQueue!Results
  <2>2. CASE ~Expired(at, now)
    <3>1. /\ completed' = completed /\ acc = accepted /\ accepted' = accepted
          /\ a = fin /\ com = completed
      BY <1>1, <1>2, <1>6, <1>7, <2>2 DEF com
    <3>2. Len(written) = Len(completed) + (IF a.hasCurrent THEN 1 ELSE 0)
      BY <1>3, <3>1 DEF RingHolds
    <3>3. CASE written' = written
      BY <3>1, <3>3 DEF AtQueueStep
    <3>4. CASE written' # written
      <4>1. /\ a.hasCurrent = FALSE /\ Len(accepted) > Len(written)
            /\ written' = Append(written, accepted[Len(written) + 1])
        BY <1>9, <3>1, <3>4
      <4>2. ~AtQueue!Outstanding /\ AtQueue!Waiting > 0
        BY <1>0, <3>2, <4>1 DEF AtQueue!Outstanding, AtQueue!Waiting
      <4>3. AtQueue!Write
        BY <3>1, <4>1, <4>2 DEF AtQueue!Write
      <4>. QED  BY <4>3 DEF AtQueueStep, AtQueue!Next
    <3>. QED  BY <3>3, <3>4
  <2>. QED  BY <2>1, <2>2
<1>. QED  BY <1>10, <1>11, <1>12

\* loop() going round, the modem, the UART and the clock leave the channel
\* and its histories alone.
LEMMA EnvironmentStep ==
  ASSUME TypeOK, RingInv,
         Drained \/ TurnEnds \/ Modem \/ LoseLine \/ Tick \/ UNCHANGED vars
  PROVE  TypeOK' /\ RingInv' /\ AtQueueStep
<1>1. UNCHANGED atVars
  BY DEF Drained, TurnEnds, Modem, ModemData, ModemFinal, ModemSilent, ModemReport,
         LoseLine, Tick, vars
<1>2. RingInv' /\ AtQueueStep
  BY <1>1 DEF RingInv, AtQueueStep, atVars
<1>3. /\ at \in AtRecord /\ Len(at.response) <= ResponseCapacity
      /\ accepted \in Seq(Commands) /\ written \in Seq(Commands)
      /\ completed \in Seq(Commands \X Results)
      /\ answers \in Seq([response : Seq(Line), by : Nat])
  BY DEF TypeOK
<1>4. \A kind \in Kinds, tag \in Nat : L(kind, tag) \in Line
  BY DEF L, Line
<1>5. CASE Drained \/ TurnEnds \/ UNCHANGED vars
  BY <1>1, <1>2, <1>3, <1>5
     DEF Drained, TurnEnds, vars, atVars, modemVars, clockVars, TypeOK, Pcs
<1>6. CASE ModemData
  <2>1. PICK kind \in Kinds : rx' = rx \o <<L("blank", 0), L(kind, answered + 1)>>
    BY <1>6 DEF ModemData, Kinds
  <2>2. L("blank", 0) \in Line /\ L(kind, answered + 1) \in Line
    BY <1>4 DEF Kinds, TypeOK
  <2>. DEFINE x == L("blank", 0)
              y == L(kind, answered + 1)
  <2>. HIDE DEF x, y
  <2>3. rx' \in Seq(Line)
    BY <2>1, <2>2 DEF TypeOK, x, y
  <2>4. answering' = answering + 1
        /\ UNCHANGED <<answered, reported, clockVars, pc, delivered>>
    BY <1>6 DEF ModemData
  <2>. QED  BY <1>1, <1>2, <1>3, <2>3, <2>4 DEF atVars, clockVars, TypeOK
<1>7. CASE ModemFinal
  <2>1. PICK kind \in Kinds : rx' = Append(rx, L(kind, answered + 1))
    BY <1>7 DEF ModemFinal, Kinds
  <2>2. L(kind, answered + 1) \in Line
    BY <1>4 DEF TypeOK
  <2>3. rx' \in Seq(Line)
    BY <2>1, <2>2 DEF TypeOK
  <2>4. answered' = answered + 1 /\ answering' = 0
        /\ UNCHANGED <<reported, clockVars, pc, delivered>>
    BY <1>7 DEF ModemFinal
  <2>. QED  BY <1>1, <1>2, <1>3, <2>3, <2>4 DEF atVars, clockVars, TypeOK
<1>8. CASE ModemSilent
  BY <1>1, <1>2, <1>3, <1>8 DEF ModemSilent, atVars, clockVars, TypeOK
<1>9. CASE ModemReport
  <2>. DEFINE n == Len(reported) + 1
              Batches == { <<L("CMT", n), L("PDU", n)>>, <<L("CMTI", n)>>,
                           <<L("NOTICE", n)>>, <<L("REG", n)>> }
  <2>1. n \in Nat
    BY DEF TypeOK
  <2>2. PICK lines \in Batches : rx' = rx \o lines /\ reported' = reported \o lines
    BY <1>9 DEF ModemReport
  <2>3. lines \in Seq(Line)
    <3>1. /\ L("CMT", n) \in Line /\ L("PDU", n) \in Line
          /\ L("CMTI", n) \in Line /\ L("NOTICE", n) \in Line /\ L("REG", n) \in Line
      BY <1>4, <2>1 DEF Kinds
    <3>2. CASE lines = <<L("CMT", n), L("PDU", n)>>
      BY <3>1, <3>2
    <3>3. CASE lines = <<L("CMTI", n)>>
      BY <3>1, <3>3
    <3>4. CASE lines = <<L("NOTICE", n)>>
      BY <3>1, <3>4
    <3>5. CASE lines = <<L("REG", n)>>
      BY <3>1, <3>5
    <3>. QED  BY <3>2, <3>3, <3>4, <3>5
  <2>. HIDE DEF Batches
  <2>4. rx' \in Seq(Line) /\ reported' \in Seq(Line)
    BY <2>2, <2>3 DEF TypeOK
  <2>5. UNCHANGED <<answered, answering, clockVars, pc, delivered>>
    BY <1>9 DEF ModemReport
  <2>. QED  BY <1>1, <1>2, <1>3, <2>4, <2>5 DEF atVars, clockVars, TypeOK
<1>10. CASE LoseLine
  <2>1. PICK i \in DOMAIN rx :
          rx' = [j \in 1 .. Len(rx) - 1 |-> IF j < i THEN rx[j] ELSE rx[j + 1]]
    BY <1>10 DEF LoseLine
  <2>2. /\ rx \in Seq(Line) /\ Len(rx) \in Nat /\ i \in 1 .. Len(rx)
        /\ \A j \in 1 .. Len(rx) : rx[j] \in Line
    BY DEF TypeOK
  <2>3. Len(rx) - 1 \in Nat
    BY <2>2
  <2>4. \A j \in 1 .. Len(rx) - 1 : (IF j < i THEN rx[j] ELSE rx[j + 1]) \in Line
    BY <2>2
  <2>5. rx' \in [1 .. Len(rx) - 1 -> Line]
    BY <2>1, <2>4
  <2>6. rx' \in Seq(Line)
    BY <2>3, <2>5
  <2>. QED  BY <1>1, <1>2, <1>3, <1>10, <2>6 DEF LoseLine, atVars, modemVars, clockVars, TypeOK
<1>11. CASE Tick
  <2>1. now' \in Time
    BY <1>11, PlusType DEF Tick, TypeOK, Time
  <2>2. age' \in Nat /\ gap' \in Nat
    BY <1>11 DEF Tick, TypeOK
  <2>. QED  BY <1>1, <1>2, <1>3, <1>11, <2>1, <2>2 DEF Tick, atVars, modemVars, TypeOK
<1>. QED  BY <1>2, <1>5, <1>6, <1>7, <1>8, <1>9, <1>10, <1>11 DEF Modem

\* Every step keeps the types and the ring, and is a step of the queue or none.
LEMMA NextStep ==
  ASSUME TypeOK, RingInv, [Next]_vars
  PROVE  TypeOK' /\ RingInv' /\ AtQueueStep
<1>1. CASE \E c \in Commands : SubmitTask(c)
  BY <1>1, SubmitTaskStep
<1>2. CASE ReadLine
  BY <1>2, ReadLineStep
<1>3. CASE Poll
  BY <1>3, PollStep
<1>4. CASE Drained \/ TurnEnds \/ Modem \/ LoseLine \/ Tick \/ UNCHANGED vars
  BY <1>4, EnvironmentStep
<1>. QED  BY <1>1, <1>2, <1>3, <1>4 DEF Next, Loop

\* The ring of modem_at_core.cpp never leaves its slots, the response never
\* outgrows its buffer, and every variable keeps its type.
THEOREM TypeCorrect == Spec => []TypeOK
<1>1. Init => TypeOK /\ RingInv
  BY InitStep
<1>2. TypeOK /\ RingInv /\ [Next]_vars => (TypeOK /\ RingInv)'
  BY NextStep
<1>. QED  BY <1>1, <1>2, PTL DEF Spec

\* submit(), poll(), handleLine() and the callbacks that submit from within
\* finishCurrent() implement the FIFO of AtCommandQueue, for any capacity,
\* any commands and any behaviour of the modem and the UART.
THEOREM ChannelImplementsQueue == Spec => ImplementsAtQueue
<1>1. Init => TypeOK /\ RingInv /\ AtQueue!Init
  BY InitStep
<1>2. TypeOK /\ RingInv /\ [Next]_vars => (TypeOK /\ RingInv)' /\ [AtQueue!Next]_(AtQueue!vars)
  BY NextStep DEF AtQueueStep, AtQueue!vars
<1>. QED  BY <1>1, <1>2, PTL DEF Spec, ImplementsAtQueue, AtQueue!Spec

-----------------------------------------------------------------------------
(* Deadlines.  The clock and a deadline are known only modulo 2^32; with   *)
(* the true age of the current command e = now - deadline - (age - timeout)*)
(* is a multiple of 2^32, and poll() keeps age - timeout small.            *)

DeadlineInv ==
  /\ gap \in 0 .. MaxLoopGap
  /\ at.hasCurrent =>
       /\ age <= TimeoutMs[at.current] + gap
       /\ now - at.deadline - (age - TimeoutMs[at.current]) \in {0, ClockMod, -ClockMod}

\* In a state of the invariant poll() times out exactly the commands whose
\* time is up.
LEMMA ExpiryIsExact ==
  ASSUME TypeOK, RingInv, DeadlineInv, at.hasCurrent
  PROVE  /\ TimeoutMs[at.current] \in 0 .. HalfRange
         /\ Due(now, at.deadline) <=> age >= TimeoutMs[at.current]
<1>. DEFINE T == TimeoutMs[at.current]
<1>1. at.current \in Commands
  <2>1. /\ Len(written) = Len(completed) + 1 /\ at.current = written[Len(written)]
        /\ written \in Seq(Commands) /\ Len(completed) \in Nat
    BY DEF RingInv, RingHolds, TypeOK
  <2>. QED  BY <2>1
<1>2. T \in 0 .. HalfRange
  BY <1>1, ModemAtCoreAssumption
<1>3. now \in Time /\ at.deadline \in Time /\ age \in Nat
  BY DEF TypeOK, AtRecord
<1>4. /\ age <= T + gap /\ gap \in 0 .. MaxLoopGap
      /\ now - at.deadline - (age - T) \in {0, ClockMod, -ClockMod}
  BY DEF DeadlineInv
<1>. HIDE DEF T
<1>5. age - T \in -HalfRange .. HalfRange - 1
  BY <1>2, <1>3, <1>4, HalfRangeType, ModemAtAssumption
<1>6. Due(now, at.deadline) <=> age - T >= 0
  BY <1>3, <1>4, <1>5, DueIsExact
<1>7. Due(now, at.deadline) <=> age >= T
  BY <1>2, <1>3, <1>6
<1>. QED  BY <1>2, <1>7 DEF T

\* poll() gives up a command whose time is up, and sets the next one's deadline.
LEMMA DeadlinePoll ==
  ASSUME TypeOK, RingInv, DeadlineInv, Poll
  PROVE  DeadlineInv'
<1>0. /\ at \in AtRecord /\ now \in 0 .. ClockMod - 1 /\ MaxLoopGap \in Nat
      /\ ClockMod \in Nat \ {0} /\ HalfRange \in Nat /\ ClockMod = 2 * HalfRange
  BY HalfRangeType, ClockModAssumption, ModemAtAssumption DEF TypeOK, Time
<1>. DEFINE fin == IF Expired(at, now) THEN Finish(at) ELSE at
<1>1. PICK s \in Submissions :
        /\ s # <<>> => Expired(at, now)
        /\ accepted' = Taken(fin, accepted, s)
        /\ at' = StartNextCommand(SubmitAll(fin, s), now)
        /\ age' = IF Starts(SubmitAll(fin, s)) THEN 0 ELSE age
  BY DEF Poll, Record
<1>2. gap' = 0 /\ now' = now /\ gap' \in 0 .. MaxLoopGap
  BY <1>0 DEF Poll
<1>3. CASE Starts(SubmitAll(fin, s))
  <2>. DEFINE a == SubmitAll(fin, s)
              c == a.queue[a.head]
  <2>1. a \in AtRecord
    <3>1. fin \in AtRecord
      BY <1>0 DEF Finish, AtRecord
    <3>. QED  BY <3>1, SubmitType DEF SubmitAll, Submissions
  <2>2. at'.current = c /\ at'.deadline = Plus(now, TimeoutMs[c]) /\ age' = 0
    BY <1>1, <1>3, <2>1 DEF StartNextCommand, AtRecord
  <2>3. at'.hasCurrent = TRUE
    BY <1>1, <1>3, <2>1 DEF StartNextCommand, AtRecord
  <2>4. TimeoutMs[c] \in 0 .. HalfRange
    <3>1. TypeOK' /\ RingInv'
      BY PollStep
    <3>2. /\ Len(written') = Len(completed') + 1 /\ at'.current = written'[Len(written')]
          /\ written' \in Seq(Commands) /\ Len(completed') \in Nat
      BY <2>3, <3>1 DEF RingInv, RingHolds, TypeOK
    <3>3. c \in Commands
      BY <2>2, <3>2
    <3>. QED  BY <3>3, ModemAtCoreAssumption
  <2>. HIDE DEF a, c
  <2>. DEFINE T == TimeoutMs[c]
  <2>. HIDE DEF T
  <2>5. T \in 0 .. HalfRange /\ at'.deadline = (now + T) % ClockMod
    BY <2>2, <2>4 DEF T, Plus
  <2>6. (now + T) % ClockMod = IF now + T < ClockMod THEN now + T ELSE now + T - ClockMod
    BY <1>0, <2>5
  <2>7. now - at'.deadline - (0 - T) \in {0, ClockMod, -ClockMod}
    BY <1>0, <2>5, <2>6
  <2>8. age' <= T + gap'
    BY <1>2, <2>2, <2>5
  <2>. QED  BY <1>2, <2>2, <2>7, <2>8 DEF DeadlineInv, T
<1>4. CASE ~Starts(SubmitAll(fin, s))
  <2>1. at' = SubmitAll(fin, s) /\ age' = age
    BY <1>1, <1>4 DEF StartNextCommand
  <2>2. CASE Expired(at, now)
    <3>1. at'.hasCurrent = FALSE
      <4>1. fin \in AtRecord /\ fin.hasCurrent = FALSE
        BY <1>0, <2>2 DEF Finish, AtRecord
      <4>. HIDE DEF fin
      <4>. QED  BY <2>1, <4>1 DEF SubmitAll, Submit, AtRecord
    <3>. QED  BY <1>2, <3>1 DEF DeadlineInv
  <2>3. CASE ~Expired(at, now)
    <3>1. at' = at
      BY <1>1, <2>1, <2>3 DEF SubmitAll
    <3>2. ASSUME at.hasCurrent
          PROVE  age <= TimeoutMs[at.current] + 0
      <4>1. ~Due(now, at.deadline)
        BY <2>3, <3>2 DEF Expired
      <4>. DEFINE T == TimeoutMs[at.current]
      <4>2. T \in 0 .. HalfRange /\ ~(age >= T)
        BY <3>2, <4>1, ExpiryIsExact
      <4>. HIDE DEF T
      <4>3. age <= T + 0
        BY <1>0, <4>2 DEF TypeOK
      <4>. QED  BY <4>3 DEF T
    <3>. QED  BY <1>2, <2>1, <3>1, <3>2 DEF DeadlineInv
  <2>. QED  BY <2>2, <2>3
<1>. QED  BY <1>3, <1>4

\* Time passes on the clock, modulo 2^32, as it does in truth.
LEMMA DeadlineTick ==
  ASSUME TypeOK, RingInv, DeadlineInv, Tick
  PROVE  DeadlineInv'
<1>0. /\ now \in 0 .. ClockMod - 1 /\ MaxLoopGap \in 1 .. HalfRange - 1 /\ age \in Nat
      /\ ClockMod \in Nat \ {0} /\ HalfRange \in Nat /\ ClockMod = 2 * HalfRange
      /\ at.deadline \in 0 .. ClockMod - 1
  BY HalfRangeType, ClockModAssumption, ModemAtAssumption DEF TypeOK, Time, AtRecord
<1>1. /\ gap < MaxLoopGap /\ gap' = gap + 1 /\ at' = at /\ now' = (now + 1) % ClockMod
      /\ age' = IF at.hasCurrent THEN age + 1 ELSE age
  BY DEF Tick, atVars, Plus
<1>2. gap \in 0 .. MaxLoopGap /\ gap' \in 0 .. MaxLoopGap
  BY <1>0, <1>1 DEF DeadlineInv
<1>3. (now + 1) % ClockMod = IF now + 1 < ClockMod THEN now + 1 ELSE now + 1 - ClockMod
  BY <1>0
<1>4. ASSUME at.hasCurrent
      PROVE  /\ age' <= TimeoutMs[at.current] + gap'
             /\ now' - at.deadline - (age' - TimeoutMs[at.current]) \in {0, ClockMod, -ClockMod}
  <2>. DEFINE T == TimeoutMs[at.current]
  <2>1. T \in 0 .. HalfRange
    BY <1>4, ExpiryIsExact
  <2>2. age <= T + gap /\ now - at.deadline - (age - T) \in {0, ClockMod, -ClockMod}
    BY <1>4 DEF DeadlineInv
  <2>. HIDE DEF T
  <2>3. age' = age + 1 /\ age' <= T + gap'
    BY <1>0, <1>1, <1>2, <1>4, <2>1, <2>2
  <2>4. now' - at.deadline - (age' - T) \in {0, ClockMod, -ClockMod}
    BY <1>0, <1>1, <1>2, <1>3, <2>1, <2>2, <2>3
  <2>. QED  BY <2>3, <2>4 DEF T
<1>. QED  BY <1>1, <1>2, <1>4 DEF DeadlineInv

\* No other step touches the clock or a deadline.
LEMMA DeadlineNext ==
  ASSUME TypeOK, RingInv, DeadlineInv, [Next]_vars
  PROVE  DeadlineInv'
<1>1. CASE Poll
  BY <1>1, DeadlinePoll
<1>2. CASE Tick
  BY <1>2, DeadlineTick
<1>3. CASE \E c \in Commands : SubmitTask(c)
  <2>1. PICK c \in Commands : SubmitTask(c)
    BY <1>3
  <2>2. /\ at' = Submit(at, c) /\ UNCHANGED clockVars
    BY <2>1 DEF SubmitTask
  <2>3. /\ at'.hasCurrent = at.hasCurrent /\ at'.current = at.current
        /\ at'.deadline = at.deadline
    BY <2>2 DEF Submit, TypeOK, AtRecord
  <2>. QED  BY <2>2, <2>3 DEF DeadlineInv, clockVars
<1>4. CASE ReadLine
  <2>. DEFINE line == Head(rx)
              a    == HandleLine(at, line)
  <2>0. line \in Line /\ at \in AtRecord
    BY <1>4 DEF ReadLine, TypeOK
  <2>1. a \in AtRecord
    BY <2>0, HandleLineType
  <2>2. PICK s \in Submissions : at' = SubmitAll(a, s)
    <3>1. CASE Completes(at, line)
      BY <1>4, <3>1 DEF ReadLine
    <3>2. CASE ~Completes(at, line)
      BY <1>4, <3>2 DEF ReadLine, SubmitAll, Submissions
    <3>. QED  BY <3>1, <3>2
  <2>3. /\ a.current = at.current /\ a.deadline = at.deadline
        /\ a.hasCurrent => at.hasCurrent
    BY <2>0 DEF HandleLine, AtRecord
  <2>. HIDE DEF a, line
  <2>4. /\ at'.current = a.current /\ at'.deadline = a.deadline
        /\ at'.hasCurrent = a.hasCurrent
    BY <2>1, <2>2 DEF SubmitAll, Submit, AtRecord
  <2>5. UNCHANGED clockVars
    BY <1>4 DEF ReadLine
  <2>. QED  BY <2>3, <2>4, <2>5 DEF DeadlineInv, clockVars
<1>5. CASE Drained \/ TurnEnds \/ Modem \/ LoseLine \/ UNCHANGED vars
  <2>1. UNCHANGED <<at, now, age, gap>>
    BY <1>5 DEF Drained, TurnEnds, Modem, ModemData, ModemFinal, ModemSilent, ModemReport,
                LoseLine, vars, atVars, clockVars
  <2>. QED  BY <2>1 DEF DeadlineInv
<1>. QED  BY <1>1, <1>2, <1>3, <1>4, <1>5 DEF Next, Loop

\* The signed 32-bit comparison of poll() is right for every timeout of up to
\* half the clock range, at any moment of the wrap-around: a command is given
\* up at the first poll after its timeout and never before.
THEOREM DeadlinesExact == Spec => []DeadlineIsExact
<1>1. Init => TypeOK /\ RingInv
  BY InitStep
<1>2. Init => DeadlineInv
  BY ModemAtAssumption DEF Init, DeadlineInv, AtBegin
<1>3. TypeOK /\ RingInv /\ DeadlineInv /\ [Next]_vars => (TypeOK /\ RingInv /\ DeadlineInv)'
  BY NextStep, DeadlineNext
<1>4. TypeOK /\ RingInv /\ DeadlineInv => DeadlineIsExact
  <2>. SUFFICES ASSUME TypeOK, RingInv, DeadlineInv, at.hasCurrent
                PROVE  /\ Due(now, at.deadline) <=> age >= TimeoutMs[at.current]
                       /\ age <= TimeoutMs[at.current] + MaxLoopGap
    BY DEF DeadlineIsExact
  <2>. DEFINE T == TimeoutMs[at.current]
  <2>1. T \in 0 .. HalfRange /\ (Due(now, at.deadline) <=> age >= T)
    BY ExpiryIsExact
  <2>2. age <= T + gap /\ gap \in 0 .. MaxLoopGap /\ age \in Nat
    BY DEF DeadlineInv, TypeOK
  <2>. HIDE DEF T
  <2>3. age <= T + MaxLoopGap
    BY <2>1, <2>2, HalfRangeType, ModemAtAssumption
  <2>. QED  BY <2>1, <2>3 DEF T
<1>. QED  BY <1>1, <1>2, <1>3, <1>4, PTL DEF Spec

-----------------------------------------------------------------------------
(* The lines that wait. *)

\* A set of numbers that is not empty has a least one.
LEMMA LeastNumber ==
  ASSUME NEW S \in SUBSET Nat, S # {}
  PROVE  \E m \in S : \A i \in S : m <= i
<1>. DEFINE R == OpToRel(<, Nat)
<1>1. PICK x \in S : \A y \in S : ~ (<<y, x>> \in R)
  <2>1. IsWellFoundedOn(R, Nat)
    BY NatLessThanWellFounded
  <2>. HIDE DEF R
  <2>. QED  BY <2>1, WFMin
<1>2. ASSUME NEW y \in S PROVE x <= y
  <2>1. x \in Nat /\ y \in Nat
    OBVIOUS
  <2>2. ~ (<<y, x>> \in R)
    BY <1>1
  <2>3. ~(y < x)
    BY <2>1, <2>2 DEF OpToRel
  <2>. HIDE DEF R
  <2>. QED  BY <2>1, <2>3
<1>. QED  BY <1>2

\* A set of numbers that holds 0 and every successor up to n holds 0 .. n.
LEMMA UpTo ==
  ASSUME NEW n \in Nat, NEW S, 0 \in S, \A m \in 1 .. n : m - 1 \in S => m \in S
  PROVE  0 .. n \subseteq S
<1>. SUFFICES ASSUME NEW k \in 0 .. n, k \notin S PROVE FALSE
  OBVIOUS
<1>. DEFINE T == {m \in 0 .. n : m \notin S}
<1>1. T \in SUBSET Nat /\ T # {}
  OBVIOUS
<1>2. PICK m \in T : \A i \in T : m <= i
  <2>. HIDE DEF T
  <2>. QED  BY <1>1, LeastNumber
<1>3. m \in 1 .. n /\ m - 1 \in 0 .. n
  OBVIOUS
<1>4. m - 1 \notin T
  <2>. HIDE DEF T
  <2>. QED  BY <1>2, <1>3
<1>. QED  BY <1>3, <1>4

\* One more round of Reports.
NextReports(lines, r, i) == IF IsReport(lines[i]) THEN Append(r, lines[i]) ELSE r

IsReportsUpTo(lines, f) ==
  /\ f \in [0 .. Len(lines) -> Seq(Line)]
  /\ f[0] = <<>>
  /\ \A i \in 1 .. Len(lines) : f[i] = NextReports(lines, f[i - 1], i)

\* Reports goes through the lines one by one.
LEMMA ReportsRounds ==
  ASSUME NEW u \in Seq(Line)
  PROVE  \E f : IsReportsUpTo(u, f) /\ Reports(u) = f[Len(u)]
<1>. DEFINE n == Len(u)
            X == Seq(Line)
            Good(m, f) == f[0] = <<>> /\ \A p \in 1 .. m : f[p] = NextReports(u, f[p - 1], p)
            Has == {m \in 0 .. n : \E f \in [0 .. m -> X] : Good(m, f)}
            F(f) == f = [i \in 0 .. n |->
                           IF i = 0 THEN <<>>
                           ELSE IF IsReport(u[i]) THEN Append(f[i - 1], u[i]) ELSE f[i - 1]]
            g == CHOOSE f : F(f)
<1>0. n \in Nat /\ <<>> \in X /\ \A p \in 1 .. n, r \in X : NextReports(u, r, p) \in X
  BY DEF NextReports
<1>1. 0 \in Has
  <2>. DEFINE h == [p \in 0 .. 0 |-> <<>>]
  <2>. HIDE DEF n, X
  <2>1. h \in [0 .. 0 -> X] /\ Good(0, h)
    BY <1>0
  <2>2. 0 \in 0 .. n
    BY <1>0
  <2>. HIDE DEF h, Good
  <2>. QED  BY <2>1, <2>2
<1>2. ASSUME NEW m \in 1 .. n, m - 1 \in Has PROVE m \in Has
  <2>. HIDE DEF n, X
  <2>1. PICK f \in [0 .. m - 1 -> X] : Good(m - 1, f)
    BY <1>2
  <2>. DEFINE h == [p \in 0 .. m |-> IF p = m THEN NextReports(u, f[m - 1], m) ELSE f[p]]
  <2>2. m - 1 \in 0 .. m - 1 /\ f[m - 1] \in X /\ m \in 0 .. n
    BY <1>0
  <2>3. NextReports(u, f[m - 1], m) \in X
    BY <1>0, <2>2
  <2>4. h \in [0 .. m -> X]
    BY <1>0, <2>3
  <2>5. Good(m, h)
    <3>1. h[0] = <<>>
      BY <1>0, <2>1
    <3>2. ASSUME NEW p \in 1 .. m PROVE h[p] = NextReports(u, h[p - 1], p)
      <4>1. h[p - 1] = f[p - 1]
        BY <1>0
      <4>2. CASE p = m
        BY <4>1, <4>2
      <4>3. CASE p # m
        <5>1. p \in 1 .. m - 1 /\ h[p] = f[p]
          BY <1>0, <4>3
        <5>. QED  BY <2>1, <4>1, <5>1
      <4>. QED  BY <4>2, <4>3
    <3>. QED  BY <3>1, <3>2
  <2>. HIDE DEF h, Good
  <2>. QED  BY <2>2, <2>4, <2>5
<1>3. PICK f \in [0 .. n -> X] : Good(n, f)
  <2>1. 0 .. n \subseteq Has
    <3>. HIDE DEF Has, n
    <3>. QED  BY <1>0, <1>1, <1>2, UpTo
  <2>2. n \in 0 .. n
    BY <1>0
  <2>. HIDE DEF Good
  <2>. QED  BY <2>1, <2>2
<1>4. F(f)
  <2>. HIDE DEF n, X
  <2>1. f = [i \in 0 .. n |-> f[i]]
    OBVIOUS
  <2>2. ASSUME NEW i \in 0 .. n
        PROVE  f[i] = IF i = 0 THEN <<>>
                      ELSE IF IsReport(u[i]) THEN Append(f[i - 1], u[i]) ELSE f[i - 1]
    <3>1. i = 0 \/ i \in 1 .. n
      BY <1>0
    <3>. QED  BY <1>3, <3>1 DEF NextReports
  <2>. QED  BY <2>1, <2>2
<1>5. F(g)
  <2>. HIDE DEF F
  <2>. QED  BY <1>4
<1>6. Reports(u) = g[n]
  BY DEF Reports
<1>7. DOMAIN g = 0 .. n /\ g[0] = <<>> /\ \A i \in 1 .. n : g[i] = NextReports(u, g[i - 1], i)
  <2>. HIDE DEF n, g
  <2>1. \A i \in 0 .. n : g[i] = IF i = 0 THEN <<>>
                      ELSE IF IsReport(u[i]) THEN Append(g[i - 1], u[i]) ELSE g[i - 1]
    BY <1>5
  <2>2. DOMAIN g = 0 .. n /\ 0 \in 0 .. n
    BY <1>0, <1>5
  <2>3. \A i \in 1 .. n : i \in 0 .. n /\ i # 0
    BY <1>0
  <2>. QED  BY <2>1, <2>2, <2>3 DEF NextReports
<1>8. g \in [0 .. n -> X]
  <2>. DEFINE S == {i \in 0 .. n : g[i] \in X}
  <2>. HIDE DEF n, X, g, F
  <2>1. 0 \in S
    BY <1>0, <1>7
  <2>2. \A m \in 1 .. n : m - 1 \in S => m \in S
    BY <1>0, <1>7
  <2>3. 0 .. n \subseteq S
    <3>. HIDE DEF S
    <3>. QED  BY <1>0, <2>1, <2>2, UpTo
  <2>4. \A i \in 0 .. n : g[i] \in X
    BY <2>3
  <2>5. g = [i \in 0 .. n |-> g[i]]
    BY <1>5 DEF F
  <2>. QED  BY <2>4, <2>5
<1>9. IsReportsUpTo(u, g)
  <2>. HIDE DEF g
  <2>. QED  BY <1>7, <1>8 DEF IsReportsUpTo
<1>. HIDE DEF g
<1>. QED  BY <1>6, <1>9

\* Without lines there is no report, and what waits of reports are lines.
LEMMA NoReports == Reports(<<>>) = <<>> /\ \A u \in Seq(Line) : Reports(u) \in Seq(Line)
<1>1. ASSUME NEW u \in Seq(Line) PROVE Reports(u) \in Seq(Line)
  <2>1. PICK f : IsReportsUpTo(u, f) /\ Reports(u) = f[Len(u)]
    BY ReportsRounds
  <2>2. Len(u) \in 0 .. Len(u)
    OBVIOUS
  <2>. QED  BY <2>1, <2>2 DEF IsReportsUpTo
<1>2. Reports(<<>>) = <<>>
  <2>. DEFINE u == <<>>
  <2>1. u \in Seq(Line) /\ Len(u) = 0
    OBVIOUS
  <2>. HIDE DEF u
  <2>2. PICK f : IsReportsUpTo(u, f) /\ Reports(u) = f[Len(u)]
    BY <2>1, ReportsRounds
  <2>3. Reports(u) = <<>>
    BY <2>1, <2>2 DEF IsReportsUpTo
  <2>. QED  BY <2>3 DEF u
<1>. QED  BY <1>1, <1>2

\* A line that comes in is a report or it is not.
LEMMA ReportsAppended ==
  ASSUME NEW u \in Seq(Line), NEW x \in Line
  PROVE  Reports(Append(u, x)) = IF IsReport(x) THEN Append(Reports(u), x) ELSE Reports(u)
<1>. DEFINE w == Append(u, x)
            n == Len(u)
<1>1. /\ w \in Seq(Line) /\ Len(w) = n + 1 /\ n \in Nat /\ w[n + 1] = x
      /\ \A i \in 1 .. n : w[i] = u[i]
  OBVIOUS
<1>. HIDE DEF w
<1>2. PICK f : IsReportsUpTo(u, f) /\ Reports(u) = f[n]
  BY ReportsRounds
<1>3. PICK g : IsReportsUpTo(w, g) /\ Reports(w) = g[Len(w)]
  BY <1>1, ReportsRounds
<1>4. g[n] = f[n]
  <2>. DEFINE S == {i \in 0 .. n : g[i] = f[i]}
  <2>. HIDE DEF n
  <2>1. 0 \in S
    BY <1>1, <1>2, <1>3 DEF IsReportsUpTo
  <2>2. ASSUME NEW m \in 1 .. n, m - 1 \in S PROVE m \in S
    <3>1. m \in 1 .. Len(u) /\ m \in 1 .. Len(w) /\ m \in 0 .. n
      BY <1>1 DEF n
    <3>2. f[m] = NextReports(u, f[m - 1], m) /\ g[m] = NextReports(w, g[m - 1], m)
      BY <1>2, <1>3, <3>1 DEF IsReportsUpTo
    <3>3. g[m - 1] = f[m - 1] /\ w[m] = u[m]
      BY <1>1, <2>2
    <3>. QED  BY <3>1, <3>2, <3>3 DEF NextReports
  <2>3. 0 .. n \subseteq S
    <3>. HIDE DEF S
    <3>. QED  BY <1>1, <2>1, <2>2, UpTo
  <2>4. n \in 0 .. n
    BY <1>1
  <2>. QED  BY <2>3, <2>4
<1>5. g[n + 1] = NextReports(w, g[n], n + 1)
  <2>1. n + 1 \in 1 .. Len(w) /\ (n + 1) - 1 = n
    BY <1>1
  <2>2. g[n + 1] = NextReports(w, g[(n + 1) - 1], n + 1)
    BY <1>3, <2>1 DEF IsReportsUpTo
  <2>. QED  BY <2>1, <2>2
<1>. HIDE DEF n
<1>6. Reports(w) = IF IsReport(x) THEN Append(Reports(u), x) ELSE Reports(u)
  BY <1>1, <1>2, <1>3, <1>4, <1>5 DEF NextReports
<1>. QED  BY <1>6 DEF w

\* A report of one line, and one of two, behind others.
LEMMA OneReport ==
  ASSUME NEW u \in Seq(Line), NEW x \in Line
  PROVE  Reports(u \o <<x>>) = Reports(u) \o (IF IsReport(x) THEN <<x>> ELSE <<>>)
<1>. DEFINE r == Reports(u)
<1>1. r \in Seq(Line)
  BY NoReports
<1>2. Reports(u \o <<x>>) = IF IsReport(x) THEN Append(r, x) ELSE r
  <2>1. u \o <<x>> = Append(u, x)
    OBVIOUS
  <2>. QED  BY <2>1, ReportsAppended
<1>. HIDE DEF r
<1>3. Append(r, x) = r \o <<x>> /\ r = r \o <<>>
  BY <1>1
<1>. QED  BY <1>2, <1>3 DEF r

LEMMA TwoReports ==
  ASSUME NEW u \in Seq(Line), NEW x \in Line, NEW y \in Line, IsReport(x), IsReport(y)
  PROVE  Reports(u \o <<x, y>>) = Reports(u) \o <<x, y>>
<1>. DEFINE r == Reports(u)
<1>1. r \in Seq(Line) /\ Append(u, x) \in Seq(Line)
  BY NoReports
<1>2. Reports(u \o <<x, y>>) = Append(Append(r, x), y)
  <2>1. u \o <<x, y>> = Append(Append(u, x), y)
    OBVIOUS
  <2>. QED  BY <1>1, <2>1, ReportsAppended
<1>. HIDE DEF r
<1>3. Append(Append(r, x), y) = r \o <<x, y>>
  <2>1. r \in Seq(Line) /\ x \in Line /\ y \in Line
    BY <1>1
  <2>. QED  BY <2>1, SMTT(30)
<1>. QED  BY <1>2, <1>3 DEF r

\* A line that is read takes its report with it.
LEMMA ReportsRead ==
  ASSUME NEW u \in Seq(Line), u # <<>>
  PROVE  Reports(u) = (IF IsReport(Head(u)) THEN <<Head(u)>> ELSE <<>>) \o Reports(Tail(u))
<1>. DEFINE v == Tail(u)
            n == Len(v)
            first == IF IsReport(Head(u)) THEN <<Head(u)>> ELSE <<>>
<1>1. /\ v \in Seq(Line) /\ Len(u) = n + 1 /\ n \in Nat /\ Head(u) = u[1] /\ Head(u) \in Line
      /\ \A i \in 1 .. n : v[i] = u[i + 1] /\ v[i] \in Line
      /\ first \in Seq(Line)
  OBVIOUS
<1>. HIDE DEF v
<1>2. PICK f : IsReportsUpTo(u, f) /\ Reports(u) = f[Len(u)]
  BY ReportsRounds
<1>3. PICK g : IsReportsUpTo(v, g) /\ Reports(v) = g[n]
  BY <1>1, ReportsRounds
<1>. HIDE DEF n
<1>4. f[1] = first
  <2>1. 1 \in 1 .. Len(u) /\ 1 - 1 = 0
    BY <1>1
  <2>2. f[1] = NextReports(u, f[0], 1) /\ f[0] = <<>>
    BY <1>2, <2>1 DEF IsReportsUpTo
  <2>. QED  BY <1>1, <2>2 DEF NextReports
<1>. DEFINE S == {i \in 0 .. n : f[i + 1] = first \o g[i]}
<1>5. 0 \in S
  <2>1. g[0] = <<>>
    BY <1>3 DEF IsReportsUpTo
  <2>. HIDE DEF first
  <2>. QED  BY <1>1, <1>4, <2>1
<1>6. ASSUME NEW m \in 1 .. n, m - 1 \in S PROVE m \in S
  <2>. HIDE DEF first
  <2>1. m \in 1 .. Len(v) /\ m + 1 \in 1 .. Len(u) /\ m \in 0 .. n /\ (m + 1) - 1 = m
        /\ (m - 1) + 1 = m /\ m - 1 \in 0 .. Len(v)
    BY <1>1 DEF n
  <2>2. f[m + 1] = NextReports(u, f[(m + 1) - 1], m + 1) /\ g[m] = NextReports(v, g[m - 1], m)
    BY <1>2, <1>3, <2>1 DEF IsReportsUpTo
  <2>3. f[(m - 1) + 1] = first \o g[m - 1]
    BY <1>6
  <2>4. f[m] = first \o g[m - 1] /\ v[m] = u[m + 1] /\ v[m] \in Line
    BY <1>1, <2>1, <2>3
  <2>5. g[m - 1] \in Seq(Line)
    BY <1>3, <2>1 DEF IsReportsUpTo
  <2>6. Append(first \o g[m - 1], v[m]) = first \o Append(g[m - 1], v[m])
    <3>. DEFINE r == g[m - 1]
                x == v[m]
    <3>1. r \in Seq(Line) /\ x \in Line /\ first \in Seq(Line)
      BY <1>1, <2>4, <2>5
    <3>. HIDE DEF r, x
    <3>2. Append(first \o r, x) = first \o Append(r, x)
      BY <3>1, SMTT(30)
    <3>. QED  BY <3>2 DEF r, x
  <2>7. f[m + 1] = first \o g[m]
    BY <2>1, <2>2, <2>4, <2>6 DEF NextReports
  <2>. QED  BY <2>1, <2>7
<1>7. 0 .. n \subseteq S
  <2>. HIDE DEF S
  <2>. QED  BY <1>1, <1>5, <1>6, UpTo
<1>8. f[n + 1] = first \o g[n]
  <2>1. n \in 0 .. n
    BY <1>1
  <2>. QED  BY <1>7, <2>1
<1>9. Reports(u) = first \o Reports(v)
  BY <1>1, <1>2, <1>3, <1>8
<1>. QED  BY <1>9 DEF v, first

AnswerKinds == {"DATA", "CEREG", "OK", "ERROR"}

NoAnswers(u) == \A k \in DOMAIN u : u[k].kind \notin AnswerKinds

\* Nothing of an answer follows its last line.
OneAnswer(u) ==
  \A j, k \in DOMAIN u : IsFinal(u[j]) /\ j < k => u[k].kind \notin AnswerKinds

\* A header is followed by its PDU, which is the next line if the header has
\* been read (a).
Headers(u, a) ==
  /\ \A k \in DOMAIN u : u[k].kind = "CMT" => k + 1 \in DOMAIN u /\ u[k + 1].kind = "PDU"
  /\ \A k \in DOMAIN u : u[k].kind = "PDU" => IF k = 1 THEN a ELSE u[k - 1].kind = "CMT"
  /\ a => u # <<>> /\ Head(u).kind = "PDU"

\* The modem sends more lines.
LEMMA LinesAdded ==
  ASSUME NEW u \in Seq(Line), NEW v \in Seq(Line)
  PROVE  LET w == u \o v
             m == Len(u)
         IN  /\ m \in Nat /\ Len(v) \in Nat
             /\ DOMAIN u = 1 .. m /\ DOMAIN v = 1 .. Len(v) /\ DOMAIN w = 1 .. m + Len(v)
             /\ \A k \in 1 .. m : w[k] = u[k]
             /\ \A k \in 1 .. Len(v) : w[m + k] = v[k]
             /\ \A k \in DOMAIN w : k \in 1 .. m \/ (k > m /\ k - m \in 1 .. Len(v) /\ m + (k - m) = k)
OBVIOUS

\* Headers stay with their PDUs when whole reports come in behind.
LEMMA HeadersAdded ==
  ASSUME NEW u \in Seq(Line), NEW v \in Seq(Line), NEW a, Headers(u, a), Headers(v, FALSE)
  PROVE  Headers(u \o v, a)
<1>. DEFINE w == u \o v
            m == Len(u)
            n == Len(v)
<1>1. /\ m \in Nat /\ n \in Nat
      /\ DOMAIN u = 1 .. m /\ DOMAIN v = 1 .. n /\ DOMAIN w = 1 .. m + n
      /\ \A k \in 1 .. m : w[k] = u[k]
      /\ \A k \in 1 .. n : w[m + k] = v[k]
      /\ \A k \in DOMAIN w : k \in 1 .. m \/ (k > m /\ k - m \in 1 .. n /\ m + (k - m) = k)
  BY LinesAdded
<1>2. a => w # <<>> /\ Head(w).kind = "PDU"
  BY <1>1 DEF Headers
<1>. HIDE DEF w, m, n
<1>3. ASSUME NEW k \in DOMAIN w, w[k].kind = "CMT"
      PROVE  k + 1 \in DOMAIN w /\ w[k + 1].kind = "PDU"
  <2>1. CASE k \in 1 .. m
    <3>1. k + 1 \in 1 .. m /\ u[k + 1].kind = "PDU"
      BY <1>1, <1>3, <2>1 DEF Headers
    <3>. QED  BY <1>1, <3>1
  <2>2. CASE k \notin 1 .. m
    <3>. DEFINE j == k - m
    <3>1. j \in 1 .. n /\ m + j = k
      BY <1>1, <1>3, <2>2
    <3>2. v[j].kind = "CMT"
      BY <1>1, <1>3, <3>1
    <3>3. j + 1 \in 1 .. n /\ v[j + 1].kind = "PDU"
      BY <1>1, <3>1, <3>2 DEF Headers
    <3>4. m + (j + 1) = k + 1 /\ k + 1 \in 1 .. m + n
      BY <1>1, <3>1, <3>3
    <3>. HIDE DEF j
    <3>. QED  BY <1>1, <3>3, <3>4
  <2>. QED  BY <2>1, <2>2
<1>4. ASSUME NEW k \in DOMAIN w, w[k].kind = "PDU"
      PROVE  IF k = 1 THEN a ELSE w[k - 1].kind = "CMT"
  <2>1. CASE k \in 1 .. m
    <3>1. IF k = 1 THEN a ELSE u[k - 1].kind = "CMT"
      BY <1>1, <1>4, <2>1 DEF Headers
    <3>2. k # 1 => k - 1 \in 1 .. m
      BY <1>1, <2>1
    <3>. QED  BY <1>1, <3>1, <3>2
  <2>2. CASE k \notin 1 .. m
    <3>. DEFINE j == k - m
    <3>1. j \in 1 .. n /\ m + j = k
      BY <1>1, <1>4, <2>2
    <3>2. v[j].kind = "PDU"
      BY <1>1, <1>4, <3>1
    <3>3. j # 1 /\ v[j - 1].kind = "CMT" /\ j - 1 \in 1 .. n
      BY <1>1, <3>1, <3>2 DEF Headers
    <3>4. m + (j - 1) = k - 1 /\ k # 1
      BY <1>1, <3>1, <3>3
    <3>. HIDE DEF j
    <3>. QED  BY <1>1, <3>3, <3>4
  <2>. QED  BY <2>1, <2>2
<1>. QED  BY <1>2, <1>3, <1>4 DEF Headers, w

\* Lines that belong to no answer may come in after those of one; the next
\* line of an answer may while its last one has not.
LEMMA AnswersAdded ==
  ASSUME NEW u \in Seq(Line), NEW v \in Seq(Line)
  PROVE  LET w == u \o v
         IN  /\ NoAnswers(u) /\ NoAnswers(v) => NoAnswers(w)
             /\ OneAnswer(u) /\ NoAnswers(v) => OneAnswer(w)
             /\ (\A k \in DOMAIN u : ~IsFinal(u[k])) /\ OneAnswer(v) => OneAnswer(w)
             /\ \A k \in DOMAIN w :
                  (\E j \in DOMAIN u : w[k] = u[j]) \/ (\E j \in DOMAIN v : w[k] = v[j])
<1>. DEFINE w == u \o v
            m == Len(u)
            n == Len(v)
<1>1. /\ m \in Nat /\ n \in Nat
      /\ DOMAIN u = 1 .. m /\ DOMAIN v = 1 .. n /\ DOMAIN w = 1 .. m + n
      /\ \A k \in 1 .. m : w[k] = u[k]
      /\ \A k \in 1 .. n : w[m + k] = v[k]
      /\ \A k \in DOMAIN w : k \in 1 .. m \/ (k > m /\ k - m \in 1 .. n /\ m + (k - m) = k)
  BY LinesAdded
<1>. HIDE DEF w, m, n
<1>2. \A k \in DOMAIN w : (\E j \in 1 .. m : k = j /\ w[k] = u[j])
                          \/ (\E j \in 1 .. n : k = m + j /\ w[k] = v[j])
  BY <1>1
<1>3. NoAnswers(u) /\ NoAnswers(v) => NoAnswers(w)
  BY <1>1, <1>2 DEF NoAnswers
<1>4. ASSUME OneAnswer(u), NoAnswers(v) PROVE OneAnswer(w)
  <2>. SUFFICES ASSUME NEW j \in DOMAIN w, NEW k \in DOMAIN w, IsFinal(w[j]), j < k
                PROVE  w[k].kind \notin AnswerKinds
    BY DEF OneAnswer
  <2>1. w[j].kind \in AnswerKinds
    BY DEF AnswerKinds, IsFinal
  <2>2. j \in 1 .. m /\ w[j] = u[j]
    BY <1>1, <1>2, <1>4, <2>1 DEF NoAnswers
  <2>3. CASE k \in 1 .. m
    BY <1>1, <1>4, <2>2, <2>3 DEF OneAnswer
  <2>4. CASE k \notin 1 .. m
    BY <1>1, <1>4, <2>4 DEF NoAnswers
  <2>. QED  BY <2>3, <2>4
<1>5. ASSUME \A k \in DOMAIN u : ~IsFinal(u[k]), OneAnswer(v) PROVE OneAnswer(w)
  <2>. SUFFICES ASSUME NEW j \in DOMAIN w, NEW k \in DOMAIN w, IsFinal(w[j]), j < k
                PROVE  w[k].kind \notin AnswerKinds
    BY DEF OneAnswer
  <2>1. j > m /\ j - m \in 1 .. n /\ w[j] = v[j - m]
    BY <1>1, <1>5
  <2>2. k > m /\ k - m \in 1 .. n /\ w[k] = v[k - m] /\ j - m < k - m
    BY <1>1, <2>1
  <2>. QED  BY <1>1, <1>5, <2>1, <2>2 DEF OneAnswer
<1>6. \A k \in DOMAIN w :
        (\E j \in DOMAIN u : w[k] = u[j]) \/ (\E j \in DOMAIN v : w[k] = v[j])
  BY <1>1, <1>2
<1>. QED  BY <1>3, <1>4, <1>5, <1>6 DEF w

\* A line is read.
LEMMA LineRead ==
  ASSUME NEW u \in Seq(Line), u # <<>>
  PROVE  LET v == Tail(u)
             line == Head(u)
         IN  /\ v \in Seq(Line) /\ line \in Line
             /\ OneAnswer(u) => /\ OneAnswer(v)
                                /\ IsFinal(line) => NoAnswers(v)
             /\ NoAnswers(u) => NoAnswers(v)
             /\ \A k \in DOMAIN v : \E j \in DOMAIN u : v[k] = u[j]
             /\ \A a \in BOOLEAN : Headers(u, a) =>
                  /\ Headers(v, ~a /\ line.kind = "CMT")
                  /\ a <=> line.kind = "PDU"
<1>. DEFINE v == Tail(u)
            line == Head(u)
            n == Len(u)
<1>1. /\ n \in Nat \ {0} /\ DOMAIN u = 1 .. n /\ DOMAIN v = 1 .. n - 1
      /\ \A k \in 1 .. n : u[k] \in Line
      /\ \A k \in 1 .. n - 1 : v[k] = u[k + 1] /\ k + 1 \in 1 .. n
      /\ line = u[1] /\ 1 \in 1 .. n
      /\ v \in Seq(Line) /\ line \in Line
  OBVIOUS
<1>2. n - 1 >= 1 => v # <<>> /\ Head(v) = v[1]
  <2>1. Len(v) = n - 1 /\ v \in Seq(Line) /\ n \in Nat
    OBVIOUS
  <2>. HIDE DEF v, n
  <2>. QED  BY <2>1
<1>. HIDE DEF v, line, n
<1>5. OneAnswer(u) => OneAnswer(v)
  <2>. SUFFICES ASSUME OneAnswer(u), NEW j \in 1 .. n - 1, NEW k \in 1 .. n - 1,
                       IsFinal(v[j]), j < k
                PROVE  v[k].kind \notin AnswerKinds
    BY <1>1 DEF OneAnswer
  <2>1. v[j] = u[j + 1] /\ v[k] = u[k + 1] /\ j + 1 \in DOMAIN u /\ k + 1 \in DOMAIN u
        /\ j + 1 < k + 1
    BY <1>1
  <2>. QED  BY <2>1 DEF OneAnswer
<1>3. OneAnswer(u) => (IsFinal(line) => NoAnswers(v))
  <2>1. \A k \in 1 .. n - 1 : 1 < k + 1
    BY <1>1
  <2>. QED  BY <1>1, <2>1 DEF OneAnswer, NoAnswers
<1>6. NoAnswers(u) => NoAnswers(v)
  BY <1>1 DEF NoAnswers
<1>7. ASSUME NEW a \in BOOLEAN, Headers(u, a)
      PROVE  /\ Headers(v, ~a /\ line.kind = "CMT")
             /\ a <=> line.kind = "PDU"
  <2>1. a <=> line.kind = "PDU"
    BY <1>1, <1>7 DEF Headers, line
  <2>2. ASSUME NEW k \in 1 .. n - 1, v[k].kind = "CMT"
        PROVE  k + 1 \in 1 .. n - 1 /\ v[k + 1].kind = "PDU"
    <3>1. (k + 1) + 1 \in 1 .. n /\ u[(k + 1) + 1].kind = "PDU"
      BY <1>1, <1>7, <2>2 DEF Headers
    <3>. QED  BY <1>1, <3>1
  <2>3. ASSUME NEW k \in 1 .. n - 1, v[k].kind = "PDU"
        PROVE  IF k = 1 THEN line.kind = "CMT" ELSE v[k - 1].kind = "CMT"
    <3>1. k + 1 # 1 /\ (k + 1) - 1 = k
      BY <1>1
    <3>2. u[k].kind = "CMT"
      <4>1. k + 1 \in DOMAIN u /\ u[k + 1].kind = "PDU"
        BY <1>1, <2>3
      <4>2. u[(k + 1) - 1].kind = "CMT"
        BY <1>7, <3>1, <4>1 DEF Headers
      <4>. QED  BY <3>1, <4>2
    <3>3. k # 1 => k - 1 \in 1 .. n - 1 /\ (k - 1) + 1 = k
      BY <1>1
    <3>. QED  BY <1>1, <3>2, <3>3
  <2>4. line.kind = "CMT" => v # <<>> /\ Head(v).kind = "PDU"
    <3>. SUFFICES ASSUME line.kind = "CMT" PROVE v # <<>> /\ Head(v).kind = "PDU"
      OBVIOUS
    <3>1. 1 + 1 \in 1 .. n /\ u[1 + 1].kind = "PDU"
      BY <1>1, <1>7 DEF Headers
    <3>2. 1 \in 1 .. n - 1 /\ n - 1 >= 1
      BY <1>1, <3>1
    <3>. QED  BY <1>1, <1>2, <3>1, <3>2
  <2>5. line.kind = "CMT" => ~a
    BY <2>1
  <2>. QED  BY <1>1, <2>1, <2>2, <2>3, <2>4, <2>5 DEF Headers
<1>8. \A k \in DOMAIN v : \E j \in DOMAIN u : v[k] = u[j]
  BY <1>1
<1>. QED  BY <1>1, <1>5, <1>3, <1>6, <1>7, <1>8 DEF v, line

-----------------------------------------------------------------------------
(* What the actions do to the fields these properties are about. *)

\* Reading a line: the callback's submission touches the ring only.
LEMMA LineHandled ==
  ASSUME TypeOK, ReadLine
  PROVE  LET line == Head(rx)
         IN  /\ rx \in Seq(Line) /\ rx # <<>> /\ rx' = Tail(rx) /\ line \in Line
             /\ at'.awaitingCmtPdu <=> IF Ignored(line) THEN at.awaitingCmtPdu
                                       ELSE ~at.awaitingCmtPdu /\ line.kind = "CMT"
             /\ at'.hasCurrent <=> at.hasCurrent /\ ~Completes(at, line)
             /\ at'.response = IF Appends(at, line) THEN AppendResponseLine(at.response, line)
                               ELSE at.response
             /\ at'.deadline = at.deadline /\ at'.current = at.current
             /\ delivered' = IF EmitsUrc(at, line) /\ (IsReport(line) \/ line.kind = "REG")
                             THEN Append(delivered, line) ELSE delivered
             /\ ~Completes(at, line) => UNCHANGED <<completed, answers>>
             /\ Completes(at, line) =>
                  /\ \E r \in Results : completed' = Append(completed, <<at.current, r>>)
                  /\ answers' = Append(answers, [response |-> at'.response, by |-> line.tag])
             /\ UNCHANGED <<written, answered, reported, now>>
<1>. DEFINE line == Head(rx)
            a    == HandleLine(at, line)
<1>1. rx \in Seq(Line) /\ rx # <<>> /\ at \in AtRecord /\ rx' = Tail(rx)
  BY DEF ReadLine, TypeOK
<1>2. line \in Line
  BY <1>1
<1>3. a \in AtRecord
  BY <1>1, <1>2, HandleLineType
<1>4. /\ a.awaitingCmtPdu <=> IF Ignored(line) THEN at.awaitingCmtPdu
                              ELSE ~at.awaitingCmtPdu /\ line.kind = "CMT"
      /\ a.hasCurrent <=> at.hasCurrent /\ ~Completes(at, line)
      /\ a.response = IF Appends(at, line) THEN AppendResponseLine(at.response, line)
                                           ELSE at.response
      /\ a.deadline = at.deadline /\ a.current = at.current
  BY <1>1 DEF HandleLine, AtRecord
<1>5. delivered' = IF EmitsUrc(at, line) /\ (IsReport(line) \/ line.kind = "REG")
                   THEN Append(delivered, line) ELSE delivered
  BY DEF ReadLine, IsReport
<1>6. UNCHANGED <<written, answered, reported, now>>
  BY DEF ReadLine, modemVars, clockVars
<1>7. ~Completes(at, line) => at' = a /\ UNCHANGED <<completed, answers>>
  BY DEF ReadLine
<1>8. ASSUME Completes(at, line)
      PROVE  /\ \E r \in Results : completed' = Append(completed, <<at.current, r>>)
             /\ answers' = Append(answers, [response |-> a.response, by |-> line.tag])
             /\ \E s \in Submissions : at' = SubmitAll(a, s)
  <2>. DEFINE r == IF line.kind = "OK" THEN "Ok" ELSE "Error"
  <2>1. r \in Results /\ completed' = Append(completed, <<at.current, r>>)
    BY <1>8 DEF ReadLine, RecordCompletion, Results
  <2>2. answers' = Append(answers, [response |-> a.response, by |-> line.tag])
    BY <1>8 DEF ReadLine, RecordCompletion
  <2>3. \E s \in Submissions : at' = SubmitAll(a, s)
    BY <1>8 DEF ReadLine
  <2>. HIDE DEF r
  <2>. QED  BY <2>1, <2>2, <2>3
<1>. HIDE DEF line, a
<1>9. /\ at'.awaitingCmtPdu <=> a.awaitingCmtPdu
      /\ at'.hasCurrent <=> a.hasCurrent
      /\ at'.response = a.response /\ at'.deadline = a.deadline /\ at'.current = a.current
  <2>1. CASE ~Completes(at, line)
    BY <1>7, <2>1
  <2>2. CASE Completes(at, line)
    BY <1>3, <1>8, <2>2 DEF SubmitAll, Submit, AtRecord
  <2>. QED  BY <2>1, <2>2
<1>. QED  BY <1>1, <1>2, <1>4, <1>5, <1>6, <1>7, <1>8, <1>9 DEF line

\* Polling: a timeout, and the next command with an empty response.
LEMMA ChannelPolled ==
  ASSUME TypeOK, Poll
  PROVE  /\ at'.awaitingCmtPdu <=> at.awaitingCmtPdu
         /\ UNCHANGED <<rx, answered, reported, delivered, now>>
         /\ ~Expired(at, now) => UNCHANGED <<completed, answers>>
         /\ Expired(at, now) =>
              /\ completed' = Append(completed, <<at.current, "Timeout">>)
              /\ answers' = Append(answers, [response |-> at.response, by |-> 0])
         /\ \/ /\ at.hasCurrent => Expired(at, now)
               /\ \E c : written' = Append(written, c)
               /\ at'.hasCurrent /\ at'.response = <<>>
            \/ /\ written' = written
               /\ at'.hasCurrent <=> at.hasCurrent /\ ~Expired(at, now)
               /\ at'.response = at.response /\ at'.deadline = at.deadline
               /\ at'.current = at.current
<1>. DEFINE fin == IF Expired(at, now) THEN Finish(at) ELSE at
<1>0. at \in AtRecord
  BY DEF TypeOK
<1>1. PICK s \in Submissions :
        /\ at' = StartNextCommand(SubmitAll(fin, s), now)
        /\ written' = Sent(SubmitAll(fin, s), written)
  BY DEF Poll
<1>2. /\ fin \in AtRecord /\ (fin.awaitingCmtPdu <=> at.awaitingCmtPdu)
      /\ fin.response = at.response /\ fin.deadline = at.deadline
      /\ fin.current = at.current
      /\ fin.hasCurrent <=> at.hasCurrent /\ ~Expired(at, now)
  BY <1>0 DEF Finish, AtRecord, Expired
<1>3. /\ UNCHANGED <<rx, answered, reported, delivered, now>>
      /\ ~Expired(at, now) => UNCHANGED <<completed, answers>>
      /\ Expired(at, now) =>
           /\ completed' = Append(completed, <<at.current, "Timeout">>)
           /\ answers' = Append(answers, [response |-> at.response, by |-> 0])
  BY DEF Poll, modemVars, RecordCompletion
<1>. HIDE DEF fin
<1>. DEFINE a == SubmitAll(fin, s)
<1>4. /\ a \in AtRecord /\ (a.awaitingCmtPdu <=> fin.awaitingCmtPdu)
      /\ a.response = fin.response /\ a.deadline = fin.deadline /\ a.current = fin.current
      /\ a.hasCurrent <=> fin.hasCurrent
  <2>1. CASE s = <<>>
    BY <1>2, <2>1 DEF SubmitAll
  <2>2. CASE s # <<>>
    <3>1. PICK c \in Commands : a = Submit(fin, c)
      BY <2>2 DEF Submissions, SubmitAll
    <3>2. Submit(fin, c) \in AtRecord
      BY <1>2, SubmitType
    <3>. QED  BY <1>2, <3>1, <3>2 DEF Submit, AtRecord
  <2>. QED  BY <2>1, <2>2
<1>5. at' = StartNextCommand(a, now) /\ written' = Sent(a, written)
  BY <1>1
<1>. HIDE DEF a
<1>6. CASE Starts(a)
  <2>1. /\ at'.awaitingCmtPdu <=> a.awaitingCmtPdu
        /\ at'.hasCurrent /\ at'.response = <<>> /\ ~a.hasCurrent
    BY <1>4, <1>5, <1>6 DEF Starts, StartNextCommand, AtRecord
  <2>2. \E c : written' = Append(written, c)
    BY <1>5, <1>6 DEF Sent
  <2>. QED  BY <1>2, <1>3, <1>4, <2>1, <2>2
<1>7. CASE ~Starts(a)
  <2>1. at' = a /\ written' = written
    BY <1>5, <1>7 DEF StartNextCommand, Sent
  <2>. QED  BY <1>2, <1>3, <1>4, <2>1
<1>. QED  BY <1>6, <1>7

\* Everything else leaves the lines of the command and its histories alone.
LEMMA ChannelLeft ==
  ASSUME TypeOK,
         (\E c \in Commands : SubmitTask(c)) \/ Drained \/ TurnEnds \/ Modem \/ LoseLine
           \/ Tick \/ UNCHANGED vars
  PROVE  /\ at'.awaitingCmtPdu <=> at.awaitingCmtPdu
         /\ at'.hasCurrent <=> at.hasCurrent
         /\ at'.response = at.response /\ at'.deadline = at.deadline
         /\ at'.current = at.current
         /\ UNCHANGED <<written, completed, answers, delivered>>
<1>1. CASE \E c \in Commands : SubmitTask(c)
  <2>1. PICK c \in Commands : SubmitTask(c)
    BY <1>1
  <2>2. at' = Submit(at, c) /\ UNCHANGED <<written, completed, answers, delivered>>
    BY <2>1 DEF SubmitTask
  <2>. QED  BY <2>2 DEF Submit, TypeOK, AtRecord
<1>2. CASE Drained \/ TurnEnds \/ Modem \/ LoseLine \/ Tick \/ UNCHANGED vars
  BY <1>2 DEF Drained, TurnEnds, Modem, ModemData, ModemFinal, ModemSilent, ModemReport,
              LoseLine, Tick, vars, atVars
<1>. QED  BY <1>1, <1>2

\* A modem that sends lines adds them after those that wait: of an answer in
\* time, or of a report.
LEMMA LinesSent ==
  ASSUME TypeOK, Modem
  PROVE  /\ UNCHANGED <<at, now>>
         /\ \/ ModemSilent /\ UNCHANGED <<rx, reported>> /\ answered' = answered + 1
            \/ \E lines \in Seq(Line) :
                 /\ rx' = rx \o lines
                 /\ Headers(lines, FALSE)
                 /\ \/ /\ NoAnswers(lines) /\ answered' = answered
                       /\ reported' = reported \o lines
                       /\ \E r \in Seq(Line) : /\ Reports(rx') = Reports(rx) \o r
                                               /\ Reports(reported') = Reports(reported) \o r
                    \/ /\ MayAnswer
                       /\ reported' = reported /\ Reports(rx') = Reports(rx)
                       /\ OneAnswer(lines)
                       /\ answered' \in {answered, answered + 1}
                       /\ \A k \in DOMAIN lines :
                            /\ lines[k].kind \in AnswerKinds => lines[k].tag = answered + 1
                            /\ IsFinal(lines[k]) => answered' = answered + 1
<1>0. /\ UNCHANGED <<at, now>> /\ rx \in Seq(Line) /\ answered \in Nat /\ reported \in Seq(Line)
      /\ Reports(rx) \in Seq(Line)
  BY NoReports DEF Modem, ModemData, ModemFinal, ModemSilent, ModemReport, atVars, clockVars, TypeOK
<1>1. \A kind \in Kinds, tag \in Nat : /\ L(kind, tag) \in Line
                                       /\ L(kind, tag).kind = kind /\ L(kind, tag).tag = tag
  BY DEF L, Line
<1>2. ASSUME NEW x \in Line
      PROVE  /\ <<x>> \in Seq(Line) /\ DOMAIN <<x>> = {1} /\ <<x>>[1] = x
             /\ rx \o <<x>> = Append(rx, x)
  BY <1>0
<1>3. ASSUME NEW x \in Line, NEW y \in Line
      PROVE  /\ <<x, y>> \in Seq(Line) /\ DOMAIN <<x, y>> = {1, 2}
             /\ <<x, y>>[1] = x /\ <<x, y>>[2] = y
             /\ rx \o <<x, y>> = Append(Append(rx, x), y) /\ Append(rx, x) \in Seq(Line)
  BY <1>0
<1>4. CASE ModemData
  <2>1. PICK kind \in {"DATA", "CEREG", "overlong"} :
          rx' = rx \o <<L("blank", 0), L(kind, answered + 1)>>
    BY <1>4 DEF ModemData
  <2>. DEFINE x == L("blank", 0)
              y == L(kind, answered + 1)
              lines == <<x, y>>
  <2>2. /\ x \in Line /\ y \in Line /\ x.kind = "blank" /\ y.kind = kind /\ y.tag = answered + 1
    BY <1>0, <1>1 DEF Kinds
  <2>3. rx' = rx \o lines /\ MayAnswer /\ reported' = reported /\ answered' = answered
    BY <1>4, <2>1 DEF ModemData
  <2>. HIDE DEF x, y
  <2>4. /\ lines \in Seq(Line) /\ DOMAIN lines = {1, 2} /\ lines[1] = x /\ lines[2] = y
        /\ rx' = Append(Append(rx, x), y) /\ Append(rx, x) \in Seq(Line)
    BY <1>3, <2>2, <2>3
  <2>. HIDE DEF lines
  <2>5. Headers(lines, FALSE) /\ OneAnswer(lines)
    BY <2>2, <2>4 DEF Headers, OneAnswer, IsFinal
  <2>6. Reports(rx') = Reports(rx)
    BY <1>0, <2>2, <2>4, ReportsAppended, ZenonT(40) DEF IsReport
  <2>7. \A k \in DOMAIN lines :
          /\ lines[k].kind \in AnswerKinds => lines[k].tag = answered + 1
          /\ IsFinal(lines[k]) => answered' = answered + 1
    BY <2>2, <2>4 DEF AnswerKinds, IsFinal
  <2>. QED  BY <1>0, <2>3, <2>4, <2>5, <2>6, <2>7
<1>5. CASE ModemFinal
  <2>1. PICK kind \in {"OK", "ERROR"} : rx' = Append(rx, L(kind, answered + 1))
    BY <1>5 DEF ModemFinal
  <2>. DEFINE x == L(kind, answered + 1)
              lines == <<x>>
  <2>2. x \in Line /\ x.kind = kind /\ x.tag = answered + 1
    BY <1>0, <1>1 DEF Kinds
  <2>3. rx' = Append(rx, x) /\ MayAnswer /\ reported' = reported /\ answered' = answered + 1
    BY <1>5, <2>1 DEF ModemFinal
  <2>. HIDE DEF x
  <2>4. /\ lines \in Seq(Line) /\ DOMAIN lines = {1} /\ lines[1] = x /\ rx' = rx \o lines
    BY <1>2, <2>2, <2>3
  <2>. HIDE DEF lines
  <2>5. Headers(lines, FALSE) /\ OneAnswer(lines)
    BY <2>2, <2>4 DEF Headers, OneAnswer
  <2>6. Reports(rx') = Reports(rx)
    BY <1>0, <2>2, <2>3, ReportsAppended DEF IsReport
  <2>7. \A k \in DOMAIN lines :
          /\ lines[k].kind \in AnswerKinds => lines[k].tag = answered + 1
          /\ IsFinal(lines[k]) => answered' = answered + 1
    BY <2>2, <2>3, <2>4
  <2>. QED  BY <1>0, <2>3, <2>4, <2>5, <2>6, <2>7
<1>6. CASE ModemSilent
  BY <1>0, <1>6 DEF ModemSilent
<1>7. CASE ModemReport
  <2>. DEFINE n == Len(reported) + 1
  <2>0. n \in Nat
    BY <1>0
  <2>1. PICK lines \in { <<L("CMT", n), L("PDU", n)>>, <<L("CMTI", n)>>, <<L("NOTICE", n)>>,
                        <<L("REG", n)>> } :
          rx' = rx \o lines /\ reported' = reported \o lines
    BY <1>7 DEF ModemReport
  <2>2. answered' = answered
    BY <1>7 DEF ModemReport
  <2>. DEFINE x == L("CMT", n)
              y == L("PDU", n)
              z == L("CMTI", n)
              w == L("NOTICE", n)
              g == L("REG", n)
              Goes(r) == \A u \in Seq(Line) : Reports(u \o lines) = Reports(u) \o r
  <2>3. /\ x \in Line /\ y \in Line /\ z \in Line /\ w \in Line /\ g \in Line
        /\ x.kind = "CMT" /\ y.kind = "PDU" /\ z.kind = "CMTI" /\ w.kind = "NOTICE"
        /\ g.kind = "REG"
    BY <1>1, <2>0 DEF Kinds
  <2>4. lines = <<x, y>> \/ lines = <<z>> \/ lines = <<w>> \/ lines = <<g>>
    BY <2>1
  <2>. HIDE DEF n, x, y, z, w, g
  <2>5. /\ lines \in Seq(Line) /\ Headers(lines, FALSE) /\ NoAnswers(lines)
        /\ \E r \in Seq(Line) : Goes(r)
    <3>1. CASE lines = <<x, y>>
      <4>1. lines \in Seq(Line) /\ DOMAIN lines = {1, 2} /\ lines[1] = x /\ lines[2] = y
        BY <1>3, <2>3, <3>1
      <4>2. ASSUME NEW u \in Seq(Line) PROVE Reports(u \o lines) = Reports(u) \o <<x, y>>
        BY <2>3, <3>1, TwoReports DEF IsReport
      <4>3. Headers(lines, FALSE) /\ NoAnswers(lines)
        BY <2>3, <4>1 DEF Headers, NoAnswers, AnswerKinds
      <4>4. \E r \in Seq(Line) : Goes(r)
        BY <3>1, <4>1, <4>2
      <4>. HIDE DEF Goes
      <4>. QED  BY <4>1, <4>3, <4>4
    <3>2. ASSUME NEW v \in Line, v.kind \in {"CMTI", "NOTICE", "REG"}, lines = <<v>>
          PROVE  /\ lines \in Seq(Line) /\ Headers(lines, FALSE) /\ NoAnswers(lines)
                 /\ \E r \in Seq(Line) : Goes(r)
      <4>. DEFINE r == IF IsReport(v) THEN <<v>> ELSE <<>>
      <4>1. lines \in Seq(Line) /\ DOMAIN lines = {1} /\ lines[1] = v /\ r \in Seq(Line)
        BY <1>2, <3>2
      <4>2. Goes(r)
        BY <3>2, OneReport
      <4>3. Headers(lines, FALSE) /\ NoAnswers(lines)
        BY <3>2, <4>1 DEF Headers, NoAnswers, AnswerKinds
      <4>. HIDE DEF Goes, r
      <4>. QED  BY <4>1, <4>2, <4>3
    <3>. HIDE DEF Goes
    <3>. QED  BY <2>3, <2>4, <3>1, <3>2
  <2>6. \E r \in Seq(Line) : /\ Reports(rx') = Reports(rx) \o r
                            /\ Reports(reported') = Reports(reported) \o r
    BY <1>0, <2>1, <2>5
  <2>. QED  BY <1>0, <1>7, <2>1, <2>2, <2>5, <2>6
<1>. QED  BY <1>4, <1>5, <1>6, <1>7 DEF Modem

-----------------------------------------------------------------------------
(* Reports.  What tells a PDU from the data of an answer is the flag that  *)
(* its header sets, so the flag has to be right about the next line.       *)

ReportInv ==
  /\ Reports(reported) = Reports(delivered) \o Reports(rx)
  /\ Headers(rx, at.awaitingCmtPdu)

\* Reading a line hands a report's line to the subscriber, and no other.
LEMMA ReportRead ==
  ASSUME TypeOK, TypeOK', ReportInv, ReadLine
  PROVE  ReportInv'
<1>. DEFINE line == Head(rx)
            first == IF IsReport(line) THEN <<line>> ELSE <<>>
            u == rx
            v == Tail(rx)
            a == at.awaitingCmtPdu
            b == at'.awaitingCmtPdu
<1>1. /\ u \in Seq(Line) /\ u # <<>> /\ rx' = v /\ line \in Line
      /\ b <=> IF Ignored(line) THEN a ELSE ~a /\ line.kind = "CMT"
      /\ delivered' = IF EmitsUrc(at, line) /\ (IsReport(line) \/ line.kind = "REG")
                      THEN Append(delivered, line) ELSE delivered
      /\ reported' = reported
  BY LineHandled
<1>2. a \in BOOLEAN /\ b \in BOOLEAN /\ delivered \in Seq(Line)
  BY DEF TypeOK, AtRecord
<1>3. /\ Headers(v, ~a /\ line.kind = "CMT")
      /\ a <=> line.kind = "PDU"
      /\ v \in Seq(Line)
  BY <1>1, <1>2, LineRead DEF ReportInv
<1>4. Reports(u) = first \o Reports(v) /\ Reports(v) \in Seq(Line)
  BY <1>1, <1>3, ReportsRead, NoReports
<1>5. IsReport(line) => EmitsUrc(at, line)
  BY <1>3 DEF IsReport, EmitsUrc, Ignored, IsUrcLine, ExpectsPlusLine
<1>6. b <=> ~a /\ line.kind = "CMT"
  BY <1>1, <1>3 DEF Ignored
<1>. HIDE DEF line, u, v, a, b
<1>7. Headers(v, b)
  <2>1. b = (~a /\ line.kind = "CMT")
    BY <1>2, <1>6
  <2>. QED  BY <1>3, <2>1
<1>8. Reports(reported) = Reports(delivered') \o Reports(v)
  <2>. DEFINE d == Reports(delivered)
              r == Reports(v)
              z == Reports(reported)
  <2>1. z = d \o (first \o r) /\ d \in Seq(Line) /\ r \in Seq(Line)
    BY <1>2, <1>4, NoReports DEF ReportInv, u
  <2>2. Reports(delivered') = IF IsReport(line) THEN Append(d, line) ELSE d
    BY <1>1, <1>2, <1>5, ReportsAppended
  <2>. HIDE DEF d, r, z
  <2>3. CASE IsReport(line)
    <3>1. d \o (<<line>> \o r) = Append(d, line) \o r
      BY <1>1, <2>1
    <3>. QED  BY <2>1, <2>2, <2>3, <3>1 DEF r, z
  <2>4. CASE ~IsReport(line)
    <3>1. d \o (<<>> \o r) = d \o r
      BY <2>1
    <3>. QED  BY <2>1, <2>2, <2>4, <3>1 DEF r, z
  <2>. QED  BY <2>3, <2>4
<1>. QED  BY <1>1, <1>7, <1>8 DEF ReportInv, b

\* What the modem sends waits behind the rest.
LEMMA ReportSent ==
  ASSUME TypeOK, ReportInv, Modem
  PROVE  ReportInv'
<1>. DEFINE r == Reports(rx)
            d == Reports(delivered)
            z == Reports(reported)
<1>1. /\ rx \in Seq(Line) /\ delivered \in Seq(Line) /\ r \in Seq(Line) /\ d \in Seq(Line)
      /\ z = d \o r
      /\ Headers(rx, at.awaitingCmtPdu) /\ at' = at /\ delivered' = delivered
  BY NoReports, ChannelLeft, LinesSent DEF TypeOK, ReportInv
<1>2. CASE UNCHANGED <<rx, reported>>
  BY <1>1, <1>2 DEF ReportInv
<1>3. ASSUME NEW lines \in Seq(Line), rx' = rx \o lines, Headers(lines, FALSE),
             NEW q \in Seq(Line), Reports(rx') = r \o q, Reports(reported') = z \o q
      PROVE  ReportInv'
  <2>1. Headers(rx', at'.awaitingCmtPdu)
    BY <1>1, <1>3, HeadersAdded
  <2>2. Reports(reported') = z \o q /\ Reports(rx') = r \o q /\ Reports(delivered') = d
    BY <1>1, <1>3
  <2>. HIDE DEF d, r, z
  <2>3. (d \o r) \o q = d \o (r \o q)
    BY <1>1
  <2>4. Reports(reported') = Reports(delivered') \o Reports(rx')
    BY <1>1, <2>2, <2>3
  <2>. QED  BY <2>1, <2>4 DEF ReportInv
<1>4. ASSUME NEW lines \in Seq(Line), rx' = rx \o lines, Headers(lines, FALSE),
             reported' = reported, Reports(rx') = r
      PROVE  ReportInv'
  <2>1. Headers(rx', at'.awaitingCmtPdu)
    BY <1>1, <1>4, HeadersAdded
  <2>2. Reports(reported') = z /\ Reports(rx') = r /\ Reports(delivered') = d
    BY <1>1, <1>4
  <2>. QED  BY <1>1, <2>1, <2>2 DEF ReportInv
<1>. HIDE DEF d
<1>. QED  BY <1>2, <1>3, <1>4, LinesSent

\* Every step keeps the reports in order.
LEMMA ReportNext ==
  ASSUME TypeOK, TypeOK', ReportInv, [Next]_vars, ~LossyUart
  PROVE  ReportInv'
<1>1. CASE ReadLine
  BY <1>1, ReportRead
<1>2. CASE Modem
  BY <1>2, ReportSent
<1>3. CASE Poll
  <2>1. UNCHANGED <<rx, reported, delivered>> /\ (at'.awaitingCmtPdu <=> at.awaitingCmtPdu)
    BY <1>3, ChannelPolled
  <2>2. at'.awaitingCmtPdu = at.awaitingCmtPdu
    BY <2>1 DEF TypeOK, AtRecord
  <2>. QED  BY <2>1, <2>2 DEF ReportInv
<1>4. CASE (\E c \in Commands : SubmitTask(c)) \/ Drained \/ TurnEnds \/ Tick \/ UNCHANGED vars
  <2>1. UNCHANGED <<rx, reported, delivered>>
    BY <1>4 DEF SubmitTask, Drained, TurnEnds, Tick, vars, modemVars
  <2>2. at'.awaitingCmtPdu <=> at.awaitingCmtPdu
    BY <1>4, ChannelLeft
  <2>3. at'.awaitingCmtPdu = at.awaitingCmtPdu
    BY <2>2 DEF TypeOK, AtRecord
  <2>. QED  BY <2>1, <2>3 DEF ReportInv
<1>5. ~LoseLine
  BY DEF LoseLine
<1>. QED  BY <1>1, <1>2, <1>3, <1>4, <1>5 DEF Next, Loop

-----------------------------------------------------------------------------
(* Reports of the registration.  The response that took one stays with the *)
(* command it was taken for.                                               *)

RegistrationInv ==
  /\ Len(answers) = Len(completed)
  /\ \A x \in Line :
       x.kind = "REG" /\ Holds(reported, x) =>
         Holds(delivered, x) \/ Holds(rx, x) \/ TakenByQuery(x)

\* A line added to a sequence leaves the others where they are.
LEMMA HoldsAppended ==
  ASSUME NEW u \in Seq(Line), NEW x \in Line
  PROVE  /\ Holds(Append(u, x), x)
         /\ \A y : Holds(u, y) => Holds(Append(u, x), y)
<1>. DEFINE w == Append(u, x)
            n == Len(u)
<1>1. /\ n \in Nat /\ DOMAIN u = 1 .. n /\ DOMAIN w = 1 .. n + 1
      /\ w[n + 1] = x /\ \A i \in 1 .. n : w[i] = u[i]
  OBVIOUS
<1>. HIDE DEF w, n
<1>2. n + 1 \in DOMAIN w /\ DOMAIN u \subseteq DOMAIN w
  BY <1>1
<1>. QED  BY <1>1, <1>2 DEF Holds, w

\* The last command written is the one without a callback.
LEMMA OpenCommand ==
  ASSUME TypeOK, RingInv, Len(answers) = Len(completed)
  PROVE  /\ \A k \in DOMAIN written :
              k \notin DOMAIN answers => k = Len(completed) + 1 /\ at.hasCurrent
         /\ at.hasCurrent => /\ Len(written) = Len(completed) + 1
                            /\ Len(written) \in DOMAIN written
                            /\ Len(written) \notin DOMAIN answers
                            /\ written[Len(written)] = at.current
<1>. DEFINE c == Len(completed)
            w == Len(written)
<1>1. /\ c \in Nat /\ w \in Nat /\ DOMAIN answers = 1 .. c /\ DOMAIN written = 1 .. w
      /\ at.hasCurrent \in BOOLEAN
  BY DEF TypeOK, AtRecord
<1>2. /\ w = c + (IF at.hasCurrent THEN 1 ELSE 0)
      /\ at.hasCurrent => at.current = written[w]
  BY DEF RingInv, RingHolds
<1>. HIDE DEF c, w
<1>3. at.hasCurrent => w = c + 1 /\ w \in 1 .. w /\ w \notin 1 .. c
  BY <1>1, <1>2
<1>4. ASSUME NEW k \in 1 .. w, k \notin 1 .. c PROVE k = c + 1 /\ at.hasCurrent
  BY <1>1, <1>2, <1>4
<1>. QED  BY <1>1, <1>2, <1>3, <1>4 DEF c, w

\* A response only grows, and keeps what it holds when it is handed over.
ResponseKept(r, s) ==
  s = r \/ \E x \in Line : Len(r) < ResponseCapacity /\ s = Append(r, x)

LEMMA KeptHolds ==
  ASSUME NEW r \in Seq(Line), NEW s, ResponseKept(r, s), NEW x
  PROVE  /\ Holds(r, x) => Holds(s, x)
         /\ Len(r) = ResponseCapacity => Len(s) = ResponseCapacity
<1>1. CASE s = r
  BY <1>1
<1>2. ASSUME NEW y \in Line, Len(r) < ResponseCapacity, s = Append(r, y)
      PROVE  /\ Holds(r, x) => Holds(s, x)
             /\ Len(r) # ResponseCapacity
  BY <1>2, HoldsAppended, ModemAtCoreAssumption
<1>. QED  BY <1>1, <1>2 DEF ResponseKept

LEMMA ResponsesKept ==
  ASSUME TypeOK, TypeOK', RingInv, Len(answers) = Len(completed), [Next]_vars
  PROVE  /\ Len(answers') = Len(completed')
         /\ \A k \in DOMAIN written :
              /\ k \in DOMAIN written' /\ written'[k] = written[k]
              /\ ResponseOf(k) \in Seq(Line)
              /\ ResponseKept(ResponseOf(k), ResponseOf(k)')
<1>. DEFINE A == [response : Seq(Line), by : Nat]
            C == Commands \X Results
            n == Len(completed)
            SameAnswers == UNCHANGED <<completed, answers>>
            Called(response) ==
              \E p \in C, by \in Nat :
                /\ completed' = Append(completed, p)
                /\ answers' = Append(answers, [response |-> response, by |-> by])
<1>0. /\ answers \in Seq(A) /\ completed \in Seq(C) /\ n \in Nat /\ DOMAIN answers = 1 .. n
      /\ at.response \in Seq(Line) /\ at'.response \in Seq(Line) /\ written \in Seq(Commands)
  BY DEF TypeOK, AtRecord
<1>1. ASSUME NEW k \in DOMAIN answers PROVE answers[k] \in A /\ answers[k].response \in Seq(Line)
  <2>1. \A y \in A : y.response \in Seq(Line)
    OBVIOUS
  <2>. HIDE DEF A
  <2>2. answers[k] \in A
    BY <1>0
  <2>. QED  BY <2>1, <2>2
<1>2. ASSUME NEW k \in DOMAIN written PROVE ResponseOf(k) \in Seq(Line)
  BY <1>0, <1>1 DEF ResponseOf
<1>3. ASSUME NEW response \in Seq(Line), Called(response)
      PROVE  /\ Len(answers') = Len(completed')
             /\ DOMAIN answers' = 1 .. n + 1
             /\ \A k \in 1 .. n : answers'[k] = answers[k]
             /\ answers'[n + 1].response = response
  <2>1. PICK p \in C, by \in Nat :
          /\ completed' = Append(completed, p)
          /\ answers' = Append(answers, [response |-> response, by |-> by])
    BY <1>3
  <2>. DEFINE y == [response |-> response, by |-> by]
  <2>2. y \in A /\ y.response = response
    OBVIOUS
  <2>. HIDE DEF y, A, C
  <2>3. answers' = Append(answers, y)
    BY <2>1 DEF y
  <2>4. /\ Len(answers') = n + 1 /\ DOMAIN answers' = 1 .. n + 1
        /\ \A k \in 1 .. n : answers'[k] = answers[k]
        /\ answers'[n + 1] = y
    BY <1>0, <2>2, <2>3
  <2>5. Len(completed') = n + 1
    BY <1>0, <2>1
  <2>. QED  BY <2>2, <2>4, <2>5
<1>. HIDE DEF A, C
<1>4. \A k \in DOMAIN written : k \notin DOMAIN answers => k = n + 1 /\ at.hasCurrent
  BY OpenCommand
<1>. HIDE DEF n
<1>5. ASSUME NEW response \in Seq(Line), ResponseKept(at.response, response),
             (SameAnswers /\ (at.hasCurrent => at'.response = response)) \/ Called(response)
      PROVE  /\ Len(answers') = Len(completed')
             /\ \A k \in DOMAIN written : ResponseKept(ResponseOf(k), ResponseOf(k)')
  <2>1. CASE Called(response)
    <3>1. /\ Len(answers') = Len(completed')
          /\ DOMAIN answers' = 1 .. n + 1
          /\ \A k \in 1 .. n : answers'[k] = answers[k]
          /\ answers'[n + 1].response = response
      <4>. HIDE DEF Called
      <4>. QED  BY <1>3, <2>1
    <3>2. 1 .. n \subseteq 1 .. n + 1 /\ n + 1 \in 1 .. n + 1
      BY <1>0
    <3>3. ASSUME NEW k \in DOMAIN written PROVE ResponseKept(ResponseOf(k), ResponseOf(k)')
      <4>1. CASE k \in DOMAIN answers
        BY <1>0, <3>1, <3>2, <4>1 DEF ResponseOf, ResponseKept
      <4>2. CASE k \notin DOMAIN answers
        <5>1. ResponseOf(k) = at.response /\ ResponseOf(k)' = response
          BY <1>4, <3>1, <3>2, <4>2 DEF ResponseOf
        <5>. QED  BY <1>5, <5>1
      <4>. QED  BY <4>1, <4>2
    <3>. QED  BY <3>1, <3>3
  <2>2. CASE SameAnswers /\ (at.hasCurrent => at'.response = response)
    <3>1. ASSUME NEW k \in DOMAIN written PROVE ResponseKept(ResponseOf(k), ResponseOf(k)')
      <4>1. CASE k \in DOMAIN answers
        BY <2>2, <4>1 DEF ResponseOf, ResponseKept
      <4>2. CASE k \notin DOMAIN answers
        <5>1. ResponseOf(k) = at.response /\ ResponseOf(k)' = response
          BY <1>4, <2>2, <4>2 DEF ResponseOf
        <5>. QED  BY <1>5, <5>1
      <4>. QED  BY <4>1, <4>2
    <3>. QED  BY <2>2, <3>1
  <2>. QED  BY <1>5, <2>1, <2>2
<1>6. \A k \in DOMAIN written : k \in DOMAIN written' /\ written'[k] = written[k]
  <2>1. written' = written \/ \E c : written' = Append(written, c)
    <3>1. CASE ReadLine
      BY <3>1, LineHandled
    <3>2. CASE Poll
      BY <3>2, ChannelPolled
    <3>3. CASE ~ReadLine /\ ~Poll
      BY <3>3, ChannelLeft DEF Next, Loop
    <3>. QED  BY <3>1, <3>2, <3>3
  <2>2. ASSUME NEW c, written' = Append(written, c), NEW k \in DOMAIN written
        PROVE  k \in DOMAIN written' /\ written'[k] = written[k]
    BY <1>0, <2>2
  <2>. QED  BY <2>1, <2>2
<1>7. /\ Len(answers') = Len(completed')
      /\ \A k \in DOMAIN written : ResponseKept(ResponseOf(k), ResponseOf(k)')
  <2>1. CASE ReadLine
    <3>. DEFINE line == Head(rx)
    <3>1. /\ line \in Line
          /\ at'.response = IF Appends(at, line) THEN AppendResponseLine(at.response, line)
                            ELSE at.response
          /\ ~Completes(at, line) => SameAnswers
          /\ Completes(at, line) =>
               /\ \E r \in Results : completed' = Append(completed, <<at.current, r>>)
               /\ answers' = Append(answers, [response |-> at'.response, by |-> line.tag])
      BY <2>1, LineHandled
    <3>. HIDE DEF line
    <3>2. ResponseKept(at.response, at'.response)
      BY <3>1 DEF AppendResponseLine, ResponseKept
    <3>3. Completes(at, line) => Called(at'.response)
      <4>. SUFFICES ASSUME Completes(at, line) PROVE Called(at'.response)
        OBVIOUS
      <4>1. PICK r \in Results : completed' = Append(completed, <<at.current, r>>)
        BY <3>1
      <4>2. line.tag \in Nat
        BY <3>1 DEF Line
      <4>3. at.hasCurrent
        BY DEF Completes
      <4>4. <<at.current, r>> \in C
        <5>1. at.current = written[Len(written)] /\ Len(written) \in DOMAIN written
          BY <4>3, OpenCommand
        <5>. QED  BY <1>0, <5>1 DEF C
      <4>. QED  BY <3>1, <4>1, <4>2, <4>4
    <3>. HIDE DEF Called, SameAnswers
    <3>4. SameAnswers \/ Called(at'.response)
      BY <3>1, <3>3
    <3>. QED  BY <1>0, <1>5, <3>2, <3>4
  <2>2. CASE Poll
    <3>1. CASE Expired(at, now)
      <4>1. /\ completed' = Append(completed, <<at.current, "Timeout">>)
            /\ answers' = Append(answers, [response |-> at.response, by |-> 0])
        BY <2>2, <3>1, ChannelPolled
      <4>2. <<at.current, "Timeout">> \in C
        <5>1. at.current = written[Len(written)] /\ Len(written) \in DOMAIN written
          BY <3>1, OpenCommand DEF Expired
        <5>. QED  BY <1>0, <5>1 DEF C, Results
      <4>3. 0 \in Nat
        OBVIOUS
      <4>4. Called(at.response)
        BY <4>1, <4>2, <4>3
      <4>. HIDE DEF Called, SameAnswers
      <4>. QED  BY <1>0, <1>5, <4>4 DEF ResponseKept
    <3>2. CASE ~Expired(at, now)
      <4>1. SameAnswers /\ (at.hasCurrent => at'.response = at.response)
        BY <2>2, <3>2, ChannelPolled
      <4>. HIDE DEF Called, SameAnswers
      <4>. QED  BY <1>0, <1>5, <4>1 DEF ResponseKept
    <3>. QED  BY <3>1, <3>2
  <2>3. CASE ~ReadLine /\ ~Poll
    <3>1. SameAnswers /\ at'.response = at.response
      BY <2>3, ChannelLeft DEF Next, Loop
    <3>. HIDE DEF Called, SameAnswers
    <3>. QED  BY <1>0, <1>5, <3>1 DEF ResponseKept
  <2>. QED  BY <2>1, <2>2, <2>3
<1>. QED  BY <1>2, <1>6, <1>7

\* The report of the registration that is read goes to the subscriber or to
\* the query at work.
LEMMA RegistrationRead ==
  ASSUME TypeOK, TypeOK', RingInv, ReportInv, Len(answers) = Len(completed), ReadLine,
         NEW line \in Line, line = Head(rx), line.kind = "REG"
  PROVE  Holds(delivered', line) \/ TakenByQuery(line)'
<1>0. PICK k : k = Len(written)
  OBVIOUS
<1>1. /\ rx \in Seq(Line) /\ rx # <<>>
      /\ at'.response = IF Appends(at, line) THEN AppendResponseLine(at.response, line)
                        ELSE at.response
      /\ delivered' = IF EmitsUrc(at, line) /\ (IsReport(line) \/ line.kind = "REG")
                      THEN Append(delivered, line) ELSE delivered
      /\ ~Completes(at, line) => UNCHANGED <<completed, answers>>
      /\ UNCHANGED written
  BY LineHandled
<1>2. delivered \in Seq(Line) /\ at.response \in Seq(Line) /\ Len(at.response) <= ResponseCapacity
      /\ at.awaitingCmtPdu \in BOOLEAN
  BY DEF TypeOK, AtRecord
<1>3. CASE EmitsUrc(at, line)
  BY <1>1, <1>2, <1>3, HoldsAppended
<1>4. CASE ~EmitsUrc(at, line)
  <2>1. /\ at.hasCurrent /\ at.current \in CeregQueries /\ Appends(at, line)
        /\ ~Completes(at, line)
    BY <1>1, <1>4 DEF EmitsUrc, Ignored, IsUrcLine, ExpectsPlusLine, Appends, Completes, IsFinal
  <2>2. /\ k \in DOMAIN written' /\ written'[k] \in CeregQueries /\ k \notin DOMAIN answers'
    BY <1>0, <1>1, <2>1, OpenCommand
  <2>. DEFINE r == at.response
              s == at'.response
  <2>3. s = AppendResponseLine(r, line)
    BY <1>1, <2>1
  <2>4. Holds(s, line) \/ Len(s) = ResponseCapacity
    <3>1. r \in Seq(Line) /\ Len(r) <= ResponseCapacity /\ Len(r) \in Nat
      BY <1>2
    <3>. HIDE DEF r, s
    <3>2. CASE Len(r) < ResponseCapacity
      BY <1>1, <2>3, <3>1, <3>2, HoldsAppended DEF AppendResponseLine
    <3>3. CASE ~(Len(r) < ResponseCapacity)
      BY <2>3, <3>1, <3>3, ModemAtCoreAssumption DEF AppendResponseLine
    <3>. QED  BY <3>2, <3>3
  <2>5. ResponseOf(k)' = s
    BY <1>1, <2>2 DEF ResponseOf
  <2>. HIDE DEF s
  <2>. QED  BY <1>1, <2>2, <2>4, <2>5 DEF TakenByQuery
<1>. QED  BY <1>3, <1>4

\* Every step keeps account of the reports of the registration.
LEMMA RegistrationNext ==
  ASSUME TypeOK, TypeOK', RingInv, ReportInv, RegistrationInv, [Next]_vars, ~LossyUart
  PROVE  RegistrationInv'
<1>1. /\ Len(answers) = Len(completed) /\ rx \in Seq(Line) /\ delivered \in Seq(Line)
      /\ reported \in Seq(Line)
  BY DEF RegistrationInv, TypeOK
<1>2. Len(answers') = Len(completed')
  BY <1>1, ResponsesKept
<1>3. ASSUME NEW x, TakenByQuery(x) PROVE TakenByQuery(x)'
  <2>1. PICK k \in DOMAIN written :
          /\ written[k] \in CeregQueries
          /\ Holds(ResponseOf(k), x) \/ Len(ResponseOf(k)) = ResponseCapacity
    BY <1>3 DEF TakenByQuery
  <2>2. /\ k \in DOMAIN written' /\ written'[k] = written[k]
        /\ ResponseOf(k) \in Seq(Line)
        /\ ResponseKept(ResponseOf(k), ResponseOf(k)')
    BY <1>1, ResponsesKept
  <2>. DEFINE r == ResponseOf(k)
              s == ResponseOf(k)'
  <2>3. Holds(s, x) \/ Len(s) = ResponseCapacity
    <3>1. r \in Seq(Line) /\ ResponseKept(r, s) /\ (Holds(r, x) \/ Len(r) = ResponseCapacity)
      BY <2>1, <2>2
    <3>. HIDE DEF r, s
    <3>. QED  BY <3>1, KeptHolds
  <2>. QED  BY <2>1, <2>2, <2>3 DEF TakenByQuery
<1>. DEFINE Found(x) == Holds(delivered, x) \/ Holds(rx, x) \/ TakenByQuery(x)
<1>4. ASSUME NEW x \in Line, x.kind = "REG", Holds(reported, x) PROVE Found(x)
  BY <1>4 DEF RegistrationInv
<1>5. CASE ReadLine
  <2>. DEFINE line == Head(rx)
  <2>1. /\ rx # <<>> /\ rx' = Tail(rx) /\ line \in Line /\ reported' = reported
        /\ delivered' \in {delivered, Append(delivered, line)}
    BY <1>5, LineHandled
  <2>2. ASSUME NEW x, Holds(rx, x) PROVE x = line \/ Holds(rx', x)
    <3>1. PICK i \in DOMAIN rx : rx[i] = x
      BY <2>2 DEF Holds
    <3>2. i = 1 \/ (i - 1 \in DOMAIN Tail(rx) /\ Tail(rx)[i - 1] = rx[i])
      BY <1>1, <2>1
    <3>. QED  BY <1>1, <2>1, <3>1, <3>2 DEF Holds
  <2>3. ASSUME NEW x, Holds(delivered, x) PROVE Holds(delivered', x)
    BY <1>1, <2>1, <2>3, HoldsAppended
  <2>4. ASSUME NEW x \in Line, x.kind = "REG", Holds(reported, x)
        PROVE  Holds(delivered', x) \/ Holds(rx', x) \/ TakenByQuery(x)'
    <3>1. Found(x)
      BY <1>4, <2>4
    <3>2. x = line => Holds(delivered', x) \/ TakenByQuery(x)'
      BY <1>1, <1>5, <2>4, RegistrationRead
    <3>. HIDE DEF line
    <3>. QED  BY <1>3, <2>2, <2>3, <3>1, <3>2
  <2>. QED  BY <1>2, <2>1, <2>4 DEF RegistrationInv
<1>6. ASSUME UNCHANGED <<reported, delivered>>, \A x : Holds(rx, x) => Holds(rx', x)
      PROVE  RegistrationInv'
  BY <1>2, <1>3, <1>4, <1>6 DEF RegistrationInv
<1>7. CASE Modem
  <2>1. delivered' = delivered
    BY <1>7, ChannelLeft
  <2>2. CASE UNCHANGED <<rx, reported>>
    BY <1>6, <2>1, <2>2
  <2>3. ASSUME NEW lines \in Seq(Line), rx' = rx \o lines,
               reported' = reported \/ reported' = reported \o lines
        PROVE  RegistrationInv'
    <3>1. ASSUME NEW u \in Seq(Line), NEW x PROVE
            Holds(u \o lines, x) <=> Holds(u, x) \/ Holds(lines, x)
      <4>. DEFINE w == u \o lines
                  m == Len(u)
                  n == Len(lines)
      <4>1. /\ m \in Nat /\ n \in Nat
            /\ DOMAIN u = 1 .. m /\ DOMAIN lines = 1 .. n /\ DOMAIN w = 1 .. m + n
            /\ \A k \in 1 .. m : w[k] = u[k]
            /\ \A k \in 1 .. n : w[m + k] = lines[k]
            /\ \A k \in DOMAIN w : k \in 1 .. m \/ (k > m /\ k - m \in 1 .. n /\ m + (k - m) = k)
        BY LinesAdded
      <4>. HIDE DEF w, m, n
      <4>2. \A k \in 1 .. n : m + k \in 1 .. m + n
        BY <4>1
      <4>3. \A k \in 1 .. m : k \in 1 .. m + n
        BY <4>1
      <4>4. Holds(w, x) <=> Holds(u, x) \/ Holds(lines, x)
        BY <4>1, <4>2, <4>3 DEF Holds
      <4>. QED  BY <4>4 DEF w
    <3>2. ASSUME NEW x \in Line, x.kind = "REG", Holds(reported', x)
          PROVE  Holds(delivered', x) \/ Holds(rx', x) \/ TakenByQuery(x)'
      <4>1. Holds(reported, x) \/ Holds(lines, x)
        BY <1>1, <2>3, <3>1, <3>2
      <4>2. Holds(lines, x) \/ Holds(rx, x) => Holds(rx', x)
        BY <1>1, <2>3, <3>1
      <4>3. Holds(reported, x) => Found(x)
        BY <1>4, <3>2
      <4>. QED  BY <1>3, <2>1, <4>1, <4>2, <4>3
    <3>. QED  BY <1>2, <3>2 DEF RegistrationInv
  <2>. QED  BY <1>7, <2>2, <2>3, LinesSent
<1>8. CASE Poll
  BY <1>6, <1>8, ChannelPolled
<1>9. CASE (\E c \in Commands : SubmitTask(c)) \/ Drained \/ TurnEnds \/ Tick \/ UNCHANGED vars
  <2>1. UNCHANGED <<rx, reported, delivered>>
    BY <1>9 DEF SubmitTask, Drained, TurnEnds, Tick, vars, modemVars
  <2>. QED  BY <1>6, <2>1
<1>10. ~LoseLine
  BY DEF LoseLine
<1>. QED  BY <1>5, <1>7, <1>8, <1>9, <1>10 DEF Next, Loop

\* As long as the UART loses no line: whatever the modem answers or reports,
\* early or late, and whatever command it interrupts, each line of a delivered
\* message or notice that has been read went to the URC callback, in order,
\* and each report of the registration went to it or to an AT+CEREG? at work.
THEOREM ReportsReachSubscriber == ~LossyUart => (Spec => []UrcReachesSubscriber)
<1>. SUFFICES ASSUME ~LossyUart PROVE Spec => []UrcReachesSubscriber
  OBVIOUS
<1>1. Init => TypeOK /\ RingInv
  BY InitStep
<1>2. Init => ReportInv
  <2>1. <<>> \in Seq(Line)
    OBVIOUS
  <2>. DEFINE e == Reports(<<>>)
  <2>2. e = <<>>
    BY NoReports
  <2>3. Init => Reports(reported) = e /\ Reports(delivered) = e /\ Reports(rx) = e
    BY DEF Init
  <2>. HIDE DEF e
  <2>4. e = e \o e
    BY <2>2
  <2>. QED  BY <2>3, <2>4 DEF Init, ReportInv, AtBegin, Headers
<1>3. Init => RegistrationInv
  BY DEF Init, RegistrationInv, Holds
<1>4. TypeOK /\ RingInv /\ ReportInv /\ RegistrationInv /\ [Next]_vars
        => (TypeOK /\ RingInv /\ ReportInv /\ RegistrationInv)'
  BY NextStep, ReportNext, RegistrationNext
<1>5. TypeOK /\ ReportInv /\ RegistrationInv => UrcReachesSubscriber
  <2>. SUFFICES ASSUME TypeOK, ReportInv, RegistrationInv,
                       NEW i \in DOMAIN reported, reported[i].kind = "REG"
                PROVE  \/ Holds(delivered, reported[i]) \/ Holds(rx, reported[i])
                       \/ TakenByQuery(reported[i])
    BY DEF ReportInv, UrcReachesSubscriber
  <2>1. reported[i] \in Line /\ Holds(reported, reported[i])
    BY DEF TypeOK, Holds
  <2>. QED  BY <2>1 DEF RegistrationInv
<1>. QED  BY <1>1, <1>2, <1>3, <1>4, <1>5, PTL DEF Spec

-----------------------------------------------------------------------------
(* Answers.  The lines that wait belong to the answer of the current       *)
(* command, and none is left when the command ends.                        *)

OwnLines(lines, k, c) == \A i \in DOMAIN lines : BelongsTo(lines[i], k, c)

WaitingInv ==
  /\ Headers(rx, at.awaitingCmtPdu)
  /\ OneAnswer(rx)
  /\ ~at.hasCurrent \/ Expired(at, now) => NoAnswers(rx)
  /\ \A k \in DOMAIN rx : rx[k].kind \in AnswerKinds => rx[k].tag = Len(written)
  /\ (\E k \in DOMAIN rx : IsFinal(rx[k])) => answered = Len(written)
  /\ at.hasCurrent => OwnLines(at.response, Len(written), at.current)

\* Each callback of com had the answer of its own command.
OwnAnswers(com, ans) ==
  /\ Len(ans) = Len(com)
  /\ \A k \in DOMAIN com :
       /\ com[k][2] # "Timeout" => ans[k].by = k
       /\ OwnLines(ans[k].response, k, com[k][1])

AnsweredInv == OwnAnswers(completed, answers)

\* A callback is made with the answer of its own command.
LEMMA CallbackAdded ==
  ASSUME NEW com \in Seq(Commands \X Results),
         NEW ans \in Seq([response : Seq(Line), by : Nat]), OwnAnswers(com, ans),
         NEW c \in Commands, NEW r \in Results, NEW response \in Seq(Line), NEW by \in Nat,
         r # "Timeout" => by = Len(com) + 1, OwnLines(response, Len(com) + 1, c)
  PROVE  OwnAnswers(Append(com, <<c, r>>), Append(ans, [response |-> response, by |-> by]))
<1>. DEFINE x == <<c, r>>
            y == [response |-> response, by |-> by]
            com2 == Append(com, x)
            ans2 == Append(ans, y)
            n == Len(com)
            A == [response : Seq(Line), by : Nat]
            C == Commands \X Results
<1>1. x \in C /\ x[1] = c /\ x[2] = r /\ y \in A /\ y.response = response /\ y.by = by
  OBVIOUS
<1>2. com \in Seq(C) /\ ans \in Seq(A) /\ Len(ans) = n /\ n \in Nat
  BY DEF OwnAnswers
<1>. HIDE DEF x, y, A, C
<1>3. /\ Len(com2) = n + 1 /\ Len(ans2) = n + 1 /\ DOMAIN com2 = 1 .. n + 1 /\ DOMAIN com = 1 .. n
      /\ com2[n + 1] = x /\ ans2[n + 1] = y
      /\ \A k \in 1 .. n : com2[k] = com[k] /\ ans2[k] = ans[k]
  BY <1>1, <1>2
<1>. HIDE DEF com2, ans2, n
<1>4. ASSUME NEW k \in DOMAIN com2
      PROVE  /\ com2[k][2] # "Timeout" => ans2[k].by = k
             /\ OwnLines(ans2[k].response, k, com2[k][1])
  <2>1. CASE k = n + 1
    BY <1>1, <1>3, <2>1 DEF n
  <2>2. CASE k # n + 1
    <3>1. k \in 1 .. n
      BY <1>2, <1>3, <2>2
    <3>. QED  BY <1>3, <3>1 DEF OwnAnswers
  <2>. QED  BY <2>1, <2>2
<1>. QED  BY <1>3, <1>4 DEF OwnAnswers, com2, ans2, x, y

\* A line read goes to the response of the command it answers, or ends it.
LEMMA AnswerRead ==
  ASSUME TypeOK, TypeOK', RingInv, WaitingInv, AnsweredInv, ReadLine
  PROVE  WaitingInv' /\ AnsweredInv'
<1>. DEFINE line == Head(rx)
            u == rx
            v == Tail(rx)
            a == at.awaitingCmtPdu
            b == at'.awaitingCmtPdu
            n == Len(written)
<1>1. /\ u \in Seq(Line) /\ u # <<>> /\ rx' = v /\ line \in Line
      /\ b <=> IF Ignored(line) THEN a ELSE ~a /\ line.kind = "CMT"
      /\ at'.hasCurrent <=> at.hasCurrent /\ ~Completes(at, line)
      /\ at'.response = IF Appends(at, line) THEN AppendResponseLine(at.response, line)
                        ELSE at.response
      /\ at'.deadline = at.deadline /\ at'.current = at.current
      /\ ~Completes(at, line) => UNCHANGED <<completed, answers>>
      /\ Completes(at, line) =>
           /\ \E r \in Results : completed' = Append(completed, <<at.current, r>>)
           /\ answers' = Append(answers, [response |-> at'.response, by |-> line.tag])
      /\ UNCHANGED <<written, answered, reported, now>>
  BY LineHandled
<1>2. /\ a \in BOOLEAN /\ b \in BOOLEAN /\ at.hasCurrent \in BOOLEAN
      /\ at.response \in Seq(Line) /\ at'.response \in Seq(Line)
      /\ completed \in Seq(Commands \X Results)
      /\ answers \in Seq([response : Seq(Line), by : Nat])
  BY DEF TypeOK, AtRecord
<1>3. /\ v \in Seq(Line)
      /\ Headers(v, ~a /\ line.kind = "CMT")
      /\ a <=> line.kind = "PDU"
      /\ OneAnswer(v)
      /\ IsFinal(line) => NoAnswers(v)
      /\ NoAnswers(u) => NoAnswers(v)
      /\ \A k \in DOMAIN v : \E j \in DOMAIN u : v[k] = u[j]
  BY <1>1, <1>2, LineRead DEF WaitingInv
<1>4. 1 \in DOMAIN u /\ line = u[1]
  BY <1>1
<1>5. /\ line.kind \in AnswerKinds => line.tag = n
      /\ IsFinal(line) => answered = n
      /\ at.hasCurrent => OwnLines(at.response, n, at.current)
      /\ ~at.hasCurrent \/ Expired(at, now) => NoAnswers(u)
      /\ \A k \in DOMAIN u : u[k].kind \in AnswerKinds => u[k].tag = n
      /\ (\E k \in DOMAIN u : IsFinal(u[k])) => answered = n
  BY <1>4 DEF WaitingInv
<1>6. b <=> ~a /\ line.kind = "CMT"
  BY <1>1, <1>3 DEF Ignored
<1>7. Appends(at, line) => /\ line.kind \in AnswerKinds \/ line.kind = "REG"
                           /\ line.kind = "REG" => at.current \in CeregQueries
  BY <1>1, <1>3 DEF Appends, EmitsUrc, Ignored, IsUrcLine, ExpectsPlusLine, AnswerKinds, Line, Kinds
<1>8. Completes(at, line) => IsFinal(line) /\ line.kind \in AnswerKinds /\ at.hasCurrent
  BY DEF Completes, IsFinal, AnswerKinds
<1>9. Expired(at', now') => Expired(at, now)
  BY <1>1 DEF Expired
<1>. HIDE DEF line, u, v, a, b, n
<1>10. at.hasCurrent => OwnLines(at'.response, n, at.current)
  <2>. SUFFICES ASSUME at.hasCurrent PROVE OwnLines(at'.response, n, at.current)
    OBVIOUS
  <2>. DEFINE r == at.response
              q == at'.response
              c == at.current
  <2>1. r \in Seq(Line) /\ OwnLines(r, n, c)
    BY <1>2, <1>5
  <2>2. q = r \/ (q = Append(r, line) /\ Appends(at, line))
    BY <1>1 DEF AppendResponseLine
  <2>3. Appends(at, line) => BelongsTo(line, n, c)
    <3>1. "REG" \notin AnswerKinds
      BY DEF AnswerKinds
    <3>. QED  BY <1>5, <1>7, <3>1 DEF BelongsTo
  <2>. HIDE DEF r, q, c
  <2>4. CASE q = Append(r, line) /\ BelongsTo(line, n, c)
    <3>1. DOMAIN q = 1 .. Len(r) + 1 /\ DOMAIN r = 1 .. Len(r) /\ Len(r) \in Nat
          /\ q[Len(r) + 1] = line /\ \A i \in 1 .. Len(r) : q[i] = r[i]
      BY <1>1, <2>1, <2>4
    <3>2. ASSUME NEW i \in DOMAIN q PROVE BelongsTo(q[i], n, c)
      <4>1. i = Len(r) + 1 \/ i \in 1 .. Len(r)
        BY <3>1
      <4>. QED  BY <2>1, <2>4, <3>1, <4>1 DEF OwnLines
    <3>3. OwnLines(q, n, c)
      BY <3>2 DEF OwnLines
    <3>. QED  BY <3>3 DEF q, c
  <2>. QED  BY <2>1, <2>2, <2>3, <2>4 DEF q, c
<1>11. Headers(v, b)
  <2>1. b = (~a /\ line.kind = "CMT")
    BY <1>2, <1>6
  <2>. QED  BY <1>3, <2>1
<1>12. ASSUME ~at'.hasCurrent \/ Expired(at', now') PROVE NoAnswers(v)
  BY <1>1, <1>3, <1>5, <1>8, <1>9, <1>12
<1>13. WaitingInv'
  <2>1. /\ rx' = v /\ Len(written') = n /\ answered' = answered /\ at'.awaitingCmtPdu = b
    BY <1>1 DEF n, b
  <2>2. \A k \in DOMAIN v : v[k].kind \in AnswerKinds => v[k].tag = n
    BY <1>3, <1>5
  <2>3. (\E k \in DOMAIN v : IsFinal(v[k])) => answered = n
    BY <1>3, <1>5
  <2>4. at'.hasCurrent => OwnLines(at'.response, n, at'.current)
    BY <1>1, <1>10
  <2>. QED  BY <1>3, <1>11, <1>12, <2>1, <2>2, <2>3, <2>4 DEF WaitingInv
<1>14. AnsweredInv'
  <2>1. CASE ~Completes(at, line)
    BY <1>1, <2>1 DEF AnsweredInv
  <2>2. CASE Completes(at, line)
    <3>1. PICK r \in Results : completed' = Append(completed, <<at.current, r>>)
      BY <1>1, <2>2
    <3>2. answers' = Append(answers, [response |-> at'.response, by |-> line.tag])
      BY <1>1, <2>2
    <3>3. n = Len(completed) + 1 /\ at.current \in Commands
      <4>1. /\ Len(written) = Len(completed) + 1 /\ at.current = written[Len(written)]
            /\ written \in Seq(Commands) /\ Len(completed) \in Nat
        BY <1>2, <1>8, <2>2 DEF RingInv, RingHolds, TypeOK
      <4>. QED  BY <4>1 DEF n
    <3>4. line.tag = Len(completed) + 1
          /\ OwnLines(at'.response, Len(completed) + 1, at.current)
          /\ line.tag \in Nat
      BY <1>1, <1>5, <1>8, <1>10, <2>2, <3>3 DEF Line
    <3>5. OwnAnswers(Append(completed, <<at.current, r>>),
                     Append(answers, [response |-> at'.response, by |-> line.tag]))
      BY <1>2, <3>3, <3>4, CallbackAdded DEF AnsweredInv
    <3>. QED  BY <3>1, <3>2, <3>5 DEF AnsweredInv
  <2>. QED  BY <2>1, <2>2
<1>. QED  BY <1>13, <1>14

\* A command that times out has left no line behind for the next one.
LEMMA AnswerPolled ==
  ASSUME TypeOK, TypeOK', RingInv, WaitingInv, AnsweredInv, Poll
  PROVE  WaitingInv' /\ AnsweredInv'
<1>. DEFINE n == Len(written)
<1>1. /\ at'.awaitingCmtPdu <=> at.awaitingCmtPdu
      /\ UNCHANGED <<rx, answered, reported, delivered, now>>
      /\ ~Expired(at, now) => UNCHANGED <<completed, answers>>
      /\ Expired(at, now) =>
           /\ completed' = Append(completed, <<at.current, "Timeout">>)
           /\ answers' = Append(answers, [response |-> at.response, by |-> 0])
      /\ \/ /\ at.hasCurrent => Expired(at, now)
            /\ \E c : written' = Append(written, c)
            /\ at'.hasCurrent /\ at'.response = <<>>
         \/ /\ written' = written
            /\ at'.hasCurrent <=> at.hasCurrent /\ ~Expired(at, now)
            /\ at'.response = at.response /\ at'.deadline = at.deadline
            /\ at'.current = at.current
  BY ChannelPolled
<1>2. /\ at.response \in Seq(Line)
      /\ completed \in Seq(Commands \X Results)
      /\ answers \in Seq([response : Seq(Line), by : Nat])
      /\ at'.awaitingCmtPdu = at.awaitingCmtPdu
  BY <1>1 DEF TypeOK, AtRecord
<1>3. WaitingInv'
  <2>1. CASE /\ at.hasCurrent => Expired(at, now)
             /\ \E c : written' = Append(written, c)
             /\ at'.hasCurrent /\ at'.response = <<>>
    <3>1. NoAnswers(rx)
      BY <2>1 DEF WaitingInv
    <3>2. \A k \in DOMAIN rx : rx[k].kind \notin AnswerKinds /\ ~IsFinal(rx[k])
      BY <3>1 DEF NoAnswers, IsFinal, AnswerKinds
    <3>3. OwnLines(at'.response, Len(written'), at'.current)
      BY <2>1 DEF OwnLines
    <3>. QED  BY <1>1, <1>2, <3>1, <3>2, <3>3 DEF WaitingInv
  <2>2. CASE /\ written' = written
             /\ at'.hasCurrent <=> at.hasCurrent /\ ~Expired(at, now)
             /\ at'.response = at.response /\ at'.deadline = at.deadline
             /\ at'.current = at.current
    <3>1. ~at'.hasCurrent \/ Expired(at', now') => ~at.hasCurrent \/ Expired(at, now)
      BY <1>1, <2>2 DEF Expired
    <3>. QED  BY <1>1, <1>2, <2>2, <3>1 DEF WaitingInv
  <2>. QED  BY <1>1, <2>1, <2>2
<1>4. AnsweredInv'
  <2>1. CASE ~Expired(at, now)
    BY <1>1, <2>1 DEF AnsweredInv
  <2>2. CASE Expired(at, now)
    <3>1. n = Len(completed) + 1 /\ at.current \in Commands
      <4>1. /\ Len(written) = Len(completed) + 1 /\ at.current = written[Len(written)]
            /\ written \in Seq(Commands) /\ Len(completed) \in Nat
        BY <1>2, <2>2 DEF Expired, RingInv, RingHolds, TypeOK
      <4>. QED  BY <4>1
    <3>2. OwnLines(at.response, Len(completed) + 1, at.current)
      BY <2>2, <3>1 DEF WaitingInv, Expired
    <3>. DEFINE r == "Timeout"
                by == 0
    <3>3. r \in Results /\ r = "Timeout" /\ by \in Nat
      BY DEF Results
    <3>4. /\ completed' = Append(completed, <<at.current, r>>)
          /\ answers' = Append(answers, [response |-> at.response, by |-> by])
      BY <1>1, <2>2
    <3>. HIDE DEF r, by
    <3>5. OwnAnswers(Append(completed, <<at.current, r>>),
                     Append(answers, [response |-> at.response, by |-> by]))
      BY <1>2, <3>1, <3>2, <3>3, CallbackAdded DEF AnsweredInv
    <3>. QED  BY <3>4, <3>5 DEF AnsweredInv
  <2>. QED  BY <2>1, <2>2
<1>. QED  BY <1>3, <1>4

\* Only while the current command has time left does an answer come.
LEMMA AnswerSent ==
  ASSUME TypeOK, RingInv, WaitingInv, AnsweredInv, Modem, ~LateAnswers
  PROVE  WaitingInv' /\ AnsweredInv'
<1>1. /\ rx \in Seq(Line) /\ at' = at /\ now' = now
      /\ UNCHANGED <<written, completed, answers>> /\ answered \in Nat
  BY ChannelLeft, LinesSent DEF TypeOK
<1>2. AnsweredInv'
  BY <1>1 DEF AnsweredInv
<1>3. Expired(at', now') <=> Expired(at, now)
  BY <1>1
<1>4. CASE ModemSilent
  <2>1. rx' = rx /\ answered' = answered + 1 /\ answered < Len(written)
    BY <1>4 DEF ModemSilent
  <2>2. ~(\E k \in DOMAIN rx : IsFinal(rx[k]))
    BY <1>1, <2>1 DEF WaitingInv
  <2>. QED  BY <1>1, <1>2, <1>3, <2>1, <2>2 DEF WaitingInv
<1>5. ASSUME NEW lines \in Seq(Line), rx' = rx \o lines, Headers(lines, FALSE),
             NoAnswers(lines), answered' = answered
      PROVE  WaitingInv'
  <2>1. Headers(rx', at.awaitingCmtPdu)
    BY <1>1, <1>5, HeadersAdded DEF WaitingInv
  <2>2. /\ NoAnswers(rx) => NoAnswers(rx')
        /\ OneAnswer(rx')
        /\ \A k \in DOMAIN rx' :
             (\E j \in DOMAIN rx : rx'[k] = rx[j]) \/ (\E j \in DOMAIN lines : rx'[k] = lines[j])
    BY <1>1, <1>5, AnswersAdded DEF WaitingInv
  <2>3. \A k \in DOMAIN rx' : rx'[k].kind \in AnswerKinds => rx'[k].tag = Len(written)
    BY <1>5, <2>2 DEF WaitingInv, NoAnswers
  <2>4. (\E k \in DOMAIN rx' : IsFinal(rx'[k])) => answered = Len(written)
    BY <1>5, <2>2 DEF WaitingInv, NoAnswers, IsFinal, AnswerKinds
  <2>. QED  BY <1>1, <1>3, <1>5, <2>1, <2>2, <2>3, <2>4 DEF WaitingInv
<1>6. ASSUME NEW lines \in Seq(Line), rx' = rx \o lines, Headers(lines, FALSE), MayAnswer,
             OneAnswer(lines),
             \A k \in DOMAIN lines :
               /\ lines[k].kind \in AnswerKinds => lines[k].tag = answered + 1
               /\ IsFinal(lines[k]) => answered' = answered + 1,
             answered' \in {answered, answered + 1}
      PROVE  WaitingInv'
  <2>1. Len(written) = answered + 1 /\ at.hasCurrent /\ ~Expired(at, now)
    BY <1>6 DEF MayAnswer, InTime, Expired
  <2>2. \A k \in DOMAIN rx : ~IsFinal(rx[k])
    BY <1>1, <2>1 DEF WaitingInv
  <2>3. Headers(rx', at.awaitingCmtPdu)
    BY <1>1, <1>6, HeadersAdded DEF WaitingInv
  <2>4. /\ OneAnswer(rx')
        /\ \A k \in DOMAIN rx' :
             (\E j \in DOMAIN rx : rx'[k] = rx[j]) \/ (\E j \in DOMAIN lines : rx'[k] = lines[j])
    BY <1>1, <1>6, <2>2, AnswersAdded
  <2>5. \A k \in DOMAIN rx' : rx'[k].kind \in AnswerKinds => rx'[k].tag = Len(written)
    BY <1>6, <2>1, <2>4 DEF WaitingInv
  <2>6. (\E k \in DOMAIN rx' : IsFinal(rx'[k])) => answered' = Len(written)
    BY <1>6, <2>1, <2>2, <2>4
  <2>. QED  BY <1>1, <1>3, <2>1, <2>3, <2>4, <2>5, <2>6 DEF WaitingInv
<1>7. CASE ~ModemSilent
  <2>1. PICK lines \in Seq(Line) :
          /\ rx' = rx \o lines
          /\ Headers(lines, FALSE)
          /\ \/ NoAnswers(lines) /\ answered' = answered
             \/ /\ MayAnswer
                /\ OneAnswer(lines)
                /\ answered' \in {answered, answered + 1}
                /\ \A k \in DOMAIN lines :
                     /\ lines[k].kind \in AnswerKinds => lines[k].tag = answered + 1
                     /\ IsFinal(lines[k]) => answered' = answered + 1
    BY <1>7, LinesSent
  <2>2. CASE answered' = answered /\ NoAnswers(lines)
    BY <1>2, <1>5, <2>1, <2>2
  <2>3. CASE ~(answered' = answered /\ NoAnswers(lines))
    BY <1>2, <1>6, <2>1, <2>3
  <2>. QED  BY <2>2, <2>3
<1>. QED  BY <1>4, <1>7

\* Every step keeps answers and commands together.
LEMMA AnswerNext ==
  ASSUME TypeOK, TypeOK', RingInv, WaitingInv, AnsweredInv, [Next]_vars, ~LateAnswers, ~LossyUart
  PROVE  WaitingInv' /\ AnsweredInv'
<1>1. CASE ReadLine
  BY <1>1, AnswerRead
<1>2. CASE Poll
  BY <1>2, AnswerPolled
<1>3. CASE Modem
  BY <1>3, AnswerSent
<1>4. CASE (\E c \in Commands : SubmitTask(c)) \/ Drained \/ TurnEnds \/ Tick \/ UNCHANGED vars
  <2>1. /\ at'.awaitingCmtPdu <=> at.awaitingCmtPdu
        /\ at'.hasCurrent <=> at.hasCurrent
        /\ at'.response = at.response /\ at'.deadline = at.deadline
        /\ at'.current = at.current
        /\ UNCHANGED <<written, completed, answers>>
    BY <1>4, ChannelLeft
  <2>2. UNCHANGED <<rx, answered>>
    BY <1>4 DEF SubmitTask, Drained, TurnEnds, Tick, vars, modemVars
  <2>3. at'.awaitingCmtPdu = at.awaitingCmtPdu
    BY <2>1 DEF TypeOK, AtRecord
  <2>4. ASSUME Expired(at', now') PROVE NoAnswers(rx)
    <3>1. CASE Tick
      <4>1. /\ now' = Plus(now, 1)
            /\ \/ rx = <<>> \/ ~at.hasCurrent \/ ~Due(Plus(now, 1), at.deadline)
        BY <3>1, ~LateAnswers DEF Tick
      <4>2. rx = <<>>
        BY <2>1, <2>4, <4>1 DEF Expired
      <4>. QED  BY <4>2 DEF NoAnswers
    <3>2. CASE ~Tick
      <4>1. now' = now
        BY <1>4, <3>2 DEF SubmitTask, Drained, TurnEnds, vars, clockVars
      <4>2. Expired(at, now)
        BY <2>1, <2>4, <4>1 DEF Expired
      <4>. QED  BY <4>2 DEF WaitingInv
    <3>. QED  BY <3>1, <3>2
  <2>5. WaitingInv'
    BY <2>1, <2>2, <2>3, <2>4 DEF WaitingInv
  <2>6. AnsweredInv'
    BY <2>1 DEF AnsweredInv
  <2>. QED  BY <2>5, <2>6
<1>5. ~LoseLine
  BY DEF LoseLine
<1>. QED  BY <1>1, <1>2, <1>3, <1>4, <1>5 DEF Next, Loop

\* On a UART that loses nothing, with a modem that answers before the
\* deadline or not at all: each callback reports the final line of its own
\* command and hands over lines of that command's answer only, whatever is
\* reported in between, save that AT+CEREG? also gets the reports of the
\* registration that come while it is at work.
THEOREM AnswersBelong ==
  ~LateAnswers /\ ~LossyUart => (Spec => []AnswerBelongsToCommand)
<1>. SUFFICES ASSUME ~LateAnswers, ~LossyUart PROVE Spec => []AnswerBelongsToCommand
  OBVIOUS
<1>1. Init => TypeOK /\ RingInv
  BY InitStep
<1>2. Init => WaitingInv /\ AnsweredInv
  BY DEF Init, AtBegin, WaitingInv, AnsweredInv, OwnAnswers, Headers, OneAnswer,
         NoAnswers, OwnLines, Expired
<1>3. TypeOK /\ RingInv /\ WaitingInv /\ AnsweredInv /\ [Next]_vars
        => (TypeOK /\ RingInv /\ WaitingInv /\ AnsweredInv)'
  BY NextStep, AnswerNext
<1>4. AnsweredInv => AnswerBelongsToCommand
  BY DEF AnsweredInv, OwnAnswers, OwnLines, AnswerBelongsToCommand
<1>. QED  BY <1>1, <1>2, <1>3, <1>4, PTL DEF Spec
=============================================================================
