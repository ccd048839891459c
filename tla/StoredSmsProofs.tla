-------------------------- MODULE StoredSmsProofs -----------------------------
(***************************************************************************)
(* Theorems about StoredSms: its types, and that the AT channel and the    *)
(* storage reader are in step.  First what each function of the reader and of *)
(* the receiver does to the fields of its record, then what each step of   *)
(* loop() does to the firmware's.                                          *)
(***************************************************************************)
EXTENDS StoredSms, FiniteSetTheorems, TLAPS

-----------------------------------------------------------------------------
(* Numbers. *)

\* The least of some numbers is one of them.
LEMMA Least ==
  ASSUME NEW S \in SUBSET Nat, S # {}
  PROVE  Min(S) \in S /\ \A i \in S : Min(S) <= i
<1>. DEFINE R == OpToRel(<, Nat)
<1>1. PICK x \in S : \A y \in S : ~ (<<y, x>> \in R)
  <2>1. IsWellFoundedOn(R, Nat)
    BY NatLessThanWellFounded
  <2>. HIDE DEF R
  <2>. QED  BY <2>1, WFMin
<1>2. \A y \in S : x <= y
  <2>. SUFFICES ASSUME NEW y \in S PROVE x <= y
    OBVIOUS
  <2>1. x \in Nat /\ y \in Nat
    OBVIOUS
  <2>2. ~ (<<y, x>> \in R)
    BY <1>1
  <2>3. ~(y < x)
    BY <2>1, <2>2 DEF OpToRel
  <2>. HIDE DEF R
  <2>. QED  BY <2>1, <2>3
<1>. QED  BY <1>2 DEF Min

\* A set of numbers that holds 0 and every successor up to n holds 0 .. n.
LEMMA UpTo ==
  ASSUME NEW n \in Nat, NEW S, 0 \in S, \A m \in 1 .. n : m - 1 \in S => m \in S
  PROVE  0 .. n \subseteq S
<1>. SUFFICES ASSUME NEW k \in 0 .. n, k \notin S PROVE FALSE
  OBVIOUS
<1>. DEFINE T == {m \in 0 .. n : m \notin S}
<1>1. T \in SUBSET Nat /\ T # {}
  OBVIOUS
<1>2. Min(T) \in T /\ \A i \in T : Min(T) <= i
  <2>. HIDE DEF T
  <2>. QED  BY <1>1, Least
<1>3. PICK m \in T : \A i \in T : m <= i
  BY <1>2
<1>4. m \in 1 .. n /\ m - 1 \in 0 .. n
  OBVIOUS
<1>5. m - 1 \notin T
  <2>. HIDE DEF T
  <2>. QED  BY <1>3, <1>4
<1>. QED  BY <1>4, <1>5

-----------------------------------------------------------------------------
(* The reader. *)

ConcatKeys == {Key[s] : s \in Sms}

Groups == [of : SUBSET ConcatKeys, places : [1 .. MaxConcatParts -> Indices \cup {NoIndex}]]

Readers ==
  { rd \in [queue : Seq(Indices), deletes : Seq(Indices), groups : [ConcatGroups -> Groups],
            state : {"None", "Reading", "Deleting"}, active : Indices \cup {NoIndex}] :
      /\ Len(rd.queue) <= ReadCapacity /\ Len(rd.deletes) <= DeleteCapacity
      /\ rd.state = "None" <=> rd.active = NoIndex }

Distinct(q) == \A j, k \in DOMAIN q : q[j] = q[k] => j = k

ReaderAssumption == SmsReceiverCoreAssumption /\ SmsStorageReaderCoreAssumption

\* SmsStorageReaderCore::begin() leaves a typed record.
LEMMA BeginsTyped == ReaderAssumption => ReaderBegin \in Readers
BY DEF ReaderAssumption, SmsReceiverCoreAssumption, SmsStorageReaderCoreAssumption, Readers,
   ReaderBegin, Groups, FreeGroup, NoIndex

ReaderRecord == [queue : Seq(Indices), deletes : Seq(Indices), groups : [ConcatGroups -> Groups],
                 state : {"None", "Reading", "Deleting"}, active : Indices \cup {NoIndex}]

\* The types of a reader's fields.
LEMMA ReaderFields ==
  \A rd : rd \in Readers <=>
    /\ rd \in ReaderRecord
    /\ Len(rd.queue) <= ReadCapacity /\ Len(rd.deletes) <= DeleteCapacity
    /\ rd.state = "None" <=> rd.active = NoIndex
BY DEF Readers, ReaderRecord

\* clearActive() keeps the types.
LEMMA ClearActiveTyped ==
  ASSUME NEW rd \in Readers
  PROVE  ClearActive(rd) \in Readers
BY DEF Readers, ClearActive, NoIndex

\* What one more element does to a sequence.
LEMMA OneMore ==
  ASSUME NEW S, NEW q \in Seq(S), NEW i \in S
  PROVE  /\ Append(q, i) \in Seq(S) /\ Len(Append(q, i)) = Len(q) + 1 /\ Len(q) \in Nat
         /\ ToSet(Append(q, i)) = ToSet(q) \cup {i}
         /\ i \notin ToSet(q) /\ Distinct(q) => Distinct(Append(q, i))
<1>1. Append(q, i) \in Seq(S) /\ Len(Append(q, i)) = Len(q) + 1 /\ Len(q) \in Nat
  OBVIOUS
<1>2. /\ DOMAIN Append(q, i) = 1 .. Len(q) + 1 /\ DOMAIN q = 1 .. Len(q)
      /\ \A k \in 1 .. Len(q) : Append(q, i)[k] = q[k]
      /\ Append(q, i)[Len(q) + 1] = i
  BY <1>1
<1>. DEFINE a == Append(q, i)
            n == Len(q)
<1>. HIDE DEF a, n
<1>3. ToSet(a) = ToSet(q) \cup {i}
  BY <1>1, <1>2 DEF ToSet, a, n
<1>4. i \notin ToSet(q) /\ Distinct(q) => Distinct(a)
  BY <1>1, <1>2 DEF ToSet, Distinct, a, n
<1>. QED  BY <1>1, <1>3, <1>4 DEF a

\* What is left of a sequence without its head.
LEMMA HeadAndTail ==
  ASSUME NEW S, NEW q \in Seq(S), q # <<>>
  PROVE  /\ ToSet(q) = ToSet(Tail(q)) \cup {Head(q)}
         /\ Distinct(q) => Distinct(Tail(q)) /\ Head(q) \notin ToSet(Tail(q))
<1>1. /\ Len(q) \in Nat \ {0} /\ Head(q) = q[1]
      /\ DOMAIN q = 1 .. Len(q) /\ DOMAIN Tail(q) = 1 .. Len(q) - 1
      /\ \A k \in 1 .. Len(q) - 1 : Tail(q)[k] = q[k + 1]
  OBVIOUS
<1>. DEFINE t == Tail(q)
            n == Len(q)
<1>. HIDE DEF t, n
<1>2. ASSUME NEW x \in ToSet(q) PROVE x \in ToSet(t) \cup {Head(q)}
  <2>1. PICK k \in 1 .. n : x = q[k]
    BY <1>1 DEF ToSet, n
  <2>2. k # 1 => k - 1 \in 1 .. n - 1 /\ (k - 1) + 1 = k
    BY <1>1 DEF n
  <2>3. k # 1 => x = t[k - 1] /\ k - 1 \in DOMAIN t
    BY <1>1, <2>1, <2>2 DEF n, t
  <2>. QED  BY <1>1, <2>1, <2>3 DEF ToSet
<1>3. ASSUME NEW x \in ToSet(t) \cup {Head(q)} PROVE x \in ToSet(q)
  BY <1>1 DEF ToSet, n, t
<1>4. Distinct(q) => Distinct(t) /\ Head(q) \notin ToSet(t)
  BY <1>1 DEF Distinct, ToSet, n, t
<1>. QED  BY <1>2, <1>3, <1>4 DEF t

\* enqueueRead() adds a place at the end, or nothing.
LEMMA EnqueueReadEffect ==
  ASSUME ReaderAssumption, NEW rd \in Readers, NEW i \in Indices
  PROVE  LET r == EnqueueRead(rd, i)
         IN  /\ r \in Readers
             /\ r.deletes = rd.deletes /\ r.groups = rd.groups
             /\ r.state = rd.state /\ r.active = rd.active
             /\ \/ r = rd
                \/ /\ ToSet(r.queue) = ToSet(rd.queue) \cup {i} /\ i \notin ToSet(rd.queue)
                   /\ Distinct(rd.queue) => Distinct(r.queue)
                   /\ ~(rd.state # "None" /\ rd.active = i)
<1>1. CASE HasQueuedIndex(rd, i) \/ Len(rd.queue) >= ReadCapacity
  BY <1>1 DEF EnqueueRead
<1>2. CASE ~(HasQueuedIndex(rd, i) \/ Len(rd.queue) >= ReadCapacity)
  <2>. DEFINE r == EnqueueRead(rd, i)
              q == rd.queue
  <2>1. r = [rd EXCEPT !.queue = Append(rd.queue, i)]
    BY <1>2 DEF EnqueueRead
  <2>2. q \in Seq(Indices) /\ Len(q) \in Nat /\ Len(q) <= ReadCapacity /\ ReadCapacity \in Nat
    BY DEF Readers, ReaderAssumption, SmsStorageReaderCoreAssumption
  <2>a. rd \in ReaderRecord
    BY ReaderFields
  <2>b. /\ r.queue = Append(q, i)
        /\ r.deletes = rd.deletes /\ r.groups = rd.groups
        /\ r.state = rd.state /\ r.active = rd.active
    BY <2>1, <2>a DEF ReaderRecord
  <2>c. Append(q, i) \in Seq(Indices) /\ Len(Append(q, i)) = Len(q) + 1
    BY <2>2
  <2>d. r \in ReaderRecord
    BY <2>1, <2>a, <2>c DEF ReaderRecord
  <2>e. Len(r.queue) <= ReadCapacity /\ Len(r.deletes) <= DeleteCapacity
    BY <1>2, <2>2, <2>b, <2>c, ReaderFields
  <2>3. r \in Readers
    <3>. HIDE DEF r
    <3>. QED  BY <2>b, <2>d, <2>e, ReaderFields
  <2>4. ~(rd.state # "None" /\ rd.active = i) /\ \A k \in DOMAIN q : q[k] # i
    BY <1>2, <2>2 DEF HasQueuedIndex, Contains
  <2>5. i \notin ToSet(q)
    BY <2>4 DEF ToSet
  <2>6. ToSet(Append(q, i)) = ToSet(q) \cup {i} /\ (Distinct(q) => Distinct(Append(q, i)))
    BY <2>2, <2>5, OneMore
  <2>. HIDE DEF r
  <2>. QED  BY <2>3, <2>b, <2>4, <2>5, <2>6 DEF r
<1>. QED  BY <1>1, <1>2

\* enqueueDelete() adds a place at the end, or nothing.
LEMMA EnqueueDeleteEffect ==
  ASSUME ReaderAssumption, NEW rd \in Readers, NEW i \in Indices
  PROVE  LET r == EnqueueDelete(rd, i)
         IN  /\ r \in Readers
             /\ r.queue = rd.queue /\ r.groups = rd.groups
             /\ r.state = rd.state /\ r.active = rd.active
             /\ ToSet(r.deletes) \subseteq ToSet(rd.deletes) \cup {i}
             /\ Distinct(rd.deletes) => Distinct(r.deletes)
<1>. DEFINE q == rd.deletes
            full == Contains(rd.deletes, i) \/ (rd.state = "Deleting" /\ rd.active = i)
                      \/ Len(rd.deletes) >= DeleteCapacity
<1>1. CASE full
  BY <1>1 DEF EnqueueDelete
<1>2. CASE ~full
  <2>. DEFINE r == EnqueueDelete(rd, i)
  <2>1. r = [rd EXCEPT !.deletes = Append(rd.deletes, i)]
    BY <1>2 DEF EnqueueDelete
  <2>2. q \in Seq(Indices) /\ Len(q) \in Nat /\ Len(q) <= DeleteCapacity /\ DeleteCapacity \in Nat
    BY DEF Readers, ReaderAssumption, SmsStorageReaderCoreAssumption
  <2>a. rd \in ReaderRecord
    BY ReaderFields
  <2>b. /\ r.deletes = Append(q, i)
        /\ r.queue = rd.queue /\ r.groups = rd.groups
        /\ r.state = rd.state /\ r.active = rd.active
    BY <2>1, <2>a DEF ReaderRecord
  <2>c. Append(q, i) \in Seq(Indices) /\ Len(Append(q, i)) = Len(q) + 1
    BY <2>2
  <2>d. r \in ReaderRecord
    BY <2>1, <2>a, <2>c DEF ReaderRecord
  <2>e. Len(r.queue) <= ReadCapacity /\ Len(r.deletes) <= DeleteCapacity
    BY <1>2, <2>2, <2>b, <2>c, ReaderFields
  <2>3. r \in Readers
    <3>. HIDE DEF r
    <3>. QED  BY <2>b, <2>d, <2>e, ReaderFields
  <2>4. \A k \in DOMAIN q : q[k] # i
    BY <1>2, <2>2 DEF Contains
  <2>5. i \notin ToSet(q)
    BY <2>4 DEF ToSet
  <2>6. ToSet(Append(q, i)) = ToSet(q) \cup {i} /\ (Distinct(q) => Distinct(Append(q, i)))
    BY <2>2, <2>5, OneMore
  <2>. HIDE DEF r
  <2>. QED  BY <2>3, <2>b, <2>6 DEF r
<1>. QED  BY <1>1, <1>2

\* The loop of enqueueConcatDeletes() only adds places of the group, each once.
LEMMA EnqueueDeletesEffect ==
  ASSUME ReaderAssumption, NEW rd \in Readers,
         NEW places \in [1 .. MaxConcatParts -> Indices \cup {NoIndex}],
         NEW total \in 0 .. MaxConcatParts
  PROVE  LET r == EnqueueDeletes(rd, places, total)
         IN  /\ r \in Readers
             /\ r.queue = rd.queue /\ r.groups = rd.groups
             /\ r.state = rd.state /\ r.active = rd.active
             /\ ToSet(r.deletes) \subseteq
                  ToSet(rd.deletes) \cup ({places[p] : p \in 1 .. total} \ {NoIndex})
             /\ Distinct(rd.deletes) => Distinct(r.deletes)
<1>. DEFINE Upd(f, p) == IF p = 0 THEN rd
                         ELSE IF places[p] = NoIndex THEN f[p - 1]
                         ELSE EnqueueDelete(f[p - 1], places[p])
            upTo == CHOOSE f : f = [p \in 0 .. total |-> Upd(f, p)]
            Good(r) == /\ r \in Readers
                       /\ r.queue = rd.queue /\ r.groups = rd.groups
                       /\ r.state = rd.state /\ r.active = rd.active
                       /\ ToSet(r.deletes) \subseteq
                            ToSet(rd.deletes) \cup ({places[p] : p \in 1 .. total} \ {NoIndex})
                       /\ Distinct(rd.deletes) => Distinct(r.deletes)
<1>1. EnqueueDeletes(rd, places, total) = upTo[total]
  BY DEF EnqueueDeletes
<1>2. total \in Nat /\ MaxConcatParts \in Nat
  BY DEF ReaderAssumption, SmsReceiverCoreAssumption
<1>3. \E f : f = [p \in 0 .. total |-> Upd(f, p)]
  <2>. DEFINE Has == {m \in 0 .. total : \E f : f = [p \in 0 .. m |-> Upd(f, p)]}
  <2>1. 0 \in Has
    <3>. DEFINE f == [p \in 0 .. 0 |-> rd]
    <3>1. f = [p \in 0 .. 0 |-> Upd(f, p)]
      OBVIOUS
    <3>. HIDE DEF f, Upd
    <3>2. \E h : h = [p \in 0 .. 0 |-> Upd(h, p)]
      BY <3>1
    <3>. QED  BY <3>2, <1>2
  <2>2. ASSUME NEW m \in 1 .. total, m - 1 \in Has PROVE m \in Has
    <3>1. PICK f : f = [p \in 0 .. m - 1 |-> Upd(f, p)]
      BY <2>2
    <3>. DEFINE g == [p \in 0 .. m |-> IF p = m THEN Upd(f, m) ELSE f[p]]
    <3>2. ASSUME NEW p \in 0 .. m PROVE g[p] = Upd(g, p)
      <4>1. CASE p = m
        <5>1. m - 1 \in 0 .. m /\ m - 1 # m /\ m # 0
          BY <1>2
        <5>2. g[m - 1] = f[m - 1]
          BY <5>1
        <5>. QED  BY <4>1, <5>1, <5>2
      <4>2. CASE p # m
        <5>1. p \in 0 .. m - 1 /\ (p # 0 => p - 1 \in 0 .. m /\ p - 1 # m)
          BY <4>2, <1>2
        <5>2. g[p] = f[p] /\ (p # 0 => g[p - 1] = f[p - 1])
          BY <4>2, <5>1
        <5>3. f[p] = Upd(f, p)
          BY <3>1, <5>1
        <5>. QED  BY <5>2, <5>3
      <4>. QED  BY <4>1, <4>2
    <3>3. g = [p \in 0 .. m |-> Upd(g, p)]
      <4>. HIDE DEF Upd
      <4>1. g = [p \in 0 .. m |-> g[p]]
        OBVIOUS
      <4>. QED  BY <3>2, <4>1
    <3>. HIDE DEF g, Upd
    <3>4. \E h : h = [p \in 0 .. m |-> Upd(h, p)]
      BY <3>3
    <3>. QED  BY <3>4, <1>2
  <2>3. 0 .. total \subseteq Has
    <3>. HIDE DEF Has
    <3>. QED  BY <1>2, <2>1, <2>2, UpTo
  <2>4. total \in Has
    <3>. HIDE DEF Has
    <3>. QED  BY <1>2, <2>3
  <2>. HIDE DEF Upd
  <2>. QED  BY <2>4
<1>4. \A p \in 0 .. total : upTo[p] = Upd(upTo, p)
  <2>1. upTo = [p \in 0 .. total |-> Upd(upTo, p)]
    <3>. HIDE DEF Upd
    <3>. QED  BY <1>3
  <2>. HIDE DEF upTo, Upd
  <2>. QED  BY <2>1
<1>. HIDE DEF upTo
<1>5. ASSUME NEW r, Good(r), NEW p \in 1 .. total, places[p] # NoIndex
      PROVE  Good(EnqueueDelete(r, places[p]))
  <2>. DEFINE r1 == EnqueueDelete(r, places[p])
              T == {places[q] : q \in 1 .. total} \ {NoIndex}
  <2>1. places[p] \in Indices /\ places[p] \in T
    BY <1>2, <1>5
  <2>2. /\ r1 \in Readers
        /\ r1.queue = r.queue /\ r1.groups = r.groups
        /\ r1.state = r.state /\ r1.active = r.active
        /\ ToSet(r1.deletes) \subseteq ToSet(r.deletes) \cup {places[p]}
        /\ Distinct(r.deletes) => Distinct(r1.deletes)
    BY <1>5, <2>1, EnqueueDeleteEffect
  <2>. HIDE DEF r1, T
  <2>3. Good(r1)
    BY <1>5, <2>1, <2>2 DEF T
  <2>. QED  BY <2>3 DEF r1
<1>6. 0 .. total \subseteq {p \in 0 .. total : Good(upTo[p])}
  <2>. DEFINE S == {p \in 0 .. total : Good(upTo[p])}
  <2>1. 0 \in S
    <3>1. upTo[0] = rd
      BY <1>2, <1>4
    <3>. QED  BY <3>1, <1>2
  <2>2. ASSUME NEW p \in 1 .. total, p - 1 \in S PROVE p \in S
    <3>1. p \in 0 .. total /\ p # 0 /\ p \in 1 .. MaxConcatParts
      BY <1>2
    <3>2. upTo[p] = Upd(upTo, p)
      BY <1>4, <3>1
    <3>3. CASE places[p] = NoIndex
      <4>1. upTo[p] = upTo[p - 1]
        BY <3>1, <3>2, <3>3
      <4>. QED  BY <2>2, <3>1, <4>1
    <3>4. CASE places[p] # NoIndex
      <4>1. upTo[p] = EnqueueDelete(upTo[p - 1], places[p])
        BY <3>1, <3>2, <3>4
      <4>2. Good(upTo[p - 1])
        BY <2>2
      <4>. HIDE DEF Good
      <4>3. Good(upTo[p])
        BY <1>5, <3>1, <3>4, <4>1, <4>2
      <4>. QED  BY <3>1, <4>3
    <3>. QED  BY <3>3, <3>4
  <2>. HIDE DEF S
  <2>. QED  BY <1>2, <2>1, <2>2, UpTo DEF S
<1>7. Good(upTo[total])
  BY <1>2, <1>6
<1>. QED  BY <1>1, <1>7

-----------------------------------------------------------------------------
(* Every place the reader knows of is known for one reason. *)

Grouped(rd) ==
  {i \in Indices : \E g \in ConcatGroups, p \in 1 .. MaxConcatParts : rd.groups[g].places[p] = i}

OneGroup(rd) ==
  \A g, h \in ConcatGroups, p, q \in 1 .. MaxConcatParts :
    rd.groups[g].places[p] = rd.groups[h].places[q] /\ rd.groups[g].places[p] # NoIndex
      => g = h /\ p = q

FreeIsEmpty(rd) == \A g \in ConcatGroups : rd.groups[g].of = {} => rd.groups[g] = FreeGroup

OneReason(rd) ==
  /\ Distinct(rd.queue) /\ Distinct(rd.deletes)
  /\ OneGroup(rd) /\ FreeIsEmpty(rd)
  /\ ToSet(rd.queue) \cap ToSet(rd.deletes) = {}
  /\ ToSet(rd.queue) \cap Grouped(rd) = {}
  /\ ToSet(rd.deletes) \cap Grouped(rd) = {}

ActiveApart(rd) ==
  rd.active \notin ToSet(rd.queue) \cup ToSet(rd.deletes) \cup Grouped(rd)

\* Every operation of the reader keeps its types.
LEMMA ReaderTypes ==
  ASSUME ReaderAssumption, NEW rd \in Readers
  PROVE  /\ rd.queue \in Seq(Indices) /\ rd.deletes \in Seq(Indices)
         /\ ToSet(rd.queue) \subseteq Indices /\ ToSet(rd.deletes) \subseteq Indices
         /\ NoIndex \notin Indices
         /\ \A g \in ConcatGroups :
              /\ rd.groups[g] = [of |-> rd.groups[g].of, places |-> rd.groups[g].places]
              /\ rd.groups[g].of \in SUBSET ConcatKeys
              /\ rd.groups[g].places \in [1 .. MaxConcatParts -> Indices \cup {NoIndex}]
         /\ rd.state = "None" => rd.active = NoIndex
         /\ rd.state # "None" => rd.active \in Indices
         /\ ToSet(rd.queue) = {rd.queue[k] : k \in DOMAIN rd.queue}
         /\ rd.groups \in [ConcatGroups -> Groups]
BY DEF Readers, Groups, ToSet, ReaderAssumption, SmsStorageReaderCoreAssumption, NoIndex

\* The group of a part is one of the groups, and is of the same long message or free.
LEMMA GroupForEffect ==
  ASSUME ReaderAssumption, NEW rd \in Readers, NEW s \in Sms,
         GroupsOf(rd, s) # {} \/ FreeGroups(rd) # {}
  PROVE  /\ GroupFor(rd, s) \in ConcatGroups
         /\ \/ Key[s] \in rd.groups[GroupFor(rd, s)].of
            \/ rd.groups[GroupFor(rd, s)].of = {}
         /\ GroupsOf(rd, s) # {} => Key[s] \in rd.groups[GroupFor(rd, s)].of
<1>1. GroupsOf(rd, s) \in SUBSET Nat /\ FreeGroups(rd) \in SUBSET Nat
  BY DEF GroupsOf, FreeGroups, ConcatGroups
<1>2. CASE GroupsOf(rd, s) # {}
  <2>1. GroupFor(rd, s) \in GroupsOf(rd, s)
    BY <1>1, <1>2, Least DEF GroupFor
  <2>. QED  BY <2>1 DEF GroupsOf
<1>3. CASE GroupsOf(rd, s) = {}
  <2>1. GroupFor(rd, s) \in FreeGroups(rd)
    BY <1>1, <1>3, Least DEF GroupFor
  <2>. QED  BY <1>3, <2>1 DEF FreeGroups
<1>. QED  BY <1>2, <1>3

\* rememberConcatPart() writes the active place into one group.
LEMMA RememberPartEffect ==
  ASSUME ReaderAssumption, NEW rd \in Readers, NEW s \in Sms, CanRemember(rd, s),
         rd.state = "Reading"
  PROVE  LET r == RememberPart(rd, s)
             g == GroupFor(rd, s)
         IN  /\ r \in Readers
             /\ r.queue = rd.queue /\ r.deletes = rd.deletes
             /\ r.state = rd.state /\ r.active = rd.active
             /\ g \in ConcatGroups /\ Part[s] \in 1 .. MaxConcatParts
             /\ r.groups[g].of = {Key[s]}
             /\ \A h \in ConcatGroups : h # g => r.groups[h] = rd.groups[h]
             /\ \A p \in 1 .. MaxConcatParts :
                  r.groups[g].places[p] = IF p = Part[s] THEN rd.active ELSE rd.groups[g].places[p]
             /\ GroupsOf(r, s) # {}
<1>. DEFINE r == RememberPart(rd, s)
            g == GroupFor(rd, s)
            new == [of |-> {Key[s]}, places |-> [rd.groups[g].places EXCEPT ![Part[s]] = rd.active]]
<1>1. g \in ConcatGroups
  BY GroupForEffect DEF CanRemember
<1>2. Part[s] \in 1 .. MaxConcatParts
  BY DEF CanRemember, ValidPart, ReaderAssumption, SmsReceiverCoreAssumption
<1>3. rd.active \in Indices
  BY ReaderTypes
<1>4. rd \in ReaderRecord
  BY ReaderFields
<1>5. r = [rd EXCEPT !.groups = [rd.groups EXCEPT ![g] = new]]
  BY DEF RememberPart
<1>6. /\ r.queue = rd.queue /\ r.deletes = rd.deletes
      /\ r.state = rd.state /\ r.active = rd.active
      /\ r.groups = [rd.groups EXCEPT ![g] = new]
  BY <1>4, <1>5 DEF ReaderRecord
<1>. HIDE DEF r, g
<1>7. new \in Groups
  BY <1>1, <1>2, <1>3, ReaderTypes DEF Groups, ConcatKeys
<1>8. rd.groups \in [ConcatGroups -> Groups]
  BY ReaderTypes
<1>9. /\ r.groups \in [ConcatGroups -> Groups]
      /\ r.groups[g] = new
      /\ \A h \in ConcatGroups : h # g => r.groups[h] = rd.groups[h]
  <2>. HIDE DEF new
  <2>. QED  BY <1>1, <1>6, <1>7, <1>8
<1>10. r \in Readers
  <2>1. r \in ReaderRecord
    BY <1>4, <1>5, <1>6, <1>9 DEF ReaderRecord
  <2>. QED  BY <1>6, <2>1, ReaderFields
<1>11. /\ r.groups[g].of = {Key[s]}
       /\ \A p \in 1 .. MaxConcatParts :
            r.groups[g].places[p] = IF p = Part[s] THEN rd.active ELSE rd.groups[g].places[p]
  <2>1. rd.groups[g].places \in [1 .. MaxConcatParts -> Indices \cup {NoIndex}]
    BY <1>1, ReaderTypes
  <2>2. r.groups[g].of = {Key[s]}
        /\ r.groups[g].places = [rd.groups[g].places EXCEPT ![Part[s]] = rd.active]
    BY <1>9
  <2>. HIDE DEF new
  <2>. QED  BY <1>2, <2>1, <2>2
<1>12. GroupsOf(r, s) # {}
  BY <1>1, <1>11 DEF GroupsOf
<1>. QED  BY <1>1, <1>2, <1>6, <1>9, <1>10, <1>11, <1>12 DEF r, g

\* enqueueConcatDeletes() frees one group; only its places are to be deleted.
LEMMA ConcatDeletesEffect ==
  ASSUME ReaderAssumption, NEW rd \in Readers, NEW s \in Sms, ValidPart(s), GroupsOf(rd, s) # {}
  PROVE  LET r == ConcatDeletes(rd, s)
             g == GroupFor(rd, s)
         IN  /\ r \in Readers
             /\ r.queue = rd.queue /\ r.state = rd.state /\ r.active = rd.active
             /\ g \in ConcatGroups /\ Key[s] \in rd.groups[g].of
             /\ r.groups[g] = FreeGroup
             /\ \A h \in ConcatGroups : h # g => r.groups[h] = rd.groups[h]
             /\ ToSet(r.deletes) \subseteq
                  ToSet(rd.deletes)
                    \cup ({rd.groups[g].places[p] : p \in 1 .. Total[s]} \ {NoIndex})
             /\ Distinct(rd.deletes) => Distinct(r.deletes)
<1>. DEFINE r == ConcatDeletes(rd, s)
            g == GroupFor(rd, s)
            e == EnqueueDeletes(rd, rd.groups[g].places, Total[s])
<1>1. g \in ConcatGroups /\ Key[s] \in rd.groups[g].of
  BY GroupForEffect
<1>2. Total[s] \in 0 .. MaxConcatParts
  BY DEF ValidPart, ReaderAssumption, SmsReceiverCoreAssumption
<1>3. rd.groups[g].places \in [1 .. MaxConcatParts -> Indices \cup {NoIndex}]
  BY <1>1, ReaderTypes
<1>4. /\ e \in Readers
      /\ e.queue = rd.queue /\ e.groups = rd.groups
      /\ e.state = rd.state /\ e.active = rd.active
      /\ ToSet(e.deletes) \subseteq
           ToSet(rd.deletes) \cup ({rd.groups[g].places[p] : p \in 1 .. Total[s]} \ {NoIndex})
      /\ Distinct(rd.deletes) => Distinct(e.deletes)
  BY <1>2, <1>3, EnqueueDeletesEffect
<1>5. r = [e EXCEPT !.groups = [e.groups EXCEPT ![g] = FreeGroup]]
  BY DEF ConcatDeletes
<1>. HIDE DEF r, g, e
<1>6. e \in ReaderRecord
  BY <1>4, ReaderFields
<1>7. /\ r.queue = e.queue /\ r.deletes = e.deletes
      /\ r.state = e.state /\ r.active = e.active
      /\ r.groups = [e.groups EXCEPT ![g] = FreeGroup]
  BY <1>5, <1>6 DEF ReaderRecord
<1>8. FreeGroup \in Groups
  BY DEF FreeGroup, Groups
<1>9. e.groups \in [ConcatGroups -> Groups]
  BY <1>4, ReaderTypes
<1>10. /\ r.groups \in [ConcatGroups -> Groups]
       /\ r.groups[g] = FreeGroup
       /\ \A h \in ConcatGroups : h # g => r.groups[h] = e.groups[h]
  BY <1>1, <1>7, <1>8, <1>9
<1>11. r \in Readers
  <2>1. r \in ReaderRecord
    BY <1>5, <1>6, <1>7, <1>10 DEF ReaderRecord
  <2>. QED  BY <1>4, <1>7, <2>1, ReaderFields
<1>. QED  BY <1>1, <1>4, <1>7, <1>10, <1>11 DEF r, g

\* Reading the next place: it leaves the queue.
LEMMA NextReadEffect ==
  ASSUME ReaderAssumption, NEW rd \in Readers, ReadIsReady(rd)
  PROVE  LET r == NextRead(rd)
         IN  /\ r \in Readers
             /\ r.state = "Reading" /\ r.active \in Indices
             /\ r.deletes = rd.deletes /\ r.groups = rd.groups
             /\ ToSet(rd.queue) = ToSet(r.queue) \cup {r.active}
             /\ OneReason(rd) => OneReason(r) /\ ActiveApart(r)
<1>. DEFINE r == NextRead(rd)
            q == rd.queue
<1>1. q \in Seq(Indices) /\ q # <<>> /\ Len(q) <= ReadCapacity /\ ReadCapacity \in Nat
  BY ReaderFields DEF ReadIsReady, ReaderRecord, ReaderAssumption,
     SmsStorageReaderCoreAssumption
<1>2. rd \in ReaderRecord /\ Len(rd.deletes) <= DeleteCapacity
  BY ReaderFields
<1>3. /\ Tail(q) \in Seq(Indices) /\ Len(Tail(q)) = Len(q) - 1 /\ Head(q) \in Indices
      /\ Len(q) \in Nat \ {0} /\ Head(q) = q[1]
      /\ DOMAIN q = 1 .. Len(q) /\ DOMAIN Tail(q) = 1 .. Len(q) - 1
      /\ \A k \in 1 .. Len(q) - 1 : Tail(q)[k] = q[k + 1]
  BY <1>1
<1>4. /\ r = [rd EXCEPT !.active = Head(q), !.queue = Tail(q), !.state = "Reading"]
      /\ r.active = Head(q) /\ r.queue = Tail(q) /\ r.state = "Reading"
      /\ r.deletes = rd.deletes /\ r.groups = rd.groups
  BY <1>2 DEF NextRead, ReaderRecord
<1>5. r \in ReaderRecord
  BY <1>2, <1>3, <1>4 DEF ReaderRecord
<1>6. r.active # NoIndex
  BY <1>3, <1>4, ReaderTypes
<1>. HIDE DEF r
<1>7. r \in Readers
  <2>1. Len(r.queue) <= ReadCapacity /\ Len(r.deletes) <= DeleteCapacity
    BY <1>1, <1>2, <1>3, <1>4
  <2>2. r.state # "None" /\ r.active # NoIndex
    BY <1>4, <1>6
  <2>. QED  BY <1>5, <2>1, <2>2, ReaderFields
<1>8. ToSet(q) = ToSet(Tail(q)) \cup {Head(q)}
  BY <1>1, HeadAndTail
<1>9. ASSUME OneReason(rd) PROVE OneReason(r) /\ ActiveApart(r)
  <2>1. Distinct(Tail(q)) /\ Head(q) \notin ToSet(Tail(q))
    BY <1>1, <1>9, HeadAndTail DEF OneReason
  <2>2. Grouped(r) = Grouped(rd) /\ OneGroup(r) /\ FreeIsEmpty(r)
    BY <1>4, <1>9 DEF Grouped, OneReason, OneGroup, FreeIsEmpty
  <2>3. OneReason(r)
    BY <1>4, <1>8, <1>9, <2>1, <2>2 DEF OneReason
  <2>. QED  BY <1>4, <1>8, <1>9, <2>1, <2>2, <2>3 DEF OneReason, ActiveApart
<1>. QED  BY <1>3, <1>4, <1>7, <1>8, <1>9 DEF r

\* Deleting the next place: it leaves the places to be deleted.
LEMMA NextDeleteEffect ==
  ASSUME ReaderAssumption, NEW rd \in Readers, DeleteIsReady(rd)
  PROVE  LET r == NextDelete(rd)
         IN  /\ r \in Readers
             /\ r.state = "Deleting" /\ r.active \in Indices
             /\ r.queue = rd.queue /\ r.groups = rd.groups
             /\ ToSet(rd.deletes) = ToSet(r.deletes) \cup {r.active}
             /\ OneReason(rd) => OneReason(r) /\ ActiveApart(r)
<1>. DEFINE r == NextDelete(rd)
            q == rd.deletes
<1>1. q \in Seq(Indices) /\ q # <<>> /\ Len(q) <= DeleteCapacity /\ DeleteCapacity \in Nat
  BY ReaderFields DEF DeleteIsReady, ReaderRecord, ReaderAssumption,
     SmsStorageReaderCoreAssumption
<1>2. rd \in ReaderRecord /\ Len(rd.queue) <= ReadCapacity
  BY ReaderFields
<1>3. /\ Tail(q) \in Seq(Indices) /\ Len(Tail(q)) = Len(q) - 1 /\ Head(q) \in Indices
      /\ Len(q) \in Nat \ {0} /\ Head(q) = q[1]
      /\ DOMAIN q = 1 .. Len(q) /\ DOMAIN Tail(q) = 1 .. Len(q) - 1
      /\ \A k \in 1 .. Len(q) - 1 : Tail(q)[k] = q[k + 1]
  BY <1>1
<1>4. /\ r = [rd EXCEPT !.active = Head(q), !.deletes = Tail(q), !.state = "Deleting"]
      /\ r.active = Head(q) /\ r.deletes = Tail(q) /\ r.state = "Deleting"
      /\ r.queue = rd.queue /\ r.groups = rd.groups
  BY <1>2 DEF NextDelete, ReaderRecord
<1>5. r \in ReaderRecord
  BY <1>2, <1>3, <1>4 DEF ReaderRecord
<1>6. r.active # NoIndex
  BY <1>3, <1>4, ReaderTypes
<1>. HIDE DEF r
<1>7. r \in Readers
  <2>1. Len(r.queue) <= ReadCapacity /\ Len(r.deletes) <= DeleteCapacity
    BY <1>1, <1>2, <1>3, <1>4
  <2>2. r.state # "None" /\ r.active # NoIndex
    BY <1>4, <1>6
  <2>. QED  BY <1>5, <2>1, <2>2, ReaderFields
<1>8. ToSet(q) = ToSet(Tail(q)) \cup {Head(q)}
  BY <1>1, HeadAndTail
<1>9. ASSUME OneReason(rd) PROVE OneReason(r) /\ ActiveApart(r)
  <2>1. Distinct(Tail(q)) /\ Head(q) \notin ToSet(Tail(q))
    BY <1>1, <1>9, HeadAndTail DEF OneReason
  <2>2. Grouped(r) = Grouped(rd) /\ OneGroup(r) /\ FreeIsEmpty(r)
    BY <1>4, <1>9 DEF Grouped, OneReason, OneGroup, FreeIsEmpty
  <2>3. OneReason(r)
    BY <1>4, <1>8, <1>9, <2>1, <2>2 DEF OneReason
  <2>. QED  BY <1>4, <1>8, <1>9, <2>1, <2>2, <2>3 DEF OneReason, ActiveApart
<1>. QED  BY <1>3, <1>4, <1>7, <1>8, <1>9 DEF r

\* A part read from the active place: the place is remembered, and no other
\* is forgotten for another reason than its being replaced.
LEMMA RememberKeepsOneReason ==
  ASSUME ReaderAssumption, NEW rd \in Readers, NEW s \in Sms, CanRemember(rd, s),
         rd.state = "Reading", OneReason(rd), ActiveApart(rd)
  PROVE  LET r == RememberPart(rd, s)
         IN  OneReason(r) /\ Grouped(r) \subseteq Grouped(rd) \cup {rd.active}
<1>. DEFINE r == RememberPart(rd, s)
            g == GroupFor(rd, s)
<1>1. /\ r \in Readers
      /\ r.queue = rd.queue /\ r.deletes = rd.deletes
      /\ r.state = rd.state /\ r.active = rd.active
      /\ g \in ConcatGroups /\ Part[s] \in 1 .. MaxConcatParts
      /\ r.groups[g].of = {Key[s]}
      /\ \A h \in ConcatGroups : h # g => r.groups[h] = rd.groups[h]
      /\ \A p \in 1 .. MaxConcatParts :
           r.groups[g].places[p] = IF p = Part[s] THEN rd.active ELSE rd.groups[g].places[p]
  BY RememberPartEffect
<1>. HIDE DEF r, g
<1>2. \A h \in ConcatGroups, p \in 1 .. MaxConcatParts :
        r.groups[h].places[p] = IF h = g /\ p = Part[s] THEN rd.active ELSE rd.groups[h].places[p]
  BY <1>1
<1>3. rd.active \in Indices /\ rd.active # NoIndex
  BY ReaderTypes
<1>4. Grouped(r) \subseteq Grouped(rd) \cup {rd.active}
  BY <1>2 DEF Grouped
<1>5. \A h \in ConcatGroups, p \in 1 .. MaxConcatParts : rd.groups[h].places[p] # rd.active
  BY <1>3 DEF ActiveApart, Grouped
<1>6. OneGroup(r)
  BY <1>1, <1>2, <1>5 DEF OneReason, OneGroup
<1>7. FreeIsEmpty(r)
  BY <1>1 DEF OneReason, FreeIsEmpty
<1>8. OneReason(r)
  BY <1>1, <1>4, <1>6, <1>7 DEF OneReason, ActiveApart
<1>. QED  BY <1>4, <1>8 DEF r

\* Ordering the deletion of a long message's places leaves every place with one
\* reason to be known.
LEMMA ConcatDeletesKeepsOneReason ==
  ASSUME ReaderAssumption, NEW rd \in Readers, NEW s \in Sms, ValidPart(s),
         GroupsOf(rd, s) # {}, OneReason(rd)
  PROVE  LET r == ConcatDeletes(rd, s)
         IN  OneReason(r) /\ ToSet(r.deletes) \cup Grouped(r) \subseteq ToSet(rd.deletes) \cup Grouped(rd)
<1>. DEFINE r == ConcatDeletes(rd, s)
            g == GroupFor(rd, s)
<1>1. /\ r \in Readers
      /\ r.queue = rd.queue
      /\ g \in ConcatGroups
      /\ r.groups[g] = FreeGroup
      /\ \A h \in ConcatGroups : h # g => r.groups[h] = rd.groups[h]
      /\ ToSet(r.deletes) \subseteq
           ToSet(rd.deletes)
             \cup ({rd.groups[g].places[p] : p \in 1 .. Total[s]} \ {NoIndex})
      /\ Distinct(rd.deletes) => Distinct(r.deletes)
  BY ConcatDeletesEffect
<1>. HIDE DEF r, g
<1>2. NoIndex \notin Indices
  BY ReaderTypes
<1>3. \A p \in 1 .. MaxConcatParts : r.groups[g].places[p] = NoIndex
  BY <1>1 DEF FreeGroup
<1>4. \A i \in ToSet(r.deletes) : i \in ToSet(rd.deletes) \/
        \E p \in 1 .. MaxConcatParts : rd.groups[g].places[p] = i /\ i # NoIndex /\ i \in Indices
  <2>1. ToSet(r.deletes) \subseteq Indices
    BY <1>1, ReaderTypes
  <2>2. 1 .. Total[s] \subseteq 1 .. MaxConcatParts
    BY DEF ValidPart, ReaderAssumption, SmsReceiverCoreAssumption
  <2>. QED  BY <1>1, <2>1, <2>2
<1>5. \A i \in Grouped(r) : \E h \in ConcatGroups \ {g}, p \in 1 .. MaxConcatParts :
        rd.groups[h].places[p] = i /\ i \in Indices
  BY <1>1, <1>2, <1>3 DEF Grouped
<1>6. ToSet(r.deletes) \subseteq ToSet(rd.deletes) \cup Grouped(rd) /\ Grouped(r) \subseteq Grouped(rd)
  BY <1>1, <1>4, <1>5 DEF Grouped
<1>7. ToSet(r.deletes) \cap Grouped(r) = {}
  <2>. SUFFICES ASSUME NEW i \in ToSet(r.deletes), i \in Grouped(r) PROVE FALSE
    OBVIOUS
  <2>1. PICK h \in ConcatGroups \ {g}, p \in 1 .. MaxConcatParts :
          rd.groups[h].places[p] = i /\ i \in Indices
    BY <1>5
  <2>2. i \notin ToSet(rd.deletes)
    BY <2>1 DEF OneReason, Grouped
  <2>3. PICK q \in 1 .. MaxConcatParts : rd.groups[g].places[q] = i /\ i # NoIndex
    BY <1>4, <2>2
  <2>. QED  BY <1>1, <2>1, <2>3 DEF OneReason, OneGroup
<1>8. OneGroup(r)
  BY <1>1, <1>3 DEF OneReason, OneGroup
<1>9. FreeIsEmpty(r)
  BY <1>1 DEF OneReason, FreeIsEmpty
<1>10. OneReason(r)
  BY <1>1, <1>6, <1>7, <1>8, <1>9 DEF OneReason
<1>. QED  BY <1>6, <1>10 DEF r

\* messageAccepted(): the reader rests; what it knows of was known before.
LEMMA MessageAcceptedEffect ==
  ASSUME ReaderAssumption, NEW rd \in Readers, NEW s \in Sms, rd.state = "Reading",
         NEW accepted \in BOOLEAN
  PROVE  LET r == MessageAccepted(rd, s, accepted)
         IN  /\ r \in Readers
             /\ r.queue = rd.queue /\ r.state = "None"
             /\ OneReason(rd) /\ ActiveApart(rd) =>
                  /\ OneReason(r)
                  /\ ToSet(r.deletes) \cup Grouped(r) \subseteq
                       ToSet(rd.deletes) \cup Grouped(rd) \cup {rd.active}
<1>. DEFINE plain  == IF accepted THEN EnqueueDelete(rd, rd.active) ELSE rd
            noted  == RememberPart(rd, s)
            concat == IF ~CanRemember(rd, s) THEN rd
                      ELSE IF accepted THEN ConcatDeletes(noted, s) ELSE noted
            Good(x) == /\ x \in Readers /\ x.queue = rd.queue
                       /\ OneReason(rd) /\ ActiveApart(rd) =>
                            /\ OneReason(x)
                            /\ ToSet(x.deletes) \cup Grouped(x) \subseteq
                                 ToSet(rd.deletes) \cup Grouped(rd) \cup {rd.active}
<1>0. MessageAccepted(rd, s, accepted) = ClearActive(IF IsConcat(s) THEN concat ELSE plain)
  BY DEF MessageAccepted
<1>1. ASSUME NEW x, Good(x)
      PROVE  Good(ClearActive(x)) /\ ClearActive(x).state = "None"
  <2>1. x \in ReaderRecord
    BY <1>1, ReaderFields
  <2>2. /\ ClearActive(x).queue = x.queue /\ ClearActive(x).deletes = x.deletes
        /\ ClearActive(x).groups = x.groups /\ ClearActive(x).state = "None"
    BY <2>1 DEF ClearActive, ReaderRecord
  <2>3. ClearActive(x) \in Readers
    BY <1>1, ClearActiveTyped
  <2>. QED  BY <1>1, <2>2, <2>3 DEF OneReason, OneGroup, FreeIsEmpty, Grouped
<1>2. Good(rd)
  OBVIOUS
<1>3. Good(plain)
  <2>1. CASE accepted
    <3>. DEFINE x == EnqueueDelete(rd, rd.active)
    <3>1. rd.active \in Indices
      BY ReaderTypes
    <3>2. /\ x \in Readers
          /\ x.queue = rd.queue /\ x.groups = rd.groups
          /\ ToSet(x.deletes) \subseteq ToSet(rd.deletes) \cup {rd.active}
          /\ Distinct(rd.deletes) => Distinct(x.deletes)
      BY <3>1, EnqueueDeleteEffect
    <3>. HIDE DEF x
    <3>3. Good(x)
      BY <3>2 DEF OneReason, OneGroup, FreeIsEmpty, Grouped, ActiveApart
    <3>. QED  BY <2>1, <3>3 DEF x
  <2>. QED  BY <1>2, <2>1
<1>4. CanRemember(rd, s) => Good(noted) /\ GroupsOf(noted, s) # {}
  <2>. SUFFICES ASSUME CanRemember(rd, s) PROVE Good(noted) /\ GroupsOf(noted, s) # {}
    OBVIOUS
  <2>1. noted \in Readers /\ noted.queue = rd.queue /\ noted.deletes = rd.deletes
        /\ GroupsOf(noted, s) # {}
    BY RememberPartEffect
  <2>2. OneReason(rd) /\ ActiveApart(rd) =>
          OneReason(noted) /\ Grouped(noted) \subseteq Grouped(rd) \cup {rd.active}
    BY RememberKeepsOneReason
  <2>. HIDE DEF noted
  <2>. QED  BY <2>1, <2>2
<1>5. CanRemember(rd, s) => Good(ConcatDeletes(noted, s))
  <2>. SUFFICES ASSUME CanRemember(rd, s) PROVE Good(ConcatDeletes(noted, s))
    OBVIOUS
  <2>. HIDE DEF noted
  <2>. DEFINE x == ConcatDeletes(noted, s)
  <2>1. ValidPart(s) /\ noted \in Readers /\ GroupsOf(noted, s) # {}
    BY <1>4 DEF CanRemember
  <2>2. x \in Readers /\ x.queue = noted.queue
    BY <2>1, ConcatDeletesEffect
  <2>3. OneReason(noted) =>
          OneReason(x) /\ ToSet(x.deletes) \cup Grouped(x) \subseteq ToSet(noted.deletes) \cup Grouped(noted)
    BY <2>1, ConcatDeletesKeepsOneReason
  <2>. HIDE DEF x
  <2>4. Good(x)
    BY <1>4, <2>2, <2>3
  <2>. QED  BY <2>4 DEF x
<1>6. Good(IF IsConcat(s) THEN concat ELSE plain)
  <2>. HIDE DEF Good, noted, plain
  <2>. QED  BY <1>2, <1>3, <1>4, <1>5
<1>7. Good(MessageAccepted(rd, s, accepted)) /\ MessageAccepted(rd, s, accepted).state = "None"
  <2>. HIDE DEF Good, concat, plain
  <2>. QED  BY <1>0, <1>1, <1>6
<1>. QED  BY <1>7

\* The places of a group are those of parts of its message, at their numbers.
GroupsMatch(rd, sm) ==
  \A g \in ConcatGroups, p \in 1 .. MaxConcatParts :
    LET i == rd.groups[g].places[p]
    IN  i # NoIndex => rd.groups[g].of = {Key[sm[i]]} /\ Part[sm[i]] = p

\* A free group holds no place.
LEMMA NothingFree == \A p \in 1 .. MaxConcatParts : FreeGroup.places[p] = NoIndex
BY DEF FreeGroup

\* A PDU read whose place may go when that of s may.
Belongs(p, s) ==
  IF IsConcat(s) THEN Key[p] = Key[s] /\ Part[p] \in 1 .. Total[s] ELSE p = s

\* messageAccepted(): what is to be deleted is the message queued, or parts of it.
LEMMA MessageAcceptedMatches ==
  ASSUME ReaderAssumption, NEW rd \in Readers, NEW sm, NEW s \in Sms,
         rd.state = "Reading", sm[rd.active] = s, FreeIsEmpty(rd), GroupsMatch(rd, sm), NEW accepted \in BOOLEAN
  PROVE  LET r == MessageAccepted(rd, s, accepted)
         IN  /\ GroupsMatch(r, sm)
             /\ \A i \in ToSet(r.deletes) \ ToSet(rd.deletes) :
                  /\ accepted = TRUE
                  /\ Belongs(sm[i], s)
<1>. DEFINE plain  == IF accepted THEN EnqueueDelete(rd, rd.active) ELSE rd
            noted  == RememberPart(rd, s)
            concat == IF ~CanRemember(rd, s) THEN rd
                      ELSE IF accepted THEN ConcatDeletes(noted, s) ELSE noted
            Good(x) == /\ x \in Readers
                       /\ GroupsMatch(x, sm)
                       /\ \A i \in ToSet(x.deletes) \ ToSet(rd.deletes) :
                            /\ accepted = TRUE
                            /\ Belongs(sm[i], s)
<1>0. MessageAccepted(rd, s, accepted) = ClearActive(IF IsConcat(s) THEN concat ELSE plain)
  BY DEF MessageAccepted
<1>1. ASSUME NEW x, Good(x)
      PROVE  Good(ClearActive(x))
  <2>1. x \in ReaderRecord
    BY <1>1, ReaderFields
  <2>2. ClearActive(x).deletes = x.deletes /\ ClearActive(x).groups = x.groups
    BY <2>1 DEF ClearActive, ReaderRecord
  <2>3. ClearActive(x) \in Readers
    BY <1>1, ClearActiveTyped
  <2>. QED  BY <1>1, <2>2, <2>3 DEF GroupsMatch
<1>2. Good(rd)
  OBVIOUS
<1>3. ~IsConcat(s) => Good(plain)
  <2>1. CASE accepted /\ ~IsConcat(s)
    <3>. DEFINE x == EnqueueDelete(rd, rd.active)
    <3>1. rd.active \in Indices
      BY ReaderTypes
    <3>2. /\ x \in Readers
          /\ x.groups = rd.groups
          /\ ToSet(x.deletes) \subseteq ToSet(rd.deletes) \cup {rd.active}
      BY <3>1, EnqueueDeleteEffect
    <3>. HIDE DEF x
    <3>3. Good(x)
      BY <2>1, <3>2 DEF GroupsMatch, Belongs
    <3>. QED  BY <2>1, <3>3 DEF x
  <2>. QED  BY <1>2, <2>1
<1>4. CanRemember(rd, s) => Good(noted) /\ noted.deletes = rd.deletes /\ GroupsOf(noted, s) # {}
  <2>. SUFFICES ASSUME CanRemember(rd, s)
                PROVE  Good(noted) /\ noted.deletes = rd.deletes /\ GroupsOf(noted, s) # {}
    OBVIOUS
  <2>. DEFINE g == GroupFor(rd, s)
  <2>1. /\ noted \in Readers /\ noted.deletes = rd.deletes /\ GroupsOf(noted, s) # {}
        /\ g \in ConcatGroups
        /\ noted.groups[g].of = {Key[s]}
        /\ \A h \in ConcatGroups : h # g => noted.groups[h] = rd.groups[h]
        /\ \A p \in 1 .. MaxConcatParts :
             noted.groups[g].places[p] = IF p = Part[s] THEN rd.active ELSE rd.groups[g].places[p]
    BY RememberPartEffect
  <2>2. Key[s] \in rd.groups[g].of \/ rd.groups[g] = FreeGroup
    BY <2>1, GroupForEffect DEF CanRemember, FreeIsEmpty
  <2>. HIDE DEF noted, g
  <2>3. ASSUME NEW p \in 1 .. MaxConcatParts, noted.groups[g].places[p] # NoIndex
        PROVE  LET i == noted.groups[g].places[p]
               IN  Key[sm[i]] = Key[s] /\ Part[sm[i]] = p
    <3>1. CASE p = Part[s]
      BY <2>1, <3>1
    <3>2. CASE p # Part[s]
      <4>1. noted.groups[g].places[p] = rd.groups[g].places[p]
        BY <2>1, <3>2
      <4>2. rd.groups[g] # FreeGroup
        BY <2>3, <4>1, NothingFree
      <4>3. Key[s] \in rd.groups[g].of
        BY <2>2, <4>2
      <4>. QED  BY <2>1, <2>3, <4>1, <4>3 DEF GroupsMatch
    <3>. QED  BY <3>1, <3>2
  <2>4. GroupsMatch(noted, sm)
    BY <2>1, <2>3 DEF GroupsMatch
  <2>. QED  BY <2>1, <2>4
<1>5. CanRemember(rd, s) /\ accepted /\ IsConcat(s) => Good(ConcatDeletes(noted, s))
  <2>. SUFFICES ASSUME CanRemember(rd, s), accepted, IsConcat(s) PROVE Good(ConcatDeletes(noted, s))
    OBVIOUS
  <2>. HIDE DEF noted
  <2>. DEFINE x == ConcatDeletes(noted, s)
              g == GroupFor(noted, s)
  <2>1. ValidPart(s) /\ noted \in Readers /\ GroupsOf(noted, s) # {} /\ noted.deletes = rd.deletes
        /\ GroupsMatch(noted, sm)
    BY <1>4 DEF CanRemember
  <2>2. /\ x \in Readers
        /\ g \in ConcatGroups /\ Key[s] \in noted.groups[g].of
        /\ x.groups[g] = FreeGroup
        /\ \A h \in ConcatGroups : h # g => x.groups[h] = noted.groups[h]
        /\ ToSet(x.deletes) \subseteq
             ToSet(noted.deletes)
               \cup ({noted.groups[g].places[p] : p \in 1 .. Total[s]} \ {NoIndex})
    BY <2>1, ConcatDeletesEffect
  <2>. HIDE DEF x, g
  <2>3. 1 .. Total[s] \subseteq 1 .. MaxConcatParts
    BY <2>1 DEF ValidPart, ReaderAssumption, SmsReceiverCoreAssumption
  <2>4. ASSUME NEW i \in ToSet(x.deletes) \ ToSet(rd.deletes)
        PROVE  Key[sm[i]] = Key[s] /\ Part[sm[i]] \in 1 .. Total[s]
    <3>1. PICK p \in 1 .. Total[s] : i = noted.groups[g].places[p] /\ i # NoIndex
      BY <2>1, <2>2, <2>4
    <3>2. noted.groups[g].of = {Key[sm[i]]} /\ Part[sm[i]] = p
      BY <2>1, <2>2, <2>3, <3>1 DEF GroupsMatch
    <3>. QED  BY <2>2, <3>2
  <2>5. GroupsMatch(x, sm)
    BY <2>1, <2>2, NothingFree DEF GroupsMatch
  <2>6. Good(x)
    BY <2>2, <2>4, <2>5 DEF Belongs
  <2>. QED  BY <2>6 DEF x
<1>6. Good(IF IsConcat(s) THEN concat ELSE plain)
  <2>1. CASE IsConcat(s) /\ CanRemember(rd, s) /\ ~accepted
    <3>1. concat = noted
      BY <2>1
    <3>. HIDE DEF concat, noted
    <3>. QED  BY <1>4, <2>1, <3>1
  <2>. HIDE DEF Good, noted, plain
  <2>. QED  BY <1>2, <1>3, <1>5, <2>1
<1>7. Good(MessageAccepted(rd, s, accepted))
  <2>. HIDE DEF Good, concat, plain
  <2>. QED  BY <1>0, <1>1, <1>6
<1>. QED  BY <1>7

-----------------------------------------------------------------------------
(* The receiver. *)

Receivers == [awaitingPdu : BOOLEAN, slots : [ConcatSlots -> SUBSET Sms]]

\* A slot that takes a part: one of its message, or a free one.
Takes(parts, s) ==
  /\ parts = {} \/ \E t \in parts : Key[t] = Key[s]
  /\ \A t \in parts : Part[t] # Part[s]

\* A slot that is found is one of the receiver's.
LEMMA SlotForEffect ==
  ASSUME NEW r \in Receivers, NEW s \in Sms, SlotFor(r, s) # 0
  PROVE  /\ SlotFor(r, s) \in ConcatSlots
         /\ \/ r.slots[SlotFor(r, s)] = {}
            \/ \E t \in r.slots[SlotFor(r, s)] : Key[t] = Key[s]
<1>. DEFINE same == {i \in ConcatSlots : \E t \in r.slots[i] : Key[t] = Key[s]}
            free == {i \in ConcatSlots : r.slots[i] = {}}
<1>1. same \in SUBSET Nat /\ free \in SUBSET Nat
  BY DEF ConcatSlots
<1>2. CASE same # {}
  <2>1. SlotFor(r, s) = Min(same)
    BY <1>2 DEF SlotFor
  <2>2. Min(same) \in same
    <3>. HIDE DEF same
    <3>. QED  BY <1>1, <1>2, Least
  <2>. QED  BY <2>1, <2>2
<1>3. CASE same = {}
  <2>1. free # {} /\ SlotFor(r, s) = Min(free)
    BY <1>3 DEF SlotFor
  <2>2. Min(free) \in free
    <3>. HIDE DEF free
    <3>. QED  BY <1>1, <2>1, Least
  <2>. QED  BY <2>1, <2>2
<1>. QED  BY <1>2, <1>3

\* The fields of an outcome.
LEMMA OutcomeFields ==
  \A r, m : \A a \in BOOLEAN : /\ Outcome(r, a, m).receiver = r
                             /\ Outcome(r, a, m).accepted \in BOOLEAN
                             /\ Outcome(r, a, m).received = m
BY DEF Outcome

\* handlePduLine(): the PDU is refused or known already, or handed on, or kept
\* in a slot, or it completes the slot, which is handed on.
LEMMA HandlePduEffect ==
  ASSUME NEW r \in Receivers, NEW s \in Sms
  PROVE  LET o == HandlePdu(r, s)
         IN  /\ o.receiver \in Receivers /\ o.receiver.awaitingPdu = FALSE
             /\ o.accepted \in BOOLEAN
             /\ \/ o.received = <<>> /\ o.receiver.slots = r.slots
                \/ /\ ~IsConcat(s) /\ o.received = <<Message({s})>> /\ o.receiver.slots = r.slots
                \/ /\ IsConcat(s) /\ ValidPart(s)
                   /\ \E i \in ConcatSlots :
                        /\ Takes(r.slots[i], s)
                        /\ \/ /\ o.received = <<>>
                              /\ o.receiver.slots = [r.slots EXCEPT ![i] = @ \cup {s}]
                           \/ /\ Whole(r.slots[i] \cup {s})
                              /\ o.received = <<Message(r.slots[i] \cup {s})>>
                              /\ o.receiver.slots = [r.slots EXCEPT ![i] = {}]
<1>. DEFINE r0 == [r EXCEPT !.awaitingPdu = FALSE]
            o  == HandlePdu(r, s)
<1>1. r0 \in Receivers /\ r0.awaitingPdu = FALSE /\ r0.slots = r.slots
  BY DEF Receivers
<1>2. CASE s \in Undecodable \/ ~IsConcat(s)
  <2>1. \E a \in BOOLEAN : \/ o = Outcome(r0, a, <<>>)
                           \/ ~IsConcat(s) /\ o = Outcome(r0, a, <<Message({s})>>)
    BY <1>2 DEF HandlePdu
  <2>. HIDE DEF r0, o
  <2>2. /\ o.receiver = r0 /\ o.accepted \in BOOLEAN
        /\ o.received = <<>> \/ (~IsConcat(s) /\ o.received = <<Message({s})>>)
    <3>1. PICK a \in BOOLEAN : \/ o = Outcome(r0, a, <<>>)
                               \/ ~IsConcat(s) /\ o = Outcome(r0, a, <<Message({s})>>)
      BY <2>1
    <3>2. CASE o = Outcome(r0, a, <<>>)
      BY <3>2, OutcomeFields
    <3>3. CASE ~IsConcat(s) /\ o = Outcome(r0, a, <<Message({s})>>)
      BY <3>3, OutcomeFields
    <3>. QED  BY <3>1, <3>2, <3>3
  <2>. QED  BY <1>1, <2>2 DEF o
<1>3. CASE s \notin Undecodable /\ IsConcat(s)
  <2>. DEFINE i     == SlotFor(r0, s)
              parts == r0.slots[i] \cup {s}
              r1    == [r0 EXCEPT !.slots[i] = parts]
  <2>1. o = HandleConcat(r0, s)
    BY <1>3 DEF HandlePdu
  <2>2. CASE ~ValidPart(s) \/ i = 0 \/ \E t \in r0.slots[i] : Part[t] = Part[s]
    <3>1. \E a \in BOOLEAN : o = Outcome(r0, a, <<>>)
      BY <2>1, <2>2 DEF HandleConcat
    <3>2. o.receiver = r0 /\ o.accepted \in BOOLEAN /\ o.received = <<>>
      <4>. HIDE DEF r0, o
      <4>. QED  BY <3>1, OutcomeFields
    <3>. HIDE DEF r0, o
    <3>. QED  BY <1>1, <3>2 DEF o
  <2>3. CASE ~(~ValidPart(s) \/ i = 0 \/ \E t \in r0.slots[i] : Part[t] = Part[s])
    <3>1. o = IF Whole(parts) THEN Outcome(ClearSlot(r1, i), TRUE, <<Message(parts)>>)
              ELSE Outcome(r1, TRUE, <<>>)
      BY <2>1, <2>3 DEF HandleConcat
    <3>2. i \in ConcatSlots /\ (r0.slots[i] = {} \/ \E t \in r0.slots[i] : Key[t] = Key[s])
      <4>. HIDE DEF r0
      <4>. QED  BY <1>1, <2>3, SlotForEffect
    <3>. HIDE DEF i
    <3>3. parts \subseteq Sms
      BY <1>1, <3>2 DEF Receivers
    <3>4. /\ r1 \in Receivers /\ r1.awaitingPdu = FALSE
          /\ r1.slots = [r.slots EXCEPT ![i] = @ \cup {s}]
      BY <1>1, <3>2, <3>3 DEF Receivers
    <3>5. /\ ClearSlot(r1, i) \in Receivers /\ ClearSlot(r1, i).awaitingPdu = FALSE
          /\ ClearSlot(r1, i).slots = [r.slots EXCEPT ![i] = {}]
      BY <1>1, <3>2, <3>3 DEF Receivers, ClearSlot
    <3>6. Takes(r.slots[i], s) /\ parts = r.slots[i] \cup {s}
      BY <1>1, <2>3, <3>2 DEF Takes, i
    <3>. DEFINE c == ClearSlot(r1, i)
    <3>. HIDE DEF r0, o, r1, c
    <3>7. CASE Whole(parts)
      <4>1. o.receiver = c /\ o.accepted = TRUE /\ o.received = <<Message(parts)>>
        BY <3>1, <3>7 DEF Outcome, c
      <4>2. /\ Takes(r.slots[i], s) /\ Whole(r.slots[i] \cup {s})
            /\ o.received = <<Message(r.slots[i] \cup {s})>>
            /\ o.receiver.slots = [r.slots EXCEPT ![i] = {}]
        <5>. HIDE DEF parts
        <5>. QED  BY <3>5, <3>6, <3>7, <4>1 DEF c
      <4>3. o.receiver \in Receivers /\ o.receiver.awaitingPdu = FALSE /\ o.accepted \in BOOLEAN
        BY <3>5, <4>1 DEF c
      <4>. QED  BY <1>3, <2>3, <3>2, <4>2, <4>3 DEF o
    <3>8. CASE ~Whole(parts)
      <4>1. o.receiver = r1 /\ o.accepted = TRUE /\ o.received = <<>>
        BY <3>1, <3>8 DEF Outcome
      <4>. QED  BY <1>3, <2>3, <3>2, <3>4, <3>6, <4>1 DEF o
    <3>. QED  BY <3>7, <3>8
  <2>. QED  BY <2>2, <2>3
<1>. QED  BY <1>2, <1>3

\* The parts of one long message, each once.
PartsOnce(parts) ==
  \A s, t \in parts : /\ Key[s] = Key[t] /\ ValidPart(s) /\ IsConcat(s)
                      /\ Part[s] = Part[t] => s = t

\* A part that a slot takes is there once.
LEMMA TakesKeepsPartsOnce ==
  ASSUME NEW parts \in SUBSET Sms, NEW s \in Sms, PartsOnce(parts), Takes(parts, s),
         ValidPart(s), IsConcat(s)
  PROVE  PartsOnce(parts \cup {s})
BY DEF PartsOnce, Takes

\* As many parts as the message has are all of its parts.
LEMMA WholeHasEveryPart ==
  ASSUME ReaderAssumption, NEW parts \in SUBSET Sms, PartsOnce(parts), Whole(parts),
         NEW s \in parts, NEW p \in 1 .. Total[s]
  PROVE  \E t \in parts : Key[t] = Key[s] /\ Part[t] = p
<1>1. Part \in [Sms -> Nat] /\ Total \in [Sms -> Nat \ {0}]
      /\ \A t, u \in Sms : Key[t] = Key[u] => Total[t] = Total[u]
  BY DEF ReaderAssumption, SmsReceiverCoreAssumption
<1>. DEFINE T == 1 .. Total[s]
            f == [t \in parts |-> Part[t]]
<1>2. \A t \in parts : Total[t] = Total[s] /\ Part[t] \in T
  BY <1>1 DEF PartsOnce, ValidPart
<1>3. f \in Injection(parts, T)
  BY <1>2 DEF PartsOnce, Injection, IsInjective
<1>4. IsFiniteSet(T) /\ Cardinality(T) = Total[s]
  <2>1. Total[s] \in Nat \ {0}
    BY <1>1
  <2>. QED  BY <2>1, FS_Interval, 1 \in Int, Total[s] \in Int, ~(1 > Total[s]),
               Total[s] - 1 + 1 = Total[s]
<1>5. Cardinality(parts) = Total[s]
  BY <1>2 DEF Whole
<1>6. f \in Surjection(parts, T)
  <2>. HIDE DEF f, T
  <2>. QED  BY <1>3, <1>4, <1>5, FS_Injection
<1>7. PICK t \in parts : f[t] = p
  BY <1>6 DEF Surjection
<1>. QED  BY <1>7 DEF PartsOnce

-----------------------------------------------------------------------------
(* The composition. *)

\* What the modules that are composed assume.
Assumptions ==
  /\ SmsReceiverCoreAssumption /\ SmsStorageReaderCoreAssumption
  /\ SmsQueueCoreAssumption /\ StoredSmsAssumption

\* What the modules that are composed assume of the constants.
LEMMA ConstantsTyped == Assumptions
BY SmsReceiverCoreAssumption, SmsStorageReaderCoreAssumption, SmsQueueCoreAssumption,
   StoredSmsAssumption DEF Assumptions

\* The reader's share of it.
LEMMA ReaderConstants == ReaderAssumption
BY ConstantsTyped DEF Assumptions, ReaderAssumption

-----------------------------------------------------------------------------
(* Types. *)

Items == [msg : [parts : SUBSET Sms, complete : BOOLEAN], status : {"Pending"},
          attemptCount : {0}, nextAttempt : {0}]

StateRecord == [waiting : Seq(Command), receiver : Receivers, reader : Readers,
                queue : Seq(Items), queued : [Sms -> Nat]]

States == {s \in StateRecord : Len(s.waiting) <= AtCapacity /\ Len(s.queue) <= Capacity}

Lines ==
  {L(kind, s) : kind \in {"PDU", "DATA"}, s \in Sms}
    \cup {L("CMTI", i) : i \in Indices}
    \cup {L(kind, NoIndex) : kind \in {"CMT", "OK", "ERROR"}}

Types ==
  /\ State \in States
  /\ current \in Command \cup {NoCommand}
  /\ response \in Sms \cup {NoSms}
  /\ awaitingCmtPdu \in BOOLEAN
  /\ pc \in {"drain", "sms", "clients"}
  /\ uart \in Seq(Lines)
  /\ pending \in Seq(Command)
  /\ executed \in BOOLEAN
  /\ sim \in [Indices -> Sms \cup {NoSms}]
  /\ arrived \in SUBSET Sms

\* The fields of a line.
LEMMA LineFields ==
  \A line \in Lines :
    /\ line.kind \in {"CMT", "CMTI", "PDU", "DATA", "OK", "ERROR"}
    /\ line.kind \in {"PDU", "DATA"} => line.of \in Sms
    /\ line.kind = "CMTI" => line.of \in Indices
BY DEF Lines, L

\* The fields of the firmware's record.
LEMMA StateFields ==
  ASSUME NEW s \in States
  PROVE  /\ s \in StateRecord
         /\ s.waiting \in Seq(Command) /\ s.receiver \in Receivers /\ s.reader \in Readers
         /\ s.queue \in Seq(Items) /\ s.queued \in [Sms -> Nat]
         /\ Len(s.waiting) <= AtCapacity /\ Len(s.queue) <= Capacity
         /\ Len(s.waiting) \in Nat /\ Len(s.queue) \in Nat
         /\ AtCapacity \in Nat /\ Capacity \in Nat
BY ConstantsTyped DEF States, StateRecord, Assumptions, StoredSmsAssumption,
   SmsQueueCoreAssumption

\* A handler's result becomes the state.
LEMMA BecomesState ==
  ASSUME NEW s \in States, Becomes(s)
  PROVE  State' = s
BY StateFields DEF Becomes, State, StateRecord

\* The record with another receiver.
LEMMA WithReceiver ==
  ASSUME NEW s \in States, NEW r \in Receivers
  PROVE  LET t == [s EXCEPT !.receiver = r]
         IN  /\ t \in States
             /\ t.receiver = r /\ t.waiting = s.waiting /\ t.reader = s.reader
             /\ t.queue = s.queue /\ t.queued = s.queued
BY DEF States, StateRecord

\* The record with another reader.
LEMMA WithReader ==
  ASSUME NEW s \in States, NEW rd \in Readers
  PROVE  LET t == [s EXCEPT !.reader = rd]
         IN  /\ t \in States
             /\ t.reader = rd /\ t.waiting = s.waiting /\ t.receiver = s.receiver
             /\ t.queue = s.queue /\ t.queued = s.queued
BY DEF States, StateRecord

\* The record with one command more in the AT queue.
LEMMA WithCommand ==
  ASSUME NEW s \in States, NEW rd \in Readers, NEW c \in Command, Accepts(s)
  PROVE  LET t == [s EXCEPT !.reader = rd, !.waiting = Append(@, c)]
         IN  /\ t \in States
             /\ t.reader = rd /\ t.waiting = Append(s.waiting, c) /\ t.receiver = s.receiver
             /\ t.queue = s.queue /\ t.queued = s.queued
<1>1. /\ s.waiting \in Seq(Command) /\ Len(s.waiting) \in Nat /\ AtCapacity \in Nat
      /\ s \in StateRecord /\ Len(s.queue) <= Capacity
  BY StateFields
<1>. DEFINE w == Append(s.waiting, c)
<1>2. w \in Seq(Command) /\ Len(w) = Len(s.waiting) + 1
  BY <1>1
<1>3. Len(w) <= AtCapacity
  BY <1>1, <1>2 DEF Accepts
<1>. HIDE DEF w
<1>. DEFINE t == [s EXCEPT !.reader = rd, !.waiting = w]
<1>4. t \in StateRecord /\ t.reader = rd /\ t.waiting = w /\ t.receiver = s.receiver
             /\ t.queue = s.queue /\ t.queued = s.queued
  BY <1>1, <1>2 DEF StateRecord
<1>5. t \in States
  <2>. HIDE DEF t
  <2>. QED  BY <1>1, <1>3, <1>4 DEF States
<1>. QED  BY <1>4, <1>5 DEF w

\* handleSmsReceived(): the message is queued, and counted, or dropped.
LEMMA ReceivedEffect ==
  ASSUME NEW s \in States, NEW parts \in SUBSET Sms
  PROVE  LET t == Received(s, Message(parts))
         IN  /\ t \in States
             /\ t.waiting = s.waiting /\ t.receiver = s.receiver /\ t.reader = s.reader
             /\ \A m \in Sms :
                  t.queued[m] = IF HasRoom(s.queue) /\ m \in parts THEN s.queued[m] + 1 ELSE s.queued[m]
<1>1. CASE ~HasRoom(s.queue)
  BY <1>1 DEF Received
<1>2. CASE HasRoom(s.queue)
  <2>. DEFINE item == NewItem(Message(parts), 0)
              q == Append(s.queue, item)
              n == [m \in Sms |-> IF m \in parts THEN s.queued[m] + 1 ELSE s.queued[m]]
              t == [s EXCEPT !.queue = q, !.queued = n]
  <2>1. Received(s, Message(parts)) = t
    BY <1>2 DEF Received, Enqueue, Message
  <2>2. item \in Items
    <3>1. Whole(parts) \in BOOLEAN
      BY DEF Whole
    <3>. QED  BY <3>1 DEF NewItem, Message, Items
  <2>. HIDE DEF item
  <2>3. s.queue \in Seq(Items) /\ Len(s.queue) \in Nat /\ Len(s.queue) < Capacity /\ Capacity \in Nat
    BY <1>2, StateFields DEF HasRoom
  <2>4. q \in Seq(Items) /\ Len(q) <= Capacity
    BY <2>2, <2>3
  <2>5. n \in [Sms -> Nat]
    BY StateFields
  <2>6. \A m \in Sms : n[m] = IF m \in parts THEN s.queued[m] + 1 ELSE s.queued[m]
    OBVIOUS
  <2>. HIDE DEF q, n
  <2>7. /\ t \in StateRecord /\ t.waiting = s.waiting /\ t.receiver = s.receiver /\ t.reader = s.reader
        /\ t.queue = q /\ t.queued = n
    BY <2>4, <2>5 DEF States, StateRecord
  <2>8. t \in States
    <3>. HIDE DEF t
    <3>. QED  BY <2>4, <2>7, StateFields DEF States
  <2>. HIDE DEF t
  <2>. QED  BY <1>2, <2>1, <2>6, <2>7, <2>8
<1>. QED  BY <1>1, <1>2

\* The timed-out slots are handed on and given up, one after the other.
LEMMA TimeOutSlotsEffect ==
  ASSUME NEW s \in States, NEW due \in SUBSET ConcatSlots
  PROVE  LET t == TimeOutSlots(s, due)
         IN  /\ t \in States
             /\ t.waiting = s.waiting /\ t.reader = s.reader
             /\ t.receiver.awaitingPdu = s.receiver.awaitingPdu
             /\ \A j \in ConcatSlots :
                  t.receiver.slots[j] = IF j \in due THEN {} ELSE s.receiver.slots[j]
             /\ \A m \in Sms :
                  /\ t.queued[m] >= s.queued[m]
                  /\ (\A j \in due : m \notin s.receiver.slots[j]) => t.queued[m] = s.queued[m]
                  /\ (\A i, j \in ConcatSlots :
                        m \in s.receiver.slots[i] /\ m \in s.receiver.slots[j] => i = j)
                       => t.queued[m] <= s.queued[m] + 1
<1>. DEFINE n == MaxConcatMessages
            Upd(f, i) == IF i = 0 THEN s
                         ELSE IF i \notin due THEN f[i - 1]
                         ELSE Received([f[i - 1] EXCEPT !.receiver = ClearSlot(@, i)],
                                       Message(s.receiver.slots[i]))
            upTo == CHOOSE f : f = [i \in 0 .. n |-> Upd(f, i)]
            Before(m, i) == \E j \in due : j <= i /\ m \in s.receiver.slots[j]
            Once(m) == \A i, j \in ConcatSlots :
                         m \in s.receiver.slots[i] /\ m \in s.receiver.slots[j] => i = j
            Good(t, i) ==
              /\ t \in States
              /\ t.waiting = s.waiting /\ t.reader = s.reader
              /\ t.receiver.awaitingPdu = s.receiver.awaitingPdu
              /\ \A j \in ConcatSlots :
                   t.receiver.slots[j] = IF j \in due /\ j <= i THEN {} ELSE s.receiver.slots[j]
              /\ \A m \in Sms :
                   /\ t.queued[m] >= s.queued[m]
                   /\ ~Before(m, i) => t.queued[m] = s.queued[m]
                   /\ Once(m) => t.queued[m] <= s.queued[m] + 1
<1>1. TimeOutSlots(s, due) = upTo[n]
  BY DEF TimeOutSlots
<1>2. n \in Nat /\ ConcatSlots = 1 .. n
  BY ConstantsTyped DEF Assumptions, SmsReceiverCoreAssumption, ConcatSlots
<1>. HIDE DEF n
<1>3. \E f : f = [i \in 0 .. n |-> Upd(f, i)]
  <2>. DEFINE Has == {m \in 0 .. n : \E f : f = [i \in 0 .. m |-> Upd(f, i)]}
  <2>1. 0 \in Has
    <3>. DEFINE f == [i \in 0 .. 0 |-> s]
    <3>1. f = [i \in 0 .. 0 |-> Upd(f, i)]
      OBVIOUS
    <3>. HIDE DEF f, Upd
    <3>2. \E h : h = [i \in 0 .. 0 |-> Upd(h, i)]
      BY <3>1
    <3>. QED  BY <3>2, <1>2
  <2>2. ASSUME NEW m \in 1 .. n, m - 1 \in Has PROVE m \in Has
    <3>1. PICK f : f = [i \in 0 .. m - 1 |-> Upd(f, i)]
      BY <2>2
    <3>. DEFINE g == [i \in 0 .. m |-> IF i = m THEN Upd(f, m) ELSE f[i]]
    <3>2. ASSUME NEW i \in 0 .. m PROVE g[i] = Upd(g, i)
      <4>1. CASE i = m
        <5>1. m - 1 \in 0 .. m /\ m - 1 # m /\ m # 0
          BY <1>2
        <5>2. g[m - 1] = f[m - 1]
          BY <5>1
        <5>. QED  BY <4>1, <5>1, <5>2
      <4>2. CASE i # m
        <5>1. i \in 0 .. m - 1 /\ (i # 0 => i - 1 \in 0 .. m /\ i - 1 # m)
          BY <4>2, <1>2
        <5>2. g[i] = f[i] /\ (i # 0 => g[i - 1] = f[i - 1])
          BY <4>2, <5>1
        <5>3. f[i] = Upd(f, i)
          BY <3>1, <5>1
        <5>. QED  BY <5>2, <5>3
      <4>. QED  BY <4>1, <4>2
    <3>3. g = [i \in 0 .. m |-> Upd(g, i)]
      <4>. HIDE DEF Upd
      <4>1. g = [i \in 0 .. m |-> g[i]]
        OBVIOUS
      <4>. QED  BY <3>2, <4>1
    <3>. HIDE DEF g, Upd
    <3>4. \E h : h = [i \in 0 .. m |-> Upd(h, i)]
      BY <3>3
    <3>. QED  BY <3>4, <1>2
  <2>3. 0 .. n \subseteq Has
    <3>. HIDE DEF Has
    <3>. QED  BY <1>2, <2>1, <2>2, UpTo
  <2>4. n \in Has
    <3>. HIDE DEF Has
    <3>. QED  BY <1>2, <2>3
  <2>. HIDE DEF Upd
  <2>. QED  BY <2>4
<1>4. \A i \in 0 .. n : upTo[i] = Upd(upTo, i)
  <2>1. upTo = [i \in 0 .. n |-> Upd(upTo, i)]
    <3>. HIDE DEF Upd
    <3>. QED  BY <1>3
  <2>. HIDE DEF upTo, Upd
  <2>. QED  BY <2>1
<1>. HIDE DEF upTo
<1>5. ASSUME NEW i \in 1 .. n, i \in due, NEW t, Good(t, i - 1)
      PROVE  Good(Received([t EXCEPT !.receiver = ClearSlot(@, i)], Message(s.receiver.slots[i])), i)
  <2>. DEFINE r == ClearSlot(t.receiver, i)
              t1 == [t EXCEPT !.receiver = r]
              parts == s.receiver.slots[i]
              t2 == Received(t1, Message(parts))
  <2>1. s.receiver \in Receivers /\ t \in States /\ t.receiver \in Receivers /\ i \in ConcatSlots
    BY <1>2, <1>5, StateFields
  <2>2. parts \in SUBSET Sms
    BY <2>1 DEF Receivers
  <2>3. /\ r \in Receivers /\ r.awaitingPdu = t.receiver.awaitingPdu
        /\ \A j \in ConcatSlots : r.slots[j] = IF j = i THEN {} ELSE t.receiver.slots[j]
    BY <2>1 DEF Receivers, ClearSlot
  <2>. HIDE DEF r, parts
  <2>4. /\ t1 \in States /\ t1.receiver = r /\ t1.waiting = t.waiting /\ t1.reader = t.reader
        /\ t1.queue = t.queue /\ t1.queued = t.queued
    BY <2>1, <2>3, WithReceiver
  <2>. HIDE DEF t1
  <2>5. /\ t2 \in States
        /\ t2.waiting = t1.waiting /\ t2.receiver = t1.receiver /\ t2.reader = t1.reader
        /\ \A m \in Sms :
             t2.queued[m] = IF HasRoom(t1.queue) /\ m \in parts THEN t1.queued[m] + 1 ELSE t1.queued[m]
    BY <2>2, <2>4, ReceivedEffect
  <2>. HIDE DEF t2
  <2>6. \A j \in ConcatSlots :
          t2.receiver.slots[j] = IF j \in due /\ j <= i THEN {} ELSE s.receiver.slots[j]
    <3>1. \A j \in ConcatSlots : j <= i <=> j = i \/ j <= i - 1
      BY <1>2
    <3>. QED  BY <1>5, <2>3, <2>4, <2>5, <3>1
  <2>7. ASSUME NEW m \in Sms
        PROVE  /\ t2.queued[m] >= s.queued[m]
               /\ ~Before(m, i) => t2.queued[m] = s.queued[m]
               /\ Once(m) => t2.queued[m] <= s.queued[m] + 1
    <3>. DEFINE a == s.queued[m]
                b == t.queued[m]
                c == t2.queued[m]
    <3>1. a \in Nat /\ b \in Nat
      BY <2>1, StateFields
    <3>2. c = b \/ (c = b + 1 /\ m \in parts)
      BY <2>4, <2>5
    <3>3. /\ b >= a /\ (~Before(m, i - 1) => b = a)
          /\ Once(m) => b <= a + 1
      BY <1>5
    <3>. HIDE DEF a, b, c
    <3>4. Before(m, i - 1) => Before(m, i)
      BY <1>2
    <3>5. m \in parts => Before(m, i)
      BY <1>2, <1>5 DEF parts
    <3>6. m \in parts /\ Once(m) => ~Before(m, i - 1)
      <4>. SUFFICES ASSUME m \in s.receiver.slots[i], Once(m), NEW j \in due, j <= i - 1,
                           m \in s.receiver.slots[j]
                    PROVE  FALSE
        BY DEF parts
      <4>1. j = i
        BY <2>1
      <4>. QED  BY <1>2, <4>1
    <3>. HIDE DEF Before, Once
    <3>7. c >= a /\ (~Before(m, i) => c = a) /\ (Once(m) => c <= a + 1)
      BY <3>1, <3>2, <3>3, <3>4, <3>5, <3>6
    <3>. QED  BY <3>7 DEF a, c
  <2>8. t2.waiting = s.waiting /\ t2.reader = s.reader
        /\ t2.receiver.awaitingPdu = s.receiver.awaitingPdu
    BY <1>5, <2>3, <2>4, <2>5
  <2>9. Good(t2, i)
    <3>. HIDE DEF Before, Once
    <3>. QED  BY <2>5, <2>6, <2>7, <2>8
  <2>. QED  BY <2>9 DEF t2, t1, r, parts
<1>6. 0 .. n \subseteq {i \in 0 .. n : Good(upTo[i], i)}
  <2>. DEFINE S == {i \in 0 .. n : Good(upTo[i], i)}
  <2>1. 0 \in S
    <3>1. upTo[0] = s
      <4>1. 0 \in 0 .. n
        BY <1>2
      <4>2. upTo[0] = Upd(upTo, 0)
        BY <1>4, <4>1
      <4>. QED  BY <4>2
    <3>2. s.queued \in [Sms -> Nat]
      BY StateFields
    <3>3. \A j \in due : ~(j <= 0)
      BY <1>2
    <3>4. Good(s, 0)
      BY <3>2, <3>3
    <3>. HIDE DEF Good
    <3>. QED  BY <1>2, <3>1, <3>4
  <2>2. ASSUME NEW i \in 1 .. n, i - 1 \in S PROVE i \in S
    <3>1. i \in 0 .. n /\ i # 0
      BY <1>2
    <3>2. upTo[i] = Upd(upTo, i) /\ Good(upTo[i - 1], i - 1)
      BY <1>4, <2>2, <3>1
    <3>3. CASE i \notin due
      <4>1. upTo[i] = upTo[i - 1]
        BY <3>1, <3>2, <3>3
      <4>2. \A j \in due : j <= i <=> j <= i - 1
        BY <1>2, <3>3
      <4>3. Good(upTo[i - 1], i)
        BY <3>2, <4>2
      <4>. HIDE DEF Good
      <4>. QED  BY <3>1, <4>1, <4>3
    <3>4. CASE i \in due
      <4>1. upTo[i] = Received([upTo[i - 1] EXCEPT !.receiver = ClearSlot(@, i)],
                               Message(s.receiver.slots[i]))
        BY <3>1, <3>2, <3>4
      <4>. HIDE DEF Good
      <4>2. Good(upTo[i], i)
        BY <1>5, <3>2, <3>4, <4>1
      <4>. QED  BY <3>1, <4>2
    <3>. QED  BY <3>3, <3>4
  <2>. HIDE DEF S
  <2>. QED  BY <1>2, <2>1, <2>2, UpTo DEF S
<1>7. Good(upTo[n], n)
  <2>. HIDE DEF Good
  <2>. QED  BY <1>2, <1>6
<1>8. \A j \in due : j <= n
  BY <1>2
<1>. QED  BY <1>1, <1>7, <1>8

\* submitStoredSmsDeleteIfReady()
LEMMA SubmitDeleteEffect ==
  ASSUME NEW s \in States
  PROVE  LET t  == SubmitDelete(s)
             rd == NextDelete(s.reader)
         IN  /\ t \in States
             /\ t.receiver = s.receiver /\ t.queue = s.queue /\ t.queued = s.queued
             /\ \/ ~DeleteIsReady(s.reader) /\ t = s
                \/ /\ DeleteIsReady(s.reader) /\ rd \in Readers
                   /\ \/ /\ t.reader = rd
                         /\ t.waiting = Append(s.waiting, Delete(rd.active))
                      \/ /\ t.reader = ClearActive(rd) /\ t.waiting = s.waiting
                         /\ ~Accepts(s)
<1>1. CASE ~DeleteIsReady(s.reader)
  BY <1>1 DEF SubmitDelete
<1>2. CASE DeleteIsReady(s.reader)
  <2>. DEFINE rd == NextDelete(s.reader)
  <2>1. /\ rd \in Readers /\ rd.state = "Deleting" /\ rd.active \in Indices
    BY <1>2, StateFields, ReaderConstants, NextDeleteEffect
  <2>2. Delete(rd.active) \in Command
    BY <2>1 DEF Command
  <2>. HIDE DEF rd
  <2>3. SubmitDelete(s) = IF Accepts(s)
           THEN [s EXCEPT !.reader = rd, !.waiting = Append(@, Delete(rd.active))]
           ELSE [s EXCEPT !.reader = CompleteDelete(rd, "QueueFull")]
    BY <1>2 DEF SubmitDelete, rd
  <2>4. CASE Accepts(s)
    <3>. DEFINE c == Delete(rd.active)
                t == [s EXCEPT !.reader = rd, !.waiting = Append(@, c)]
    <3>1. SubmitDelete(s) = t
      BY <2>3, <2>4
    <3>. HIDE DEF c
    <3>2. /\ t \in States
          /\ t.reader = rd /\ t.waiting = Append(s.waiting, c) /\ t.receiver = s.receiver
          /\ t.queue = s.queue /\ t.queued = s.queued
      BY <2>1, <2>2, <2>4, WithCommand, ZenonT(40) DEF c
    <3>. HIDE DEF t
    <3>. QED  BY <1>2, <2>1, <3>1, <3>2 DEF rd, c
  <2>5. CASE ~Accepts(s)
    <3>1. CompleteDelete(rd, "QueueFull") = ClearActive(rd) /\ ClearActive(rd) \in Readers
      BY <2>1, ClearActiveTyped DEF CompleteDelete
    <3>. QED  BY <1>2, <2>1, <2>3, <2>5, <3>1, WithReader DEF rd
  <2>. QED  BY <2>4, <2>5
<1>. QED  BY <1>1, <1>2

\* submitStoredSmsReadIfReady()
LEMMA SubmitReadEffect ==
  ASSUME NEW s \in States
  PROVE  LET t  == SubmitRead(s)
             rd == NextRead(s.reader)
         IN  /\ t \in States
             /\ t.receiver = s.receiver /\ t.queue = s.queue /\ t.queued = s.queued
             /\ \/ ~ReadIsReady(s.reader) /\ t = s
                \/ /\ ReadIsReady(s.reader) /\ rd \in Readers
                   /\ \/ /\ t.reader = rd
                         /\ t.waiting = Append(s.waiting, Read(rd.active))
                      \/ /\ t.reader = ClearActive(rd) /\ t.waiting = s.waiting
                         /\ ~Accepts(s)
<1>1. CASE ~ReadIsReady(s.reader)
  BY <1>1 DEF SubmitRead
<1>2. CASE ReadIsReady(s.reader)
  <2>. DEFINE rd == NextRead(s.reader)
  <2>1. /\ rd \in Readers /\ rd.state = "Reading" /\ rd.active \in Indices
    BY <1>2, StateFields, ReaderConstants, NextReadEffect
  <2>2. Read(rd.active) \in Command
    BY <2>1 DEF Command
  <2>. HIDE DEF rd
  <2>3. SubmitRead(s) = IF Accepts(s)
           THEN [s EXCEPT !.reader = rd, !.waiting = Append(@, Read(rd.active))]
           ELSE [s EXCEPT !.reader = ClearActive(rd)]
    BY <1>2 DEF SubmitRead, rd
  <2>4. CASE Accepts(s)
    <3>. DEFINE c == Read(rd.active)
                t == [s EXCEPT !.reader = rd, !.waiting = Append(@, c)]
    <3>1. SubmitRead(s) = t
      BY <2>3, <2>4
    <3>. HIDE DEF c
    <3>2. /\ t \in States
          /\ t.reader = rd /\ t.waiting = Append(s.waiting, c) /\ t.receiver = s.receiver
          /\ t.queue = s.queue /\ t.queued = s.queued
      BY <2>1, <2>2, <2>4, WithCommand, ZenonT(40) DEF c
    <3>. HIDE DEF t
    <3>. QED  BY <1>2, <2>1, <3>1, <3>2 DEF rd, c
  <2>5. CASE ~Accepts(s)
    <3>1. ClearActive(rd) \in Readers
      BY <2>1, ClearActiveTyped
    <3>. QED  BY <1>2, <2>1, <2>3, <2>5, <3>1, WithReader DEF rd
  <2>. QED  BY <2>4, <2>5
<1>. QED  BY <1>1, <1>2

-----------------------------------------------------------------------------
(* The channel. *)

\* The command the reader waits for.
CommandOf(rd) == IF rd.state = "Reading" THEN Read(rd.active) ELSE Delete(rd.active)

\* The commands in the channel, w waiting and c under way.
Channel(w, c, rd) ==
  /\ Distinct(w)
  /\ \A k \in DOMAIN w : w[k] # c
  /\ \A k \in DOMAIN w : w[k].op # "other" => rd.state # "None" /\ w[k] = CommandOf(rd)
  /\ c.op \in {"read", "delete"} => rd.state # "None" /\ c = CommandOf(rd)
  /\ rd.state # "None" => c = CommandOf(rd) \/ \E k \in DOMAIN w : w[k] = CommandOf(rd)

\* The reader's commands are none of the loop's.
LEMMA CommandFacts ==
  /\ \A rd : CommandOf(rd).op \in {"read", "delete"}
  /\ \A rd : rd.state = "Reading" => CommandOf(rd) = Read(rd.active)
  /\ \A rd : rd.state = "Deleting" => CommandOf(rd) = Delete(rd.active)
  /\ NoCommand.op = "none"
  /\ NoCommand \notin Command
  /\ \A i : Read(i).op = "read" /\ Delete(i).op = "delete" /\ Other(i).op = "other"
  /\ \A i : Read(i).arg = i /\ Delete(i).arg = i /\ Other(i).arg = i
  /\ \A c \in Command : c.op \in {"read", "delete", "other"}
  /\ \A c \in Command : /\ c.op = "read" => c.arg \in Indices /\ c = Read(c.arg)
                        /\ c.op = "delete" => c.arg \in Indices /\ c = Delete(c.arg)
                        /\ c.op = "other" => c.arg \in Clients /\ c = Other(c.arg)
<1>1. /\ \A i : Read(i).op = "read" /\ Delete(i).op = "delete" /\ Other(i).op = "other"
      /\ \A i : Read(i).arg = i /\ Delete(i).arg = i /\ Other(i).arg = i
      /\ NoCommand.op = "none"
  BY DEF Read, Delete, Other, NoCommand
<1>2. \A c \in Command : \/ \E i \in Indices : c = Read(i)
                         \/ \E i \in Indices : c = Delete(i)
                         \/ \E i \in Clients : c = Other(i)
  BY DEF Command
<1>3. /\ \A c \in Command : c.op \in {"read", "delete", "other"}
      /\ \A c \in Command : /\ c.op = "read" => c.arg \in Indices /\ c = Read(c.arg)
                            /\ c.op = "delete" => c.arg \in Indices /\ c = Delete(c.arg)
                            /\ c.op = "other" => c.arg \in Clients /\ c = Other(c.arg)
  BY <1>1, <1>2
<1>4. NoCommand \notin Command
  BY <1>1, <1>3
<1>5. \A rd : CommandOf(rd).op \in {"read", "delete"}
  <2>. TAKE rd
  <2>1. CommandOf(rd) = Read(rd.active) \/ CommandOf(rd) = Delete(rd.active)
    BY DEF CommandOf
  <2>. QED  BY <1>1, <2>1
<1>6. /\ \A rd : rd.state = "Reading" => CommandOf(rd) = Read(rd.active)
      /\ \A rd : rd.state = "Deleting" => CommandOf(rd) = Delete(rd.active)
  BY DEF CommandOf
<1>. QED  BY <1>1, <1>3, <1>4, <1>5, <1>6

\* A resting reader submits a command and waits for it.
LEMMA ChannelSubmits ==
  ASSUME NEW w \in Seq(Command), NEW c, NEW rd, NEW rd2, Channel(w, c, rd),
         rd.state = "None", rd2.state # "None"
  PROVE  Channel(Append(w, CommandOf(rd2)), c, rd2)
<1>. DEFINE m == CommandOf(rd2)
            a == Append(w, m)
            n == Len(w)
<1>1. /\ n \in Nat /\ DOMAIN w = 1 .. n /\ DOMAIN a = 1 .. n + 1
      /\ \A k \in 1 .. n : a[k] = w[k]
      /\ a[n + 1] = m
  OBVIOUS
<1>2. /\ \A k \in 1 .. n : w[k].op = "other"
      /\ c.op \notin {"read", "delete"}
  BY <1>1 DEF Channel
<1>3. m.op \in {"read", "delete"}
  BY CommandFacts
<1>. HIDE DEF m, a, n
<1>4. \A k \in 1 .. n + 1 : k \in 1 .. n \/ k = n + 1
  BY <1>1
<1>5. Distinct(a)
  BY <1>1, <1>2, <1>3, <1>4 DEF Channel, Distinct
<1>6. \A k \in DOMAIN a : a[k] # c /\ (a[k].op # "other" => a[k] = m)
  BY <1>1, <1>2, <1>3, <1>4 DEF Channel
<1>7. \E k \in DOMAIN a : a[k] = m
  BY <1>1
<1>. QED  BY <1>2, <1>5, <1>6, <1>7 DEF Channel, m, a

\* The command under way is done with; the reader rests if it was its own.
LEMMA ChannelDone ==
  ASSUME NEW w \in Seq(Command), NEW c \in Command, NEW rd, NEW rd2, Channel(w, c, rd),
         IF c.op = "other" THEN rd2 = rd ELSE rd2.state = "None"
  PROVE  Channel(w, NoCommand, rd2)
<1>1. \A k \in DOMAIN w : w[k] \in Command
  OBVIOUS
<1>2. \A k \in DOMAIN w : w[k] # NoCommand
  BY <1>1, CommandFacts
<1>3. NoCommand.op \notin {"read", "delete"}
  BY CommandFacts
<1>4. CASE c.op = "other"
  <2>1. c # CommandOf(rd)
    BY <1>4, CommandFacts
  <2>. QED  BY <1>2, <1>3, <1>4, <2>1 DEF Channel
<1>5. CASE c.op # "other"
  <2>1. c.op \in {"read", "delete"}
    BY <1>5, CommandFacts
  <2>2. c = CommandOf(rd)
    BY <2>1 DEF Channel
  <2>3. \A k \in DOMAIN w : w[k].op = "other"
    BY <2>2 DEF Channel
  <2>. QED  BY <1>2, <1>3, <1>5, <2>3 DEF Channel
<1>. QED  BY <1>4, <1>5

\* Two resting readers are the same to the channel.
LEMMA ChannelRests ==
  ASSUME NEW w, NEW c, NEW rd, NEW rd2, Channel(w, c, rd), rd.state = "None", rd2.state = "None"
  PROVE  Channel(w, c, rd2)
BY DEF Channel

\* The submit functions keep the channel in order.
LEMMA SubmitDeleteChannel ==
  ASSUME NEW s \in States, NEW c, Channel(s.waiting, c, s.reader)
  PROVE  LET t == SubmitDelete(s) IN Channel(t.waiting, c, t.reader)
<1>. DEFINE t  == SubmitDelete(s)
            rd == NextDelete(s.reader)
<1>1. CASE ~DeleteIsReady(s.reader)
  BY <1>1 DEF SubmitDelete
<1>2. CASE DeleteIsReady(s.reader)
  <2>1. s.reader \in Readers /\ s.waiting \in Seq(Command) /\ s.reader.state = "None"
    BY <1>2, StateFields DEF DeleteIsReady
  <2>2. /\ rd.state = "Deleting"
        /\ \/ t.reader = rd /\ t.waiting = Append(s.waiting, Delete(rd.active))
           \/ t.reader = ClearActive(rd) /\ t.waiting = s.waiting
    BY <1>2, <2>1, SubmitDeleteEffect, ReaderConstants, NextDeleteEffect
  <2>3. CASE t.reader = rd /\ t.waiting = Append(s.waiting, Delete(rd.active))
    <3>1. CommandOf(rd) = Delete(rd.active)
      BY <2>2, CommandFacts
    <3>2. Channel(Append(s.waiting, CommandOf(rd)), c, rd)
      BY <2>1, <2>2, ChannelSubmits
    <3>. QED  BY <2>3, <3>1, <3>2
  <2>4. CASE t.reader = ClearActive(rd) /\ t.waiting = s.waiting
    <3>1. ClearActive(rd).state = "None"
      BY <1>2, <2>1, ReaderConstants, NextDeleteEffect, ReaderFields DEF ClearActive,
         ReaderRecord
    <3>. QED  BY <2>1, <2>4, <3>1, ChannelRests
  <2>. QED  BY <2>2, <2>3, <2>4
<1>. QED  BY <1>1, <1>2

\* submitting the reader's command keeps the channel in step with the reader.
LEMMA SubmitReadChannel ==
  ASSUME NEW s \in States, NEW c, Channel(s.waiting, c, s.reader)
  PROVE  LET t == SubmitRead(s) IN Channel(t.waiting, c, t.reader)
<1>. DEFINE t  == SubmitRead(s)
            rd == NextRead(s.reader)
<1>1. CASE ~ReadIsReady(s.reader)
  BY <1>1 DEF SubmitRead
<1>2. CASE ReadIsReady(s.reader)
  <2>1. s.reader \in Readers /\ s.waiting \in Seq(Command) /\ s.reader.state = "None"
    BY <1>2, StateFields DEF ReadIsReady
  <2>2. /\ rd.state = "Reading"
        /\ \/ t.reader = rd /\ t.waiting = Append(s.waiting, Read(rd.active))
           \/ t.reader = ClearActive(rd) /\ t.waiting = s.waiting
    BY <1>2, <2>1, SubmitReadEffect, ReaderConstants, NextReadEffect
  <2>3. CASE t.reader = rd /\ t.waiting = Append(s.waiting, Read(rd.active))
    <3>1. CommandOf(rd) = Read(rd.active)
      BY <2>2, CommandFacts
    <3>2. Channel(Append(s.waiting, CommandOf(rd)), c, rd)
      BY <2>1, <2>2, ChannelSubmits
    <3>. QED  BY <2>3, <3>1, <3>2
  <2>4. CASE t.reader = ClearActive(rd) /\ t.waiting = s.waiting
    <3>1. ClearActive(rd).state = "None"
      BY <1>2, <2>1, ReaderConstants, NextReadEffect, ReaderFields DEF ClearActive, ReaderRecord
    <3>. QED  BY <2>1, <2>4, <3>1, ChannelRests
  <2>. QED  BY <2>2, <2>3, <2>4
<1>. QED  BY <1>1, <1>2

-----------------------------------------------------------------------------
(* A PDU is read, and the callback of a finished command. *)

Handed(s, pdu) ==
  LET o == HandlePdu(s.receiver, pdu)
  IN  ReceivedAll([s EXCEPT !.receiver = o.receiver], o.received)

\* What handing a PDU to the forwarder changes.
LEMMA HandedEffect ==
  ASSUME NEW s \in States, NEW pdu \in Sms
  PROVE  LET o == HandlePdu(s.receiver, pdu)
             t == Handed(s, pdu)
         IN  /\ t \in States
             /\ t.waiting = s.waiting /\ t.reader = s.reader /\ t.receiver = o.receiver
             /\ t.receiver.awaitingPdu = FALSE
             /\ \/ o.received = <<>> /\ t.queued = s.queued
                \/ \E parts \in SUBSET Sms :
                     /\ o.received = <<Message(parts)>>
                     /\ \A m \in Sms :
                          t.queued[m] = IF HasRoom(s.queue) /\ m \in parts
                                        THEN s.queued[m] + 1 ELSE s.queued[m]
<1>. DEFINE o  == HandlePdu(s.receiver, pdu)
            s1 == [s EXCEPT !.receiver = o.receiver]
            t  == Handed(s, pdu)
<1>1. s.receiver \in Receivers
  BY StateFields
<1>2. /\ o.receiver \in Receivers /\ o.receiver.awaitingPdu = FALSE
      /\ o.received = <<>> \/ \E parts \in SUBSET Sms : o.received = <<Message(parts)>>
  <2>1. \A i \in ConcatSlots : s.receiver.slots[i] \cup {pdu} \in SUBSET Sms
    BY <1>1 DEF Receivers
  <2>. HIDE DEF o
  <2>. QED  BY <1>1, <2>1, HandlePduEffect DEF o
<1>3. t = ReceivedAll(s1, o.received)
  BY DEF Handed
<1>. HIDE DEF o, t
<1>4. /\ s1 \in States /\ s1.receiver = o.receiver /\ s1.waiting = s.waiting
      /\ s1.reader = s.reader /\ s1.queue = s.queue /\ s1.queued = s.queued
  BY <1>2, WithReceiver
<1>. HIDE DEF s1
<1>5. CASE o.received = <<>>
  <2>1. t = s1
    BY <1>3, <1>5 DEF ReceivedAll
  <2>. QED  BY <1>2, <1>4, <1>5, <2>1 DEF o, t
<1>6. ASSUME NEW parts \in SUBSET Sms, o.received = <<Message(parts)>>
      PROVE  /\ t \in States
             /\ t.waiting = s.waiting /\ t.reader = s.reader /\ t.receiver = o.receiver
             /\ \A m \in Sms :
                  t.queued[m] = IF HasRoom(s.queue) /\ m \in parts
                                THEN s.queued[m] + 1 ELSE s.queued[m]
  <2>1. o.received # <<>> /\ o.received[1] = Message(parts)
    <3>. DEFINE msg == Message(parts)
    <3>. HIDE DEF msg
    <3>1. o.received = <<msg>>
      BY <1>6 DEF msg
    <3>2. o.received # <<>> /\ o.received[1] = msg
      BY <3>1
    <3>. QED  BY <3>2 DEF msg
  <2>2. t = Received(s1, Message(parts))
    BY <1>3, <2>1 DEF ReceivedAll
  <2>3. /\ t \in States
        /\ t.waiting = s1.waiting /\ t.receiver = s1.receiver /\ t.reader = s1.reader
        /\ \A m \in Sms :
             t.queued[m] = IF HasRoom(s1.queue) /\ m \in parts THEN s1.queued[m] + 1 ELSE s1.queued[m]
    BY <1>4, <2>2, ReceivedEffect
  <2>. QED  BY <1>4, <2>3
<1>. QED  BY <1>2, <1>5, <1>6 DEF o, t

\* handleStoredSmsReadResult(): the reader rests, unless a deletion is ready at once.
LEMMA ReadResultEffect ==
  ASSUME NEW s \in States, s.reader.state = "Reading", NEW result, NEW pdu \in Sms \cup {NoSms}
  PROVE  LET t    == ReadResult(s, result, pdu)
             h    == Handed(s, pdu)
             o    == HandlePdu(s.receiver, pdu)
             room == HasRoom(s.queue)
             rd   == MessageAccepted(s.reader, pdu, o.received # <<>> /\ room)
         IN  \/ /\ result # "Ok" \/ pdu = NoSms
                /\ t = [s EXCEPT !.reader = ClearActive(@)] /\ t \in States
             \/ /\ pdu \in Sms
                /\ t = [h EXCEPT !.reader = ClearActive(@)] /\ t \in States
             \/ /\ pdu \in Sms
                /\ t = SubmitDelete([h EXCEPT !.reader = rd]) /\ rd \in Readers /\ rd.state = "None"
<1>. DEFINE t    == ReadResult(s, result, pdu)
            h    == Handed(s, pdu)
            o    == HandlePdu(s.receiver, pdu)
            room == HasRoom(s.queue)
            rd   == MessageAccepted(s.reader, pdu, o.received # <<>> /\ room)
<1>1. s.reader \in Readers
  BY StateFields
<1>2. CASE result # "Ok" \/ pdu = NoSms
  <2>1. t = [s EXCEPT !.reader = ClearActive(@)]
    BY <1>2 DEF ReadResult
  <2>2. [s EXCEPT !.reader = ClearActive(@)] \in States
    BY <1>1, ClearActiveTyped, WithReader
  <2>. QED  BY <1>2, <2>1, <2>2
<1>3. CASE ~(result # "Ok" \/ pdu = NoSms)
  <2>1. pdu \in Sms
    BY <1>3
  <2>2. t = IF ~o.accepted THEN [h EXCEPT !.reader = ClearActive(@)]
            ELSE SubmitDelete([h EXCEPT !.reader = MessageAccepted(@, pdu, o.received # <<>> /\ room)])
    BY <1>3 DEF ReadResult, Handed
  <2>3. h \in States /\ h.reader = s.reader
    BY <2>1, HandedEffect
  <2>. HIDE DEF h
  <2>4. [h EXCEPT !.reader = MessageAccepted(@, pdu, o.received # <<>> /\ room)]
          = [h EXCEPT !.reader = rd]
    BY <2>3 DEF States, StateRecord
  <2>5. rd \in Readers /\ rd.state = "None"
    <3>. DEFINE b == o.received # <<>> /\ room
    <3>1. b \in BOOLEAN
      OBVIOUS
    <3>. HIDE DEF b
    <3>2. /\ MessageAccepted(s.reader, pdu, b) \in Readers
          /\ MessageAccepted(s.reader, pdu, b).state = "None"
      BY <1>1, <2>1, <3>1, ReaderConstants, MessageAcceptedEffect
    <3>. QED  BY <3>2 DEF b
  <2>6. [h EXCEPT !.reader = ClearActive(@)] \in States
    BY <1>1, <2>3, ClearActiveTyped, WithReader
  <2>. HIDE DEF t, rd, o, room
  <2>7. CASE ~o.accepted
    BY <2>1, <2>2, <2>6, <2>7 DEF t, h
  <2>8. CASE o.accepted
    BY <2>1, <2>2, <2>4, <2>5, <2>8 DEF t, h, rd, o, room
  <2>. QED  BY <2>7, <2>8
<1>. QED  BY <1>2, <1>3

\* The callback of the command under way, which is done with.
LEMMA CallbackChannel ==
  ASSUME NEW s \in States, NEW c \in Command, NEW result, NEW pdu \in Sms \cup {NoSms},
         Channel(s.waiting, c, s.reader)
  PROVE  LET t == Callback(s, c, result, pdu)
         IN  t \in States /\ Channel(t.waiting, NoCommand, t.reader)
<1>. DEFINE t == Callback(s, c, result, pdu)
<1>0. s.reader \in Readers /\ s.waiting \in Seq(Command)
  BY StateFields
<1>1. CASE c.op = "read"
  <2>1. t = ReadResult(s, result, pdu)
    BY <1>1 DEF Callback
  <2>2. s.reader.state = "Reading"
    <3>1. s.reader.state # "None" /\ c = CommandOf(s.reader)
      BY <1>1 DEF Channel
    <3>2. s.reader.state \in {"None", "Reading", "Deleting"}
      BY <1>0 DEF Readers
    <3>. QED  BY <1>1, <3>1, <3>2, CommandFacts
  <2>. DEFINE h    == Handed(s, pdu)
              o    == HandlePdu(s.receiver, pdu)
              room == HasRoom(s.queue)
              rd   == MessageAccepted(s.reader, pdu, o.received # <<>> /\ room)
  <2>3. ClearActive(s.reader).state = "None" /\ ClearActive(s.reader) \in Readers
    BY <1>0, ClearActiveTyped, ReaderFields DEF ClearActive, ReaderRecord
  <2>4. pdu \in Sms => h \in States /\ h.waiting = s.waiting /\ h.reader = s.reader
    BY HandedEffect
  <2>. HIDE DEF t, h, o, room
  <2>5. CASE t = [s EXCEPT !.reader = ClearActive(@)] /\ t \in States
    <3>1. t.waiting = s.waiting /\ t.reader = ClearActive(s.reader)
      BY <2>3, <2>5, WithReader
    <3>. QED  BY <1>0, <1>1, <2>3, <2>5, <3>1, ChannelDone DEF t
  <2>6. CASE pdu \in Sms /\ t = [h EXCEPT !.reader = ClearActive(@)] /\ t \in States
    <3>1. t.waiting = s.waiting /\ t.reader = ClearActive(s.reader)
      BY <2>3, <2>4, <2>6, WithReader
    <3>. QED  BY <1>0, <1>1, <2>3, <2>6, <3>1, ChannelDone DEF t
  <2>7. CASE /\ pdu \in Sms
             /\ t = SubmitDelete([h EXCEPT !.reader = rd]) /\ rd \in Readers /\ rd.state = "None"
    <3>. DEFINE h1 == [h EXCEPT !.reader = rd]
    <3>1. h1 \in States /\ h1.waiting = s.waiting /\ h1.reader = rd
      BY <2>4, <2>7, WithReader
    <3>. HIDE DEF h1, rd
    <3>2. Channel(h1.waiting, NoCommand, h1.reader)
      BY <1>0, <1>1, <2>7, <3>1, ChannelDone
    <3>3. t \in States /\ Channel(t.waiting, NoCommand, t.reader)
      BY <2>7, <3>1, <3>2, SubmitDeleteEffect, SubmitDeleteChannel DEF h1, rd
    <3>. QED  BY <3>3 DEF t
  <2>. HIDE DEF rd
  <2>. QED  BY <2>1, <2>2, <2>5, <2>6, <2>7, ReadResultEffect DEF t, h, o, room, rd
<1>2. CASE c.op = "delete"
  <2>1. t = [s EXCEPT !.reader = CompleteDelete(@, result)]
    BY <1>2 DEF Callback
  <2>2. s.reader.state = "Deleting"
    <3>1. s.reader.state # "None" /\ c = CommandOf(s.reader)
      BY <1>2 DEF Channel
    <3>2. s.reader.state \in {"None", "Reading", "Deleting"}
      BY <1>0 DEF Readers
    <3>. QED  BY <1>2, <3>1, <3>2, CommandFacts
  <2>3. ClearActive(s.reader).state = "None" /\ ClearActive(s.reader) \in Readers
    BY <1>0, ClearActiveTyped, ReaderFields DEF ClearActive, ReaderRecord
  <2>4. t \in States /\ t.waiting = s.waiting /\ t.reader = ClearActive(s.reader)
    BY <2>1, <2>2, <2>3, WithReader DEF CompleteDelete
  <2>. HIDE DEF t
  <2>. QED  BY <1>0, <1>2, <2>3, <2>4, ChannelDone DEF t
<1>3. CASE c.op = "other"
  <2>1. t = s
    BY <1>3 DEF Callback
  <2>. QED  BY <1>0, <1>3, <2>1, ChannelDone, ZenonT(40)
<1>. QED  BY <1>1, <1>2, <1>3, CommandFacts

-----------------------------------------------------------------------------
(* The invariant of types and of the channel: any circumstances. *)

\* modemAtPoll() has started a command if there was one to start.
Started ==
  pc = "sms" /\ current = NoCommand => \A k \in DOMAIN waiting : waiting[k] = Other(Console)

ChannelInv == Types /\ Channel(waiting, current, reader) /\ Started

\* The fields of the record that the variables make up,
LEMMA StateIs ==
  /\ State.waiting = waiting /\ State.receiver = receiver /\ State.reader = reader
  /\ State.queue = queue /\ State.queued = queued
BY DEF State

\* and after a step.
LEMMA StateIsNext ==
  /\ State'.waiting = waiting' /\ State'.receiver = receiver' /\ State'.reader = reader'
  /\ State'.queue = queue' /\ State'.queued = queued'
BY DEF State

\* The channel begins in step with the reader.
LEMMA InitChannel == Init => ChannelInv
<1>. SUFFICES ASSUME Init PROVE ChannelInv
  OBVIOUS
<1>1. waiting \in Seq(Command) /\ Len(waiting) = 0 /\ queue \in Seq(Items) /\ Len(queue) = 0
  BY DEF Init
<1>2. receiver \in Receivers
  BY DEF Init, ReceiverBegin, Receivers
<1>3. reader \in Readers
  BY ReaderConstants, BeginsTyped DEF Init
<1>4. queued \in [Sms -> Nat]
  BY DEF Init
<1>5. State \in StateRecord
  BY <1>1, <1>2, <1>3, <1>4 DEF State, StateRecord
<1>6. State \in States
  BY <1>1, <1>5, StateIs, ConstantsTyped
     DEF States, Assumptions, StoredSmsAssumption, SmsQueueCoreAssumption
<1>7. Types
  <2>1. uart \in Seq(Lines) /\ pending \in Seq(Command)
    BY DEF Init
  <2>2. sim \in [Indices -> Sms \cup {NoSms}]
    BY DEF Init
  <2>3. /\ current \in Command \cup {NoCommand} /\ response \in Sms \cup {NoSms}
        /\ awaitingCmtPdu \in BOOLEAN /\ executed \in BOOLEAN
        /\ pc \in {"drain", "sms", "clients"} /\ arrived \in SUBSET Sms
    BY DEF Init
  <2>. QED  BY <1>6, <2>1, <2>2, <2>3 DEF Types
<1>8. reader.state = "None" /\ DOMAIN waiting = {}
  BY DEF Init, ReaderBegin
<1>9. Channel(waiting, current, reader)
  BY <1>8, CommandFacts DEF Channel, Distinct, Init
<1>. QED  BY <1>7, <1>8, <1>9 DEF ChannelInv, Started

\* An unsolicited line leaves the reader's state and the ring alone.
LEMMA OnUrcEffect ==
  ASSUME NEW s \in States, NEW line \in Lines
  PROVE  LET t == OnUrc(s, line)
         IN  /\ t \in States /\ t.waiting = s.waiting
             /\ t.reader = IF ~s.receiver.awaitingPdu /\ line.kind = "CMTI"
                           THEN EnqueueRead(s.reader, line.of) ELSE s.reader
             /\ \/ /\ s.receiver.awaitingPdu /\ line.kind \in {"PDU", "DATA"}
                   /\ t = Handed(s, line.of)
                \/ /\ ~(s.receiver.awaitingPdu /\ line.kind \in {"PDU", "DATA"})
                   /\ t.receiver.slots = s.receiver.slots
                   /\ t.receiver.awaitingPdu <=> ~s.receiver.awaitingPdu /\ line.kind = "CMT"
                   /\ t.queued = s.queued
<1>. DEFINE t == OnUrc(s, line)
            r == s.receiver
<1>1. r \in Receivers /\ s.reader \in Readers
  BY StateFields
<1>2. r.awaitingPdu \in BOOLEAN
  BY <1>1 DEF Receivers
<1>3. CASE r.awaitingPdu /\ line.kind \in {"PDU", "DATA"}
  <2>1. t = Handed(s, line.of)
    BY <1>3 DEF OnUrc, Handed
  <2>. QED  BY <1>3, <2>1, LineFields, HandedEffect, ZenonT(40)
<1>4. CASE r.awaitingPdu /\ line.kind \notin {"PDU", "DATA"}
  <2>1. t = [s EXCEPT !.receiver = [r EXCEPT !.awaitingPdu = FALSE]]
    BY <1>4 DEF OnUrc
  <2>. DEFINE r1 == [r EXCEPT !.awaitingPdu = FALSE]
  <2>2. r1 \in Receivers /\ r1.slots = r.slots /\ ~r1.awaitingPdu
    BY <1>1 DEF Receivers
  <2>. HIDE DEF t, r1
  <2>3. /\ t \in States /\ t.receiver = r1 /\ t.waiting = s.waiting /\ t.reader = s.reader
        /\ t.queued = s.queued
    BY <2>1, <2>2, WithReceiver DEF r1
  <2>. QED  BY <1>4, <2>2, <2>3 DEF t
<1>5. CASE ~r.awaitingPdu /\ line.kind = "CMT"
  <2>1. t = [s EXCEPT !.receiver = [r EXCEPT !.awaitingPdu = TRUE]]
    BY <1>5 DEF OnUrc
  <2>. DEFINE r1 == [r EXCEPT !.awaitingPdu = TRUE]
  <2>2. r1 \in Receivers /\ r1.slots = r.slots /\ r1.awaitingPdu
    BY <1>1 DEF Receivers
  <2>. HIDE DEF t, r1
  <2>3. /\ t \in States /\ t.receiver = r1 /\ t.waiting = s.waiting /\ t.reader = s.reader
        /\ t.queued = s.queued
    BY <2>1, <2>2, WithReceiver DEF r1
  <2>. QED  BY <1>5, <2>2, <2>3 DEF t
<1>6. CASE ~r.awaitingPdu /\ line.kind = "CMTI"
  <2>1. t = [s EXCEPT !.reader = EnqueueRead(s.reader, line.of)]
    BY <1>6 DEF OnUrc
  <2>2. EnqueueRead(s.reader, line.of) \in Readers
    BY <1>1, <1>6, LineFields, ReaderConstants, EnqueueReadEffect
  <2>. HIDE DEF t
  <2>3. /\ t \in States /\ t.reader = EnqueueRead(s.reader, line.of) /\ t.waiting = s.waiting
        /\ t.receiver = r /\ t.queued = s.queued
    BY <2>1, <2>2, WithReader
  <2>. QED  BY <1>6, <2>3 DEF t
<1>7. CASE ~r.awaitingPdu /\ line.kind \notin {"CMT", "CMTI"}
  <2>1. t = s
    BY <1>7 DEF OnUrc
  <2>. QED  BY <1>7, <2>1
<1>. QED  BY <1>2, <1>3, <1>4, <1>5, <1>6, <1>7

\* The parts of Types that the handlers do not touch.
ModemTypes ==
  /\ uart \in Seq(Lines) /\ pending \in Seq(Command) /\ executed \in BOOLEAN
  /\ sim \in [Indices -> Sms \cup {NoSms}] /\ arrived \in SUBSET Sms

OwnTypes ==
  /\ current \in Command \cup {NoCommand} /\ response \in Sms \cup {NoSms}
  /\ awaitingCmtPdu \in BOOLEAN /\ pc \in {"drain", "sms", "clients"}

\* The types, by whom they belong to,
LEMMA TypesAre == Types <=> State \in States /\ OwnTypes /\ ModemTypes
BY DEF Types, OwnTypes, ModemTypes

\* and after a step.
LEMMA TypesAreNext == Types' <=> State' \in States /\ OwnTypes' /\ ModemTypes'
BY DEF Types, OwnTypes, ModemTypes

\* A line that is read keeps the channel in step with the reader.
LEMMA ReadLineChannel == ChannelInv /\ ReadLine => ChannelInv'
<1>. SUFFICES ASSUME ChannelInv, ReadLine PROVE ChannelInv'
  OBVIOUS
<1>. DEFINE line == Head(uart)
<1>1. State \in States /\ OwnTypes /\ ModemTypes /\ Channel(waiting, current, reader)
  BY TypesAre DEF ChannelInv
<1>2. line \in Lines /\ Tail(uart) \in Seq(Lines)
  BY <1>1 DEF ModemTypes, ReadLine
<1>3. pc' = pc /\ pc = "drain" /\ ModemTypes'
  BY <1>1, <1>2 DEF ReadLine, ModemTypes, modemVars
<1>4. CASE ReadUrc(line)
  <2>1. /\ OnUrc(State, line) \in States
        /\ OnUrc(State, line).waiting = waiting
        /\ OnUrc(State, line).reader.state = reader.state
        /\ OnUrc(State, line).reader.active = reader.active
    <3>1. reader \in Readers
      BY <1>1, StateFields, StateIs
    <3>. DEFINE t == OnUrc(State, line)
    <3>2. /\ t \in States /\ t.waiting = waiting
          /\ t.reader = reader \/ (line.kind = "CMTI" /\ t.reader = EnqueueRead(reader, line.of))
      BY <1>1, <1>2, OnUrcEffect, StateIs
    <3>. HIDE DEF t
    <3>3. CASE line.kind = "CMTI" /\ t.reader = EnqueueRead(reader, line.of)
      BY <1>2, <3>1, <3>2, <3>3, LineFields, ReaderConstants, EnqueueReadEffect DEF t
    <3>. QED  BY <3>2, <3>3 DEF t
  <2>2. State' = OnUrc(State, line) /\ current' = current /\ response' = response
        /\ awaitingCmtPdu' \in BOOLEAN
    BY <1>4, <2>1, BecomesState DEF ReadUrc
  <2>3. State' \in States /\ waiting' = waiting /\ reader'.state = reader.state
        /\ reader'.active = reader.active
    BY <2>1, <2>2, StateIsNext
  <2>4. Channel(waiting', current', reader')
    BY <1>1, <2>2, <2>3 DEF Channel, CommandOf
  <2>5. OwnTypes'
    BY <1>1, <1>3, <2>2 DEF OwnTypes
  <2>. QED  BY <1>3, <2>3, <2>4, <2>5, TypesAreNext DEF ChannelInv, Started
<1>5. CASE ReadData(line)
  <2>1. State' = State /\ waiting' = waiting /\ reader' = reader /\ current' = current
    BY <1>5 DEF ReadData, State
  <2>2. OwnTypes'
    BY <1>1, <1>2, <1>3, <1>5, LineFields DEF OwnTypes, ReadData
  <2>. QED  BY <1>1, <1>3, <2>1, <2>2, TypesAreNext DEF ChannelInv, Started
<1>6. CASE ReadFinal(line)
  <2>. DEFINE t == Callback(State, current, IF line.kind = "OK" THEN "Ok" ELSE "Error", response)
  <2>1. current \in Command /\ response \in Sms \cup {NoSms}
    BY <1>1, <1>6 DEF OwnTypes, ReadFinal
  <2>2. t \in States /\ Channel(t.waiting, NoCommand, t.reader)
    BY <1>1, <2>1, CallbackChannel, StateIs
  <2>3. State' = t /\ current' = NoCommand /\ OwnTypes'
    BY <1>1, <1>3, <1>6, <2>2, BecomesState DEF ReadFinal, OwnTypes
  <2>. HIDE DEF t
  <2>4. Channel(waiting', current', reader')
    BY <2>2, <2>3, StateIsNext
  <2>. QED  BY <1>3, <2>2, <2>3, <2>4, TypesAreNext DEF ChannelInv, Started
<1>. QED  BY <1>4, <1>5, <1>6 DEF ReadLine

\* The oldest command is written.
LEMMA ChannelStarts ==
  ASSUME NEW w \in Seq(Command), w # <<>>, NEW rd, Channel(w, NoCommand, rd)
  PROVE  Channel(Tail(w), Head(w), rd)
<1>. DEFINE v == Tail(w)
            n == Len(w)
            h == Head(w)
<1>1. /\ n \in Nat \ {0} /\ h = w[1]
      /\ DOMAIN w = 1 .. n /\ DOMAIN v = 1 .. n - 1
      /\ \A k \in 1 .. n - 1 : v[k] = w[k + 1]
  OBVIOUS
<1>2. Distinct(v) /\ h \notin ToSet(v)
  BY HeadAndTail DEF Channel
<1>. HIDE DEF v, n, h
<1>3. \A k \in DOMAIN v : v[k] # h
  BY <1>2 DEF ToSet
<1>4. \A k \in DOMAIN v : \E j \in DOMAIN w : v[k] = w[j]
  <2>. SUFFICES ASSUME NEW k \in 1 .. n - 1 PROVE \E j \in DOMAIN w : v[k] = w[j]
    BY <1>1
  <2>1. k + 1 \in DOMAIN w
    BY <1>1
  <2>2. v[k] = w[k + 1]
    BY <1>1
  <2>. QED  BY <2>1, <2>2
<1>5. \A k \in DOMAIN v : v[k].op # "other" => rd.state # "None" /\ v[k] = CommandOf(rd)
  BY <1>4 DEF Channel
<1>6. h.op \in {"read", "delete"} => rd.state # "None" /\ h = CommandOf(rd)
  BY <1>1 DEF Channel
<1>7. rd.state # "None" => h = CommandOf(rd) \/ \E k \in DOMAIN v : v[k] = CommandOf(rd)
  <2>. SUFFICES ASSUME rd.state # "None", h # CommandOf(rd)
                PROVE  \E k \in DOMAIN v : v[k] = CommandOf(rd)
    OBVIOUS
  <2>1. NoCommand # CommandOf(rd)
    BY CommandFacts
  <2>2. PICK k \in 1 .. n : w[k] = CommandOf(rd)
    BY <1>1, <2>1 DEF Channel
  <2>3. k # 1 /\ k - 1 \in 1 .. n - 1 /\ (k - 1) + 1 = k
    BY <1>1, <2>2
  <2>. QED  BY <1>1, <2>2, <2>3
<1>. QED  BY <1>2, <1>3, <1>5, <1>6, <1>7 DEF Channel, v, h

\* So does a poll of the AT channel,
LEMMA PollChannel ==
  ASSUME ChannelInv, NEW timeout \in BOOLEAN, Poll(timeout)
  PROVE  ChannelInv'
<1>. DEFINE s == IF timeout THEN Callback(State, current, "Timeout", NoSms) ELSE State
            starts == (timeout \/ current = NoCommand) /\ s.waiting # <<>>
<1>1. State \in States /\ OwnTypes /\ ModemTypes /\ Channel(waiting, current, reader)
  BY TypesAre DEF ChannelInv
<1>2. s \in States /\ (timeout \/ current = NoCommand => Channel(s.waiting, NoCommand, s.reader))
      /\ (~timeout => s = State)
  <2>1. CASE timeout
    <3>1. current \in Command
      BY <1>1, <2>1 DEF OwnTypes, Poll, MayTimeOut
    <3>. QED  BY <1>1, <2>1, <3>1, CallbackChannel, StateIs
  <2>2. CASE ~timeout
    BY <1>1, <2>2, StateIs
  <2>. QED  BY <2>1, <2>2
<1>3. /\ IF starts
         THEN /\ Becomes([s EXCEPT !.waiting = Tail(@)])
              /\ current' = Head(s.waiting)
              /\ response' = NoSms
              /\ pending' = Append(pending, Head(s.waiting))
         ELSE /\ Becomes(s)
              /\ current' = IF timeout THEN NoCommand ELSE current
              /\ response' = IF timeout THEN NoSms ELSE response
              /\ pending' = pending
      /\ awaitingCmtPdu' = awaitingCmtPdu /\ pc' = "sms"
      /\ uart' = uart /\ executed' = executed /\ sim' = sim /\ arrived' = arrived
  BY DEF Poll
<1>. HIDE DEF s
<1>4. CASE starts
  <2>. DEFINE t == [s EXCEPT !.waiting = Tail(@)]
              w == s.waiting
  <2>1. w \in Seq(Command) /\ w # <<>> /\ Len(w) <= AtCapacity /\ AtCapacity \in Nat
    BY <1>2, <1>4, StateFields
  <2>2. Head(w) \in Command /\ Tail(w) \in Seq(Command) /\ Len(Tail(w)) <= AtCapacity
    BY <2>1
  <2>3. t \in States /\ t.waiting = Tail(w) /\ t.reader = s.reader
    <3>1. t \in StateRecord /\ t.waiting = Tail(w) /\ t.reader = s.reader /\ t.queue = s.queue
      BY <1>2, <2>2 DEF States, StateRecord
    <3>2. Len(s.queue) <= Capacity
      BY <1>2, StateFields
    <3>. HIDE DEF t
    <3>. QED  BY <2>2, <3>1, <3>2 DEF States
  <2>4. Channel(Tail(w), Head(w), s.reader)
    BY <1>2, <1>4, <2>1, ChannelStarts
  <2>. HIDE DEF t
  <2>5. State' = t /\ current' = Head(w)
    BY <1>3, <1>4, <2>3, BecomesState DEF t
  <2>6. Channel(waiting', current', reader')
    BY <2>3, <2>4, <2>5, StateIsNext
  <2>7. OwnTypes'
    BY <1>1, <1>3, <1>4, <2>2 DEF OwnTypes
  <2>8. ModemTypes'
    <3>1. pending' \in Seq(Command)
      BY <1>1, <1>3, <1>4, <2>2 DEF ModemTypes
    <3>. QED  BY <1>1, <1>3, <3>1 DEF ModemTypes
  <2>9. current' # NoCommand
    BY <2>2, <2>5, CommandFacts
  <2>. QED  BY <2>3, <2>5, <2>6, <2>7, <2>8, <2>9, TypesAreNext DEF ChannelInv, Started
<1>5. CASE ~starts
  <2>1. State' = s
    BY <1>2, <1>3, <1>5, BecomesState
  <2>2. current' = IF timeout THEN NoCommand ELSE current
    BY <1>3, <1>5
  <2>3. Channel(waiting', current', reader')
    BY <1>1, <1>2, <2>1, <2>2, StateIs, StateIsNext
  <2>4. OwnTypes' /\ ModemTypes'
    BY <1>1, <1>3, <1>5 DEF OwnTypes, ModemTypes
  <2>5. current' = NoCommand => waiting' = <<>>
    BY <1>5, <2>1, <2>2, StateIsNext
  <2>. QED  BY <1>2, <2>1, <2>3, <2>4, <2>5, TypesAreNext DEF ChannelInv, Started
<1>. QED  BY <1>4, <1>5

\* The tasks of a turn that work on messages.
LEMMA SmsTasksSteps ==
  ASSUME Types, NEW due, NEW pduTimeout \in BOOLEAN, SmsTasks(due, pduTimeout)
  PROVE  LET s1 == IF pduTimeout THEN [State EXCEPT !.receiver = PduTimeout(@)] ELSE State
             s2 == TimeOutSlots(s1, due)
         IN  /\ due \in SUBSET ConcatSlots => s2 \in States /\ State' = SubmitRead(SubmitDelete(s2))
             /\ s1 \in States /\ s1.waiting = waiting /\ s1.reader = reader
             /\ s1.queue = queue /\ s1.queued = queued
             /\ s1.receiver.slots = receiver.slots
             /\ s1.receiver.awaitingPdu <=> receiver.awaitingPdu /\ ~pduTimeout
<1>. DEFINE s1 == IF pduTimeout THEN [State EXCEPT !.receiver = PduTimeout(@)] ELSE State
            s2 == TimeOutSlots(s1, due)
            r  == PduTimeout(receiver)
<1>1. State \in States /\ receiver \in Receivers
  BY TypesAre, StateFields, StateIs
<1>2. r \in Receivers /\ ~r.awaitingPdu /\ r.slots = receiver.slots
  BY <1>1 DEF Receivers, PduTimeout
<1>3. /\ s1 \in States /\ s1.waiting = waiting /\ s1.reader = reader
      /\ s1.queue = queue /\ s1.queued = queued
      /\ s1.receiver.slots = receiver.slots
      /\ s1.receiver.awaitingPdu <=> receiver.awaitingPdu /\ ~pduTimeout
  <2>1. CASE pduTimeout
    <3>1. s1 = [State EXCEPT !.receiver = r]
      BY <2>1, StateIs
    <3>. HIDE DEF s1, r
    <3>2. s1 \in States /\ s1.waiting = waiting /\ s1.reader = reader
          /\ s1.queue = queue /\ s1.queued = queued /\ s1.receiver = r
      BY <1>1, <1>2, <3>1, WithReceiver, StateIs
    <3>. QED  BY <1>2, <2>1, <3>2
  <2>2. CASE ~pduTimeout
    BY <1>1, <2>2, StateIs
  <2>. QED  BY <2>1, <2>2
<1>. HIDE DEF s1
<1>4. ASSUME due \in SUBSET ConcatSlots PROVE s2 \in States /\ State' = SubmitRead(SubmitDelete(s2))
  <2>1. s2 \in States
    BY <1>3, <1>4, TimeOutSlotsEffect
  <2>2. Becomes(SubmitRead(SubmitDelete(s2)))
    BY DEF SmsTasks, s1
  <2>. HIDE DEF s2
  <2>3. SubmitRead(SubmitDelete(s2)) \in States
    BY <2>1, SubmitDeleteEffect, SubmitReadEffect
  <2>. QED  BY <2>1, <2>2, <2>3, BecomesState
<1>. QED  BY <1>3, <1>4 DEF s1

\* the polls of the receiver and of the reader,
LEMMA SmsTasksChannel ==
  ASSUME ChannelInv, NEW due \in SUBSET ConcatSlots, NEW pduTimeout \in BOOLEAN,
         SmsTasks(due, pduTimeout)
  PROVE  ChannelInv'
<1>. DEFINE s1 == IF pduTimeout THEN [State EXCEPT !.receiver = PduTimeout(@)] ELSE State
            s2 == TimeOutSlots(s1, due)
            s3 == SubmitDelete(s2)
            s4 == SubmitRead(s3)
<1>1. State \in States /\ OwnTypes /\ ModemTypes /\ Channel(waiting, current, reader) /\ Types
  BY TypesAre DEF ChannelInv
<1>2. /\ s1 \in States /\ s1.waiting = waiting /\ s1.reader = reader
      /\ s2 \in States /\ State' = s4
  BY <1>1, SmsTasksSteps
<1>. HIDE DEF s1
<1>3. s2.waiting = waiting /\ s2.reader = reader
  BY <1>2, TimeOutSlotsEffect
<1>. HIDE DEF s2
<1>4. s3 \in States /\ Channel(s3.waiting, current, s3.reader)
  BY <1>1, <1>2, <1>3, SubmitDeleteEffect, SubmitDeleteChannel
<1>. HIDE DEF s3
<1>5. s4 \in States /\ Channel(s4.waiting, current, s4.reader)
  BY <1>4, SubmitReadEffect, SubmitReadChannel
<1>. HIDE DEF s4
<1>6. current' = current /\ pc' = "clients" /\ OwnTypes' /\ ModemTypes'
  BY <1>1 DEF SmsTasks, OwnTypes, ModemTypes, modemVars
<1>7. Channel(waiting', current', reader')
  BY <1>2, <1>5, <1>6, StateIsNext
<1>. QED  BY <1>2, <1>5, <1>6, <1>7, TypesAreNext DEF ChannelInv, Started

\* Another client's command is one the ring did not hold.
LEMMA ClientSubmitsChannel ==
  ASSUME ChannelInv, NEW c \in Clients, ClientSubmits(c)
  PROVE  ChannelInv'
<1>. DEFINE m == Other(c)
            a == Append(waiting, m)
            n == Len(waiting)
<1>1. State \in States /\ OwnTypes /\ ModemTypes /\ Channel(waiting, current, reader)
      /\ waiting \in Seq(Command) /\ reader \in Readers
  BY TypesAre, StateFields, StateIs DEF ChannelInv
<1>2. m \in Command /\ m.op = "other"
  BY CommandFacts DEF Command
<1>3. \A k \in DOMAIN waiting : waiting[k] # m
  BY DEF ClientSubmits, InFlight
<1>4. current # m
  BY <1>2, CommandFacts DEF ClientSubmits, InFlight
<1>5. waiting' = a /\ reader' = reader
      /\ UNCHANGED <<receiver, queue, queued>>
  BY DEF ClientSubmits, history
<1>6. State' \in States
  <2>. DEFINE t == [State EXCEPT !.reader = reader, !.waiting = Append(@, m)]
  <2>1. Accepts(State) /\ reader \in Readers
    BY <1>1 DEF ClientSubmits
  <2>. HIDE DEF m
  <2>1a. State \in States /\ m \in Command
    BY <1>1, <1>2
  <2>2. /\ t \in States
        /\ t.reader = reader /\ t.waiting = Append(State.waiting, m) /\ t.receiver = State.receiver
        /\ t.queue = State.queue /\ t.queued = State.queued
    BY <2>1, <2>1a, WithCommand, ZenonT(40)
  <2>. HIDE DEF t
  <2>3. Becomes(t)
    BY <1>5, <2>2, StateIs DEF Becomes
  <2>. QED  BY <2>2, <2>3, BecomesState
<1>7. /\ n \in Nat /\ DOMAIN waiting = 1 .. n /\ DOMAIN a = 1 .. n + 1
      /\ \A k \in 1 .. n : a[k] = waiting[k]
      /\ a[n + 1] = m
  BY <1>1
<1>. HIDE DEF m, a, n
<1>8. \A k \in 1 .. n + 1 : k \in 1 .. n \/ k = n + 1
  BY <1>7
<1>9. current' = current /\ OwnTypes' /\ ModemTypes' /\ pc' = pc
  BY <1>1 DEF ClientSubmits, OwnTypes, ModemTypes, modemVars
<1>10. Channel(a, current, reader)
  <2>1. Distinct(a)
    BY <1>1, <1>3, <1>7, <1>8 DEF Channel, Distinct
  <2>2. \A k \in DOMAIN a : a[k] # current
    BY <1>1, <1>4, <1>7, <1>8 DEF Channel
  <2>3. \A k \in DOMAIN a : a[k].op # "other" => reader.state # "None" /\ a[k] = CommandOf(reader)
    BY <1>1, <1>2, <1>7, <1>8 DEF Channel
  <2>4. reader.state # "None" =>
          current = CommandOf(reader) \/ \E k \in DOMAIN a : a[k] = CommandOf(reader)
    BY <1>1, <1>7, <1>8 DEF Channel
  <2>. QED  BY <1>1, <2>1, <2>2, <2>3, <2>4 DEF Channel
<1>11. Started'
  <2>1. pc = "sms" => m = Other(Console)
    BY DEF ClientSubmits, m
  <2>. QED  BY <1>5, <1>7, <1>8, <1>9, <2>1 DEF ChannelInv, Started
<1>. QED  BY <1>5, <1>6, <1>9, <1>10, <1>11, TypesAreNext DEF ChannelInv

\* An item leaves the queue of the forwarder.
LEMMA ForwardChannel ==
  ASSUME ChannelInv, NEW i \in DOMAIN queue, Forward(i)
  PROVE  ChannelInv'
<1>. DEFINE q == MarkSent(queue, i)
<1>1. State \in States /\ OwnTypes /\ ModemTypes /\ Channel(waiting, current, reader)
  BY TypesAre DEF ChannelInv
<1>2. queue \in Seq(Items) /\ Len(queue) \in Nat /\ Len(queue) <= Capacity /\ Capacity \in Nat
  BY <1>1, StateFields, StateIs
<1>3. q \in Seq(Items) /\ Len(q) = Len(queue) - 1
  <2>. DEFINE n == Len(queue)
  <2>1. n \in Nat \ {0} /\ i \in 1 .. n /\ \A k \in 1 .. n : queue[k] \in Items
    BY <1>2
  <2>2. q = [j \in 1 .. n - 1 |-> IF j < i THEN queue[j] ELSE queue[j + 1]]
    BY DEF MarkSent
  <2>. HIDE DEF q, n
  <2>3. \A j \in 1 .. n - 1 : (IF j < i THEN queue[j] ELSE queue[j + 1]) \in Items
    BY <2>1
  <2>4. q \in [1 .. n - 1 -> Items] /\ n - 1 \in Nat
    BY <2>1, <2>2, <2>3
  <2>. QED  BY <2>4 DEF n
<1>4. State' = [State EXCEPT !.queue = q]
  BY DEF Forward, State, channelVars, history
<1>. HIDE DEF q
<1>5. State' \in States
  <2>1. State' \in StateRecord
    BY <1>1, <1>3, <1>4 DEF States, StateRecord
  <2>2. State'.queue = q /\ State'.waiting = State.waiting
    BY <1>1, <1>4 DEF States, StateRecord
  <2>3. Len(State.waiting) <= AtCapacity
    BY <1>1 DEF States
  <2>4. Len(q) <= Capacity
    BY <1>2, <1>3
  <2>. QED  BY <2>1, <2>2, <2>3, <2>4 DEF States
<1>6. /\ current' = current /\ waiting' = waiting /\ reader' = reader /\ pc' = pc
      /\ OwnTypes' /\ ModemTypes'
  BY <1>1 DEF Forward, OwnTypes, ModemTypes, modemVars, channelVars
<1>. QED  BY <1>1, <1>5, <1>6, TypesAreNext DEF ChannelInv, Started

\* the end of a turn of loop(),
LEMMA TurnEndsChannel == ChannelInv /\ TurnEnds => ChannelInv'
<1>. SUFFICES ASSUME ChannelInv, TurnEnds PROVE ChannelInv'
  OBVIOUS
<1>1. State \in States /\ OwnTypes /\ ModemTypes /\ Channel(waiting, current, reader)
  BY TypesAre DEF ChannelInv
<1>2. State' = State /\ waiting' = waiting /\ current' = current /\ reader' = reader
      /\ pc' = "drain" /\ OwnTypes' /\ ModemTypes'
  BY <1>1 DEF TurnEnds, State, channelVars, modemVars, history, OwnTypes, ModemTypes
<1>. QED  BY <1>1, <1>2, TypesAreNext DEF ChannelInv, Started

\* and a restart.
LEMMA RestartChannel == ChannelInv /\ Restart => ChannelInv'
<1>. SUFFICES ASSUME ChannelInv, Restart PROVE ChannelInv'
  OBVIOUS
<1>1. State \in States /\ OwnTypes /\ ModemTypes /\ Channel(waiting, current, reader)
  BY TypesAre DEF ChannelInv
<1>2. waiting' \in Seq(Command) /\ Len(waiting') = 0 /\ queue' \in Seq(Items) /\ Len(queue') = 0
  BY DEF Restart
<1>3. receiver' \in Receivers
  BY DEF Restart, ReceiverBegin, Receivers
<1>4. reader' \in Readers
  BY ReaderConstants, BeginsTyped DEF Restart
<1>5. queued' \in [Sms -> Nat]
  BY <1>1, StateFields, StateIs DEF Restart
<1>6. State' \in StateRecord
  BY <1>2, <1>3, <1>4, <1>5 DEF State, StateRecord
<1>7. State' \in States
  BY <1>2, <1>6, StateIsNext, ConstantsTyped
     DEF States, Assumptions, StoredSmsAssumption, SmsQueueCoreAssumption
<1>8. OwnTypes'
  BY DEF OwnTypes, Restart
<1>9. ModemTypes'
  <2>1. pending' = <<>> \/ pending' = pending
    BY DEF Restart
  <2>1a. pending' \in Seq(Command)
    <3>1. pending \in Seq(Command) /\ <<>> \in Seq(Command)
      BY <1>1 DEF ModemTypes
    <3>. QED  BY <2>1, <3>1
  <2>2. executed' \in BOOLEAN
    BY <1>1 DEF Restart, ModemTypes
  <2>. QED  BY <1>1, <2>1a, <2>2 DEF Restart, ModemTypes
<1>10. reader'.state = "None" /\ DOMAIN waiting' = {} /\ current' = NoCommand
  BY DEF Restart, ReaderBegin
<1>11. Channel(waiting', current', reader')
  BY <1>10, CommandFacts DEF Channel, Distinct
<1>. QED  BY <1>7, <1>8, <1>9, <1>10, <1>11, TypesAreNext DEF ChannelInv, Started

\* The modem leaves the firmware's state alone.
LEMMA ModemChannel ==
  ASSUME ChannelInv, ModemTypes', UNCHANGED <<channelVars, receiver, reader, queue, pc, queued>>
  PROVE  ChannelInv'
<1>1. State \in States /\ OwnTypes /\ ModemTypes /\ Channel(waiting, current, reader)
  BY TypesAre DEF ChannelInv
<1>2. State' = State /\ waiting' = waiting /\ current' = current /\ reader' = reader
      /\ pc' = pc /\ OwnTypes'
  BY <1>1 DEF State, channelVars, OwnTypes
<1>. QED  BY <1>1, <1>2, TypesAreNext DEF ChannelInv, Started

\* The modem keeps the types of what is its own.
LEMMA ModemStepTypes ==
  ASSUME ModemTypes, Modem \/ \E s \in Sms : NetworkDelivers(s)
  PROVE  ModemTypes' /\ UNCHANGED <<channelVars, receiver, reader, queue, pc, queued>>
<1>0. uart \in Seq(Lines) /\ pending \in Seq(Command) /\ sim \in [Indices -> Sms \cup {NoSms}]
  BY DEF ModemTypes
<1>1. CASE ModemDeletes
  <2>1. sim' \in [Indices -> Sms \cup {NoSms}]
    BY <1>0, <1>1 DEF ModemDeletes
  <2>. QED  BY <1>0, <1>1, <2>1 DEF ModemDeletes, ModemTypes, history
<1>2. CASE ModemReplies
  <2>. DEFINE c == Head(pending)
  <2>1. pending # <<>> /\ c \in Command /\ Tail(pending) \in Seq(Command)
    BY <1>0, <1>2 DEF ModemReplies
  <2>2. /\ uart' = IF c.op = "read" /\ sim[c.arg] # NoSms
                   THEN uart \o <<L("DATA", sim[c.arg]), L("OK", NoIndex)>>
                   ELSE Append(uart, L("OK", NoIndex))
        /\ pending' = Tail(pending) /\ executed' = FALSE
        /\ sim' = sim /\ arrived' = arrived
        /\ UNCHANGED <<channelVars, receiver, reader, queue, pc, queued>>
    BY <1>2 DEF ModemReplies, history
  <2>3. L("OK", NoIndex) \in Lines
    BY DEF Lines
  <2>4. uart' \in Seq(Lines)
    <3>1. CASE c.op = "read" /\ sim[c.arg] # NoSms
      <4>1. sim[c.arg] \in Sms
        BY <1>0, <2>1, <3>1, CommandFacts
      <4>2. L("DATA", sim[c.arg]) \in Lines
        BY <4>1 DEF Lines
      <4>. DEFINE d == L("DATA", sim[c.arg])
                  e == L("OK", NoIndex)
      <4>. HIDE DEF d, e
      <4>3. <<d, e>> \in Seq(Lines)
        BY <2>3, <4>2 DEF d, e
      <4>. QED  BY <1>0, <2>2, <3>1, <4>3 DEF d, e
    <3>2. CASE ~(c.op = "read" /\ sim[c.arg] # NoSms)
      BY <1>0, <2>2, <2>3, <3>2
    <3>. QED  BY <3>1, <3>2
  <2>. QED  BY <1>0, <2>1, <2>2, <2>4 DEF ModemTypes
<1>3. CASE ModemFails
  <2>1. pending # <<>> /\ Tail(pending) \in Seq(Command)
    BY <1>0, <1>3 DEF ModemFails
  <2>2. L("ERROR", NoIndex) \in Lines
    BY DEF Lines
  <2>3. uart' = uart \/ uart' = Append(uart, L("ERROR", NoIndex))
    BY <1>3 DEF ModemFails
  <2>4. uart' \in Seq(Lines)
    BY <1>0, <2>2, <2>3
  <2>. QED  BY <1>0, <1>3, <2>1, <2>4 DEF ModemFails, ModemTypes, history
<1>4. ASSUME NEW s \in Sms, NetworkDelivers(s)
      PROVE  ModemTypes' /\ UNCHANGED <<channelVars, receiver, reader, queue, pc, queued>>
  <2>1. arrived' \in SUBSET Sms
    BY <1>4 DEF NetworkDelivers, ModemTypes
  <2>2. CASE s \in Direct
    <3>. DEFINE d == L("CMT", NoIndex)
                e == L("PDU", s)
    <3>1. d \in Lines /\ e \in Lines
      BY DEF Lines
    <3>2. uart' = uart \o <<d, e>> /\ sim' = sim
      BY <1>4, <2>2 DEF NetworkDelivers
    <3>. HIDE DEF d, e
    <3>3. uart' \in Seq(Lines)
      <4>1. <<d, e>> \in Seq(Lines)
        BY <3>1
      <4>. QED  BY <1>0, <3>2, <4>1
    <3>. QED  BY <1>0, <1>4, <2>1, <3>2, <3>3 DEF NetworkDelivers, ModemTypes, history
  <2>3. CASE s \notin Direct
    <3>1. PICK i \in Indices : sim' = [sim EXCEPT ![i] = s] /\ uart' = Append(uart, L("CMTI", i))
      BY <1>4, <2>3 DEF NetworkDelivers
    <3>2. L("CMTI", i) \in Lines
      BY DEF Lines
    <3>3. uart' \in Seq(Lines) /\ sim' \in [Indices -> Sms \cup {NoSms}]
      BY <1>0, <3>1, <3>2
    <3>. QED  BY <1>4, <2>1, <3>3 DEF NetworkDelivers, ModemTypes, history
  <2>. QED  BY <2>2, <2>3
<1>. QED  BY <1>1, <1>2, <1>3, <1>4 DEF Modem

\* Every step keeps the channel in step with the reader.
LEMMA NextChannel == ChannelInv /\ [Next]_vars => ChannelInv'
<1>. SUFFICES ASSUME ChannelInv, [Next]_vars PROVE ChannelInv'
  OBVIOUS
<1>1. CASE ReadLine
  BY <1>1, ReadLineChannel
<1>2. CASE \E timeout \in BOOLEAN : Poll(timeout)
  BY <1>2, PollChannel
<1>3. CASE \E due \in SUBSET ConcatSlots, pduTimeout \in BOOLEAN : SmsTasks(due, pduTimeout)
  BY <1>3, SmsTasksChannel
<1>4. CASE TurnEnds
  BY <1>4, TurnEndsChannel
<1>5. CASE \E c \in Clients : ClientSubmits(c)
  BY <1>5, ClientSubmitsChannel
<1>6. CASE \E i \in DOMAIN queue : Forward(i)
  BY <1>6, ForwardChannel
<1>7. CASE Modem \/ \E s \in Sms : NetworkDelivers(s)
  <2>1. ModemTypes
    BY TypesAre DEF ChannelInv
  <2>. QED  BY <1>7, <2>1, ModemStepTypes, ModemChannel
<1>8. CASE Restart
  BY <1>8, RestartChannel
<1>9. CASE UNCHANGED vars
  <2>1. ModemTypes
    BY TypesAre DEF ChannelInv
  <2>2. ModemTypes' /\ UNCHANGED <<channelVars, receiver, reader, queue, pc, queued>>
    BY <1>9, <2>1 DEF vars, modemVars, history, channelVars, ModemTypes
  <2>. QED  BY <2>2, ModemChannel
<1>. QED  BY <1>1, <1>2, <1>3, <1>4, <1>5, <1>6, <1>7, <1>8, <1>9 DEF Next, Loop

\* The channel is in step with the reader all the time.
LEMMA ChannelInvariance == Spec => []ChannelInv
BY InitChannel, NextChannel, PTL DEF Spec

\* Types and the limits of the queues, in any circumstances.
THEOREM TypeCorrect == Spec => []TypeOK
<1>1. ChannelInv => TypeOK
  <2>. SUFFICES ASSUME ChannelInv PROVE TypeOK
    OBVIOUS
  <2>1. State \in States /\ OwnTypes /\ ModemTypes
    BY TypesAre DEF ChannelInv
  <2>2. /\ waiting \in Seq(Command) /\ receiver \in Receivers /\ reader \in Readers
        /\ Len(waiting) <= AtCapacity /\ Len(queue) <= Capacity
    BY <2>1, StateFields, StateIs
  <2>3. receiver.slots \in [ConcatSlots -> SUBSET Sms]
    BY <2>2 DEF Receivers
  <2>4. /\ reader.queue \in Seq(Indices) /\ Len(reader.queue) <= ReadCapacity
        /\ reader.deletes \in Seq(Indices) /\ Len(reader.deletes) <= DeleteCapacity
    BY <2>2 DEF Readers
  <2>. QED  BY <2>1, <2>2, <2>3, <2>4 DEF TypeOK, OwnTypes, ModemTypes
<1>. QED  BY <1>1, ChannelInvariance, PTL

\* What the invariant says of the commands in flight.
LEMMA ReadersCommand ==
  ASSUME ChannelInv
  PROVE  /\ reader.state \in {"None", "Reading", "Deleting"}
         /\ \A c \in InFlight : c.op # "other" => reader.state # "None" /\ c = CommandOf(reader)
         /\ reader.state # "None" => CommandOf(reader) \in InFlight
<1>1. State \in States /\ OwnTypes /\ Channel(waiting, current, reader)
  BY TypesAre DEF ChannelInv
<1>2. reader \in Readers
  BY <1>1, StateFields, StateIs
<1>3. reader.state \in {"None", "Reading", "Deleting"}
  BY <1>2 DEF Readers
<1>4. ASSUME NEW c \in InFlight, c.op # "other"
      PROVE  reader.state # "None" /\ c = CommandOf(reader)
  <2>1. CASE \E k \in DOMAIN waiting : c = waiting[k]
    BY <1>1, <1>4, <2>1 DEF Channel
  <2>2. CASE c = current /\ c # NoCommand
    <3>1. c.op \in {"read", "delete"}
      BY <1>1, <1>4, <2>2, CommandFacts DEF OwnTypes
    <3>. QED  BY <1>1, <2>2, <3>1 DEF Channel
  <2>. QED  BY <1>4, <2>1, <2>2 DEF InFlight
<1>5. CommandOf(reader) # NoCommand
  BY CommandFacts
<1>6. reader.state # "None" => CommandOf(reader) \in InFlight
  BY <1>1, <1>5 DEF Channel, InFlight
<1>. QED  BY <1>3, <1>4, <1>6

\* The reader waits exactly while its command is in the channel: no callback
\* is lost, none comes twice, and it never has two commands under way.
THEOREM ReaderWaits == Spec => []ReaderWaitsForItsCommand
<1>1. ASSUME ChannelInv PROVE ReaderWaitsForItsCommand
  <2>. DEFINE c == CommandOf(reader)
              mine == {Read(reader.active), Delete(reader.active)}
              W == {k \in DOMAIN waiting : waiting[k] \in mine}
  <2>1. /\ reader.state \in {"None", "Reading", "Deleting"}
        /\ \A d \in InFlight : d.op # "other" => reader.state # "None" /\ d = c
        /\ reader.state # "None" => c \in InFlight
    BY <1>1, ReadersCommand
  <2>2. /\ Distinct(waiting) /\ \A k \in DOMAIN waiting : waiting[k] # current
        /\ \A k \in DOMAIN waiting : waiting[k].op # "other" => waiting[k] = c
        /\ current.op \in {"read", "delete"} => current = c
        /\ reader.state # "None" => current = c \/ \E k \in DOMAIN waiting : waiting[k] = c
    BY <1>1 DEF ChannelInv, Channel
  <2>3. reader.state = "Reading" => c = Read(reader.active) /\ c.op = "read" /\ c.arg \in Indices
    <3>1. reader \in Readers
      BY <1>1, StateFields, StateIs, TypesAre DEF ChannelInv
    <3>2. reader.state # "None" => reader.active \in Indices
      BY <3>1, ReaderConstants, ReaderTypes
    <3>. QED  BY <3>2, CommandFacts
  <2>4. reader.state = "Deleting" => c = Delete(reader.active) /\ c.op = "delete" /\ c.arg \in Indices
    <3>1. reader \in Readers
      BY <1>1, StateFields, StateIs, TypesAre DEF ChannelInv
    <3>2. reader.state # "None" => reader.active \in Indices
      BY <3>1, ReaderConstants, ReaderTypes
    <3>. QED  BY <3>2, CommandFacts
  <2>5. \A d \in mine : d.op \in {"read", "delete"}
    BY CommandFacts
  <2>. HIDE DEF c
  <2>6. reader.state = "Reading" <=> \E i \in Indices : Read(i) \in InFlight
    <3>1. ASSUME NEW i \in Indices, Read(i) \in InFlight PROVE reader.state = "Reading"
      <4>1. Read(i).op = "read"
        BY CommandFacts
      <4>. QED  BY <2>1, <2>4, <3>1, <4>1
    <3>2. reader.state = "Reading" => c = Read(c.arg)
      BY <2>3, CommandFacts
    <3>. QED  BY <2>1, <2>3, <3>1, <3>2
  <2>7. reader.state = "Deleting" <=> \E i \in Indices : Delete(i) \in InFlight
    <3>1. ASSUME NEW i \in Indices, Delete(i) \in InFlight PROVE reader.state = "Deleting"
      <4>1. Delete(i).op = "delete"
        BY CommandFacts
      <4>. QED  BY <2>1, <2>3, <3>1, <4>1
    <3>2. reader.state = "Deleting" => c = Delete(c.arg)
      BY <2>4, CommandFacts
    <3>. QED  BY <2>1, <2>4, <3>1, <3>2
  <2>8. ASSUME reader.state \in {"Reading", "Deleting"}
        PROVE  /\ \A d \in InFlight : d.op # "other" => d \in mine
               /\ Cardinality(W) + (IF current \in mine THEN 1 ELSE 0) = 1
    <3>1. c \in mine
      BY <2>3, <2>4, <2>8
    <3>2. \A k \in DOMAIN waiting : waiting[k] \in mine <=> waiting[k] = c
      BY <2>2, <2>5, <3>1
    <3>3. current \in mine <=> current = c
      BY <2>2, <2>5, <3>1
    <3>. HIDE DEF mine
    <3>4. CASE current = c
      <4>1. W = {}
        BY <2>2, <3>2, <3>4
      <4>. HIDE DEF W
      <4>. QED  BY <2>1, <3>1, <3>3, <3>4, <4>1, FS_EmptySet
    <3>5. CASE current # c
      <4>1. PICK k \in DOMAIN waiting : waiting[k] = c
        BY <2>2, <2>8, <3>5
      <4>2. W = {k}
        BY <2>2, <3>2, <4>1 DEF Distinct
      <4>. HIDE DEF W
      <4>. QED  BY <2>1, <3>1, <3>3, <3>5, <4>2, FS_Singleton
    <3>. QED  BY <3>4, <3>5
  <2>. HIDE DEF mine, W
  <2>. QED  BY <2>6, <2>7, <2>8 DEF ReaderWaitsForItsCommand, mine, W
<1>. QED  BY <1>1, ChannelInvariance, PTL

\* As few other clients as the ring has places leave one for the reader: in
\* main.cpp there are four of them, and four places
\* (kQueueCapacity of modem_at_core.h).
THEOREM LoopSubmits ==
  ASSUME IsFiniteSet(Clients), Cardinality(Clients) <= AtCapacity, AtCapacity > 1
  PROVE  Spec => []LoopSubmitIsTaken
<1>1. ASSUME ChannelInv, pc = "sms", reader.state = "None" PROVE Accepts(State)
  <2>. DEFINE n == Len(waiting)
  <2>1. State \in States /\ OwnTypes /\ Channel(waiting, current, reader)
    BY <1>1, TypesAre DEF ChannelInv
  <2>2. /\ waiting \in Seq(Command) /\ n \in Nat /\ DOMAIN waiting = 1 .. n /\ AtCapacity \in Nat
        /\ \A k \in 1 .. n : waiting[k] \in Command
    BY <2>1, StateFields, StateIs
  <2>. HIDE DEF n
  <2>3. /\ \A k \in 1 .. n : waiting[k].op = "other" /\ waiting[k] # current
        /\ \A j, k \in 1 .. n : waiting[j] = waiting[k] => j = k
        /\ current.op \notin {"read", "delete"}
    BY <1>1, <2>1, <2>2 DEF Channel, Distinct
  <2>4. CASE current = NoCommand
    <3>1. \A k \in 1 .. n : waiting[k] = Other(Console)
      BY <1>1, <2>2, <2>4 DEF ChannelInv, Started
    <3>2. n < 2
      <4>. SUFFICES ASSUME n >= 2 PROVE FALSE
        BY <2>2
      <4>1. 1 \in 1 .. n /\ 2 \in 1 .. n
        BY <2>2
      <4>. QED  BY <2>3, <3>1, <4>1
    <3>. QED  BY <2>2, <3>2, StateIs DEF Accepts, n
  <2>5. CASE current # NoCommand
    <3>. DEFINE c(k) == IF k = n + 1 THEN current ELSE waiting[k]
                f == [k \in 1 .. n + 1 |-> c(k).arg]
    <3>1. \A k \in 1 .. n + 1 : k = n + 1 \/ (k # n + 1 /\ k \in 1 .. n)
      BY <2>2
    <3>2. \A k \in 1 .. n + 1 : c(k) \in Command /\ c(k).op = "other"
      <4>1. current \in Command /\ current.op = "other"
        BY <2>1, <2>3, <2>5, CommandFacts DEF OwnTypes
      <4>. QED  BY <2>2, <2>3, <3>1, <4>1
    <3>3. \A j, k \in 1 .. n + 1 : c(j) = c(k) => j = k
      BY <2>3, <3>1
    <3>. HIDE DEF c
    <3>4. \A k \in 1 .. n + 1 : f[k] \in Clients /\ c(k) = Other(f[k])
      BY <3>2, CommandFacts
    <3>5. f \in Injection(1 .. n + 1, Clients)
      BY <3>3, <3>4 DEF Injection, IsInjective
    <3>. HIDE DEF f
    <3>6. Cardinality(1 .. n + 1) <= Cardinality(Clients)
      BY <3>5, FS_Injection
    <3>7. Cardinality(1 .. n + 1) = n + 1
      <4>1. 1 \in Int /\ n + 1 \in Int /\ ~(1 > n + 1) /\ (n + 1) - 1 + 1 = n + 1
        BY <2>2
      <4>. QED  BY <4>1, FS_Interval
    <3>8. Cardinality(Clients) \in Nat
      BY FS_CardinalityType
    <3>9. n < AtCapacity
      BY <2>2, <3>6, <3>7, <3>8
    <3>. QED  BY <3>9, StateIs DEF Accepts, n
  <2>. QED  BY <2>4, <2>5
<1>2. ChannelInv => LoopSubmitIsTaken
  BY <1>1 DEF LoopSubmitIsTaken, ReadIsReady, DeleteIsReady
<1>. QED  BY <1>2, ChannelInvariance, PTL
==============================================================================
