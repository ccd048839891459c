------------------------ MODULE SmsStorageReaderCore ------------------------
(***************************************************************************)
(* The reader of messages stored on the SIM, sms_storage_reader_core.cpp,  *)
(* as operators on a record of its fields.  The two rings are sequences,   *)
(* an index stands for the pair of storage and index.                      *)
(***************************************************************************)
EXTENDS SmsReceiverCore, SequencesExt

CONSTANTS
  Indices,          \* the places of the SIM
  ReadCapacity,     \* kCapacity
  DeleteCapacity,   \* kDeleteCapacity
  MaxConcatGroups   \* kMaxConcatGroups

ASSUME SmsStorageReaderCoreAssumption ==
  /\ Indices \subseteq Nat \ {0}
  /\ ReadCapacity \in Nat /\ DeleteCapacity \in Nat /\ MaxConcatGroups \in Nat

NoIndex == 0

ConcatGroups == 1 .. MaxConcatGroups

\* A group maps the parts of a long message to the places they were read
\* from; NoIndex is a part that is not valid.
FreeGroup == [of |-> {}, places |-> [p \in 1 .. MaxConcatParts |-> NoIndex]]

ReaderBegin ==
  [ queue   |-> <<>>,
    deletes |-> <<>>,
    groups  |-> [g \in ConcatGroups |-> FreeGroup],
    state   |-> "None",
    active  |-> NoIndex ]

ClearActive(rd) == [rd EXCEPT !.state = "None", !.active = NoIndex]

-----------------------------------------------------------------------------
(* enqueue(): a place already waiting or being worked on is not queued     *)
(* twice; a notice that finds the queue full is dropped.                   *)

HasQueuedIndex(rd, i) == (rd.state # "None" /\ rd.active = i) \/ Contains(rd.queue, i)

\* Faulty variants: room for one too many; a notice that comes while the
\* reader is busy is dropped.
EnqueueRead_OffByOne(rd, i) ==
  IF HasQueuedIndex(rd, i) \/ Len(rd.queue) > ReadCapacity THEN rd
  ELSE [rd EXCEPT !.queue = Append(@, i)]
EnqueueRead_NotWhenBusy(rd, i) ==
  IF rd.state # "None" \/ Contains(rd.queue, i) \/ Len(rd.queue) >= ReadCapacity
  THEN rd ELSE [rd EXCEPT !.queue = Append(@, i)]

EnqueueRead(rd, i) ==
  IF HasQueuedIndex(rd, i) \/ Len(rd.queue) >= ReadCapacity THEN rd
  ELSE [rd EXCEPT !.queue = Append(@, i)]

-----------------------------------------------------------------------------
(* nextReadCommand(), nextDeleteCommand(): the head leaves its queue and   *)
(* becomes the active place.                                               *)

ReadIsReady(rd)   == rd.state = "None" /\ rd.queue # <<>>
DeleteIsReady(rd) == rd.state = "None" /\ rd.deletes # <<>>

NextRead(rd) ==
  [rd EXCEPT !.active = Head(rd.queue), !.queue = Tail(@), !.state = "Reading"]

NextDelete(rd) ==
  [rd EXCEPT !.active = Head(rd.deletes), !.deletes = Tail(@), !.state = "Deleting"]

\* completeDelete(): done with it, deleted or not.
\* Faulty variant: a failed deletion stays active, for a retry nobody makes.
CompleteDelete_KeepsFailed(rd, result) ==
  IF rd.state = "Deleting" /\ result = "Ok" THEN ClearActive(rd) ELSE rd

CompleteDelete(rd, result) == IF rd.state = "Deleting" THEN ClearActive(rd) ELSE rd

-----------------------------------------------------------------------------
(* messageAccepted() and its helpers. *)

\* enqueueDelete()
EnqueueDelete(rd, i) ==
  IF Contains(rd.deletes, i) \/ (rd.state = "Deleting" /\ rd.active = i)
     \/ Len(rd.deletes) >= DeleteCapacity
  THEN rd
  ELSE [rd EXCEPT !.deletes = Append(@, i)]

\* The loop of enqueueConcatDeletes() over the parts of a group.
EnqueueDeletes(rd, places, total) ==
  LET upTo[p \in 0 .. total] ==
        IF p = 0 THEN rd
        ELSE IF places[p] = NoIndex THEN upTo[p - 1]
        ELSE EnqueueDelete(upTo[p - 1], places[p])
  IN  upTo[total]

\* findConcatGroup(), findFreeConcatGroup()
GroupsOf(rd, s) == {g \in ConcatGroups : Key[s] \in rd.groups[g].of}
FreeGroups(rd)  == {g \in ConcatGroups : rd.groups[g].of = {}}

GroupFor(rd, s) ==
  IF GroupsOf(rd, s) # {} THEN Min(GroupsOf(rd, s)) ELSE Min(FreeGroups(rd))

\* rememberConcatPart(): a part read again replaces the place it had.
CanRemember(rd, s) == ValidPart(s) /\ (GroupsOf(rd, s) # {} \/ FreeGroups(rd) # {})

RememberPart(rd, s) ==
  [rd EXCEPT !.groups[GroupFor(rd, s)] =
     [of |-> {Key[s]}, places |-> [@.places EXCEPT ![Part[s]] = rd.active]]]

\* enqueueConcatDeletes(): every place of the group, by part; the group is
\* given up.
ConcatDeletes(rd, s) ==
  LET g == GroupFor(rd, s)
  IN  [EnqueueDeletes(rd, rd.groups[g].places, Total[s]) EXCEPT !.groups[g] = FreeGroup]

\* Faulty variants of MessageAccepted: the place is deleted although the
\* message found no room; only the place of the last part is deleted.
MessageAccepted_IgnoresQueue(rd, s, queued) == ClearActive(EnqueueDelete(rd, rd.active))
MessageAccepted_LastPart(rd, s, queued) ==
  ClearActive(IF queued THEN EnqueueDelete(rd, rd.active) ELSE rd)

MessageAccepted(rd, s, queued) ==
  LET plain  == IF queued THEN EnqueueDelete(rd, rd.active) ELSE rd
      noted  == RememberPart(rd, s)
      concat == IF ~CanRemember(rd, s) THEN rd
                ELSE IF queued THEN ConcatDeletes(noted, s) ELSE noted
  IN  ClearActive(IF IsConcat(s) THEN concat ELSE plain)
=============================================================================
