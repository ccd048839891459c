-------------------------- MODULE SmsReceiverCore --------------------------
(***************************************************************************)
(* The message receiver of sms_receiver_core.cpp, as operators on a record *)
(* of its fields.                                                          *)
(*                                                                         *)
(* An element of Sms is one PDU.  A long message is several PDUs with the  *)
(* same Key (sender, reference and total), each with its Part number.      *)
(* What the receiver hands on is the set of PDUs whose text it holds and   *)
(* whether every part is in it.                                            *)
(*                                                                         *)
(* Clocks are left out: a slot or a wait for a PDU may time out at any     *)
(* poll, which includes every timing the two deadlines allow.              *)
(***************************************************************************)
EXTENDS FiniteSetsExt, Integers, Sequences

CONSTANTS
  Sms,               \* the PDUs
  Key,               \* Key[s]: sender, reference and total of s
  Part,              \* Part[s]: concatPart
  Total,             \* Total[s]: concatTotal; 1 for an ordinary message
  Undecodable,       \* the PDUs the decoder gives up on
  MaxConcatParts,    \* kMaxConcatParts
  MaxConcatMessages  \* kMaxConcatMessages

ASSUME SmsReceiverCoreAssumption ==
  /\ Part \in [Sms -> Nat] /\ Total \in [Sms -> Nat \ {0}]
  /\ DOMAIN Key = Sms
  /\ \A s, t \in Sms : Key[s] = Key[t] => Total[s] = Total[t]
  /\ Undecodable \subseteq Sms
  /\ MaxConcatParts \in Nat /\ MaxConcatMessages \in Nat

\* message.isConcat && message.concatTotal > 1
IsConcat(s) == Total[s] > 1

ValidPart(s) == Part[s] \in 1 .. Total[s] /\ Total[s] <= MaxConcatParts

ConcatSlots == 1 .. MaxConcatMessages

\* A slot holds the parts of one long message; {} is a slot not in use.
ReceiverBegin == [awaitingPdu |-> FALSE, slots |-> [i \in ConcatSlots |-> {}]]

Whole(parts) == \E s \in parts : Cardinality(parts) = Total[s]

\* What the received callback is given.
Message(parts) == [parts |-> parts, complete |-> Whole(parts)]

\* findConcatSlot(), or else findFreeConcatSlot(); 0 when the cache is full.
SlotFor(r, s) ==
  LET same == {i \in ConcatSlots : \E t \in r.slots[i] : Key[t] = Key[s]}
      free == {i \in ConcatSlots : r.slots[i] = {}}
  IN  IF same # {} THEN Min(same) ELSE IF free # {} THEN Min(free) ELSE 0

\* emitConcatSlot(): the slot is given up, whatever the callback did with it.
\* Faulty variant of ClearSlot: it is kept.
ClearSlot_Keeps(r, i) == r
ClearSlot(r, i)       == [r EXCEPT !.slots[i] = {}]

Outcome(r, accepted, received) ==
  [receiver |-> r, accepted |-> accepted, received |-> received]

\* handleConcatMessage()
HandleConcat(r, s) ==
  LET i     == SlotFor(r, s)
      parts == r.slots[i] \cup {s}
  IN  IF ~ValidPart(s) \/ i = 0 THEN Outcome(r, FALSE, <<>>)
      ELSE IF \E t \in r.slots[i] : Part[t] = Part[s] THEN Outcome(r, TRUE, <<>>)
      ELSE IF Whole(parts)
           THEN Outcome(ClearSlot([r EXCEPT !.slots[i] = parts], i), TRUE, <<Message(parts)>>)
           ELSE Outcome([r EXCEPT !.slots[i] = parts], TRUE, <<>>)

\* handlePduLine() of a hex line: what becomes of the receiver, whether the
\* PDU was accepted, and the messages given to the received callback.
HandlePdu(r, s) ==
  LET r0 == [r EXCEPT !.awaitingPdu = FALSE]
  IN  IF s \in Undecodable THEN Outcome(r0, FALSE, <<>>)
      ELSE IF IsConcat(s) THEN HandleConcat(r0, s)
      ELSE Outcome(r0, TRUE, <<Message({s})>>)

\* poll(): the wait for a PDU is given up; a slot is handed on with the parts
\* it has.
PduTimeout(r) == [r EXCEPT !.awaitingPdu = FALSE]

InUse(r, i) == r.slots[i] # {}
=============================================================================
