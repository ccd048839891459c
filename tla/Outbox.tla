------------------------------- MODULE Outbox -------------------------------
(***************************************************************************)
(* What the queue and the forwarder promise the receiver, without attempts, *)
(* delays and the clock: a message that was accepted waits, in the order of *)
(* acceptance, until the server has taken it and has said so; a message is  *)
(* taken again only because the server's answer was lost.                   *)
(***************************************************************************)
EXTENDS Naturals, Sequences

CONSTANTS
  Messages,   \* numbered from 1 in the order in which they are accepted
  Capacity    \* how many may wait

VARIABLES
  accepted,   \* how many were accepted
  waiting,    \* the numbers of those that wait, oldest first
  taken,      \* how often the server took each message
  unconfirmed \* how often it did and the forwarder was not told

vars == <<accepted, waiting, taken, unconfirmed>>

Init ==
  /\ accepted = 0
  /\ waiting = <<>>
  /\ taken = [m \in Messages |-> 0]
  /\ unconfirmed = [m \in Messages |-> 0]

\* The sequence without its position i.
Without(seq, i) ==
  [j \in 1 .. Len(seq) - 1 |-> seq[IF j < i THEN j ELSE j + 1]]

Accept ==
  /\ accepted + 1 \in Messages
  /\ Len(waiting) < Capacity
  /\ accepted' = accepted + 1
  /\ waiting' = Append(waiting, accepted + 1)
  /\ UNCHANGED <<taken, unconfirmed>>

\* The server takes a message that waits, which ends its wait.
Deliver(i) ==
  /\ taken' = [taken EXCEPT ![waiting[i]] = @ + 1]
  /\ waiting' = Without(waiting, i)
  /\ UNCHANGED <<accepted, unconfirmed>>

\* It takes one and nobody knows, so the message goes on waiting.
DeliverUnconfirmed(i) ==
  /\ taken' = [taken EXCEPT ![waiting[i]] = @ + 1]
  /\ unconfirmed' = [unconfirmed EXCEPT ![waiting[i]] = @ + 1]
  /\ UNCHANGED <<accepted, waiting>>

Next ==
  \/ Accept
  \/ \E i \in DOMAIN waiting : Deliver(i) \/ DeliverUnconfirmed(i)

Spec == Init /\ [][Next]_vars
=============================================================================
