---------------------------- MODULE LoggerCore ----------------------------
(***************************************************************************)
(* logger_core.cpp: the last log entries in a ring, read oldest first by   *)
(* the page of the log (GET /api/logs), and numbered so that a reader sees *)
(* what it missed.                                                         *)
(***************************************************************************)
EXTENDS Naturals, Sequences, SequencesExt

CONSTANTS
  Capacity,   \* kCapacity
  Messages,   \* the texts
  MaxWrites   \* bound: entries written in a behaviour

LoggerCoreAssumption == Capacity \in Nat \ {0} /\ MaxWrites \in Nat

VARIABLES
  entries, start, count, nextSequence,  \* the fields of LoggerCore
  shown       \* history: what was written since the last clear

vars == <<entries, start, count, nextSequence, shown>>

Indices == 0 .. Capacity - 1
Blank   == [sequence |-> 0, message |-> ""]

\* begin()
Init ==
  /\ entries = [i \in Indices |-> Blank]
  /\ start = 0 /\ count = 0 /\ nextSequence = 1
  /\ shown = <<>>

\* physicalIndex()
\* Faulty variant: the start is forgotten.
PhysicalIndex_NoStart(i) == i % Capacity
PhysicalIndex(i) == (start + i) % Capacity

\* write()
Write(message) ==
  LET full  == count >= Capacity
      index == IF full THEN start ELSE PhysicalIndex(count)
      entry == [sequence |-> nextSequence, message |-> message]
  IN  /\ nextSequence <= MaxWrites
      /\ entries' = [entries EXCEPT ![index] = entry]
      /\ start' = IF full THEN (start + 1) % Capacity ELSE start
      /\ count' = IF full THEN count ELSE count + 1
      /\ nextSequence' = nextSequence + 1
      /\ shown' = Append(shown, entry)

\* clear() goes on counting.
\* Faulty variant: the texts stay.
Erased_Keeps == entries
Erased == [i \in Indices |-> Blank]

Clear ==
  /\ entries' = Erased
  /\ start' = 0 /\ count' = 0
  /\ nextSequence' = nextSequence
  /\ shown' = <<>>

Next == Clear \/ \E message \in Messages : Write(message)

Spec == Init /\ [][Next]_vars

\* get() for every index that there is
Entries == [i \in 1 .. count |-> entries[PhysicalIndex(i - 1)]]

-----------------------------------------------------------------------------

\* Types; a slot that is not in use is blank.
TypeOK ==
  /\ start \in Indices /\ count \in 0 .. Capacity /\ nextSequence \in Nat
  /\ entries \in [Indices -> [sequence : Nat, message : Messages \cup {""}]]
  /\ \A i \in count .. Capacity - 1 : entries[PhysicalIndex(i)] = Blank

\* The log page shows the latest entries since the last clear, as many as fit,
\* oldest first, however often the ring went round.
ShowsTheLatest ==
  /\ IsSuffix(Entries, shown)
  /\ count = IF Len(shown) < Capacity THEN Len(shown) ELSE Capacity
=============================================================================
