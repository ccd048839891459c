----------------------------- MODULE MCStoredSms -----------------------------
(* Instances of StoredSms for TLC: an ordinary message and one in two parts. *)
EXTENDS StoredSms

\* Messages: two of one part each, and the parts of a long one.
plain == "plain"
other == "other"
part1 == "part1"
part2 == "part2"
again == "again"  \* the first part of a later message with the reference of the other

MCLong == {part1, part2, again}
MCAll  == {plain, part1, part2}
MCTwo  == {plain, other}
MCFour == {plain, other, part1, part2}
MCOne  == {plain}
MCReference == {part1, again, part2}

MCKey   == [s \in Sms |-> IF s \in MCLong THEN part1 ELSE s]
MCPart  == [s \in Sms |-> IF s \in {part1, again} THEN 1 ELSE IF s = part2 THEN 2 ELSE 0]
MCTotal == [s \in Sms |-> IF s \in MCLong THEN 2 ELSE 1]

MCNone        == {}
MCDirectPart  == {part2}
MCDirectOther == {other}

MCIndices2 == 1 .. 2
MCIndices3 == 1 .. 3

MCConsole    == {"console"}
MCOneClient  == {"console", "c1"}
MCAllClients == {"console", "c1", "c2", "c3"}
=============================================================================
