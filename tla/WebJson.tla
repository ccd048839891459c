------------------------------- MODULE WebJson -------------------------------
(***************************************************************************)
(* The JSON answers of web_server_core.cpp: JsonWriter, which writes into  *)
(* a buffer of fixed size and remembers whether all of it went in;         *)
(* webJsonEscape; and the reverse, with which the firmware reads the       *)
(* strings of a request.  A character is a string of one letter, but for   *)
(* "ctl", a control character that JSON has no short escape for.           *)
(***************************************************************************)
EXTENDS Naturals, Sequences, SequencesExt

CONSTANTS
  Characters,   \* bound: the characters of the values
  MaxLength,    \* bound: how long a value is
  MaxValues,    \* bound: how many values an answer has
  OutputSize,   \* the size of the handler's buffer
  EscapedSize   \* the size of `escaped` in appendEscaped()

Quote     == "\""
Backslash == "\\"
NewLine   == "\n"

\* The answers and the buffers of this file are larger than what surrounds a
\* value in them.
WebJsonAssumption ==
  /\ OutputSize \in Nat /\ OutputSize > 2
  /\ EscapedSize \in Nat /\ EscapedSize > 0

VARIABLES
  writer,  \* a JsonWriter: its output, used_ and ok_
  values   \* history: the values it was told to write

vars == <<writer, values>>

-----------------------------------------------------------------------------
(* webJsonEscape() and decodeJsonString() *)

EscapeChar(c) ==
  CASE c \in {Quote, Backslash} -> <<Backslash, c>>
    [] c = NewLine              -> <<Backslash, "n">>
    [] c = "ctl"                -> <<Backslash, "u", "0", "0", "0", "1">>
    [] OTHER                    -> <<c>>

Escaped(text) == FlattenSeq([i \in DOMAIN text |-> EscapeChar(text[i])])

\* What the character after a backslash stands for.
Unescaped(c) == IF c = "n" THEN NewLine ELSE c

\* The text that decodeJsonString() makes of an escaped one; "bad" is in it if
\* it cannot.
Decoded(text) ==
  LET n == Len(text)
      rest[i \in 1 .. n + 6] ==
        IF i > n THEN <<>>
        ELSE IF text[i] # Backslash THEN <<text[i]>> \o rest[i + 1]
        ELSE IF i < n /\ text[i + 1] \in {Quote, Backslash, "n"}
        THEN <<Unescaped(text[i + 1])>> \o rest[i + 2]
        ELSE IF i + 5 <= n /\ SubSeq(text, i + 1, i + 5) = <<"u", "0", "0", "0", "1">>
        THEN <<"ctl">> \o rest[i + 6]
        ELSE <<"bad">>
  IN  rest[1]

\* The end of the string that begins in the place i, as extractJsonStringField()
\* finds it: the next quote that no backslash stands before.
StringEnd(text, i) ==
  LET end[j \in i .. Len(text) + 2] ==
        IF j > Len(text) THEN Len(text) + 1
        ELSE IF text[j] = Quote THEN j
        ELSE IF text[j] = Backslash THEN end[j + 2]
        ELSE end[j + 1]
  IN  end[i]

\* The strings of an answer, read that way.
StringsOf(text) ==
  LET from[i \in 1 .. Len(text) + 2] ==
        IF i > Len(text) THEN <<>>
        ELSE IF text[i] # Quote THEN from[i + 1]
        ELSE LET end == StringEnd(text, i + 1)
             IN  <<Decoded(SubSeq(text, i + 1, end - 1))>> \o from[end + 1]
  IN  from[1]

-----------------------------------------------------------------------------
(* JsonWriter *)

EmptyWriter == [output |-> <<>>, used |-> 0, ok |-> TRUE]

\* append() and appendFormat(); without room nothing more goes in.
\* Faulty variant: what does not fit is left out, and the rest goes on.
AppendText_Skips(w, text) ==
  IF Len(text) >= OutputSize - w.used THEN w
  ELSE [w EXCEPT !.output = @ \o text, !.used = @ + Len(text)]

AppendText(w, text) ==
  IF Len(text) >= OutputSize - w.used THEN [w EXCEPT !.ok = FALSE, !.used = OutputSize - 1]
  ELSE [w EXCEPT !.output = @ \o text, !.used = @ + Len(text)]

\* appendEscaped()
AppendEscaped(w, text) ==
  IF Len(Escaped(text)) >= EscapedSize THEN [w EXCEPT !.ok = FALSE]
  ELSE AppendText(w, Escaped(text))

-----------------------------------------------------------------------------

Init == writer = EmptyWriter /\ values = <<>>

\* One member of the answer: a value between two pieces of fixed text.
Member(text) ==
  /\ Len(values) < MaxValues
  /\ values' = Append(values, text)
  /\ writer' = AppendText(AppendEscaped(AppendText(writer, <<Quote>>), text), <<Quote>>)

\* The handler sends the answer, or an error (or leaves the entry out of the
\* list) if ok() is not true, and has the next one written.
Send ==
  /\ values # <<>>
  /\ writer' = EmptyWriter
  /\ values' = <<>>

Texts == BoundedSeq(Characters, MaxLength)

Next == (\E text \in Texts : Member(text)) \/ Send

Spec == Init /\ [][Next]_vars

-----------------------------------------------------------------------------
(* Properties. *)

\* Types; and the output ends before the buffer does.
TypeOK ==
  /\ writer.used \in Nat /\ writer.used < OutputSize
  /\ writer.ok \in BOOLEAN
  /\ Len(writer.output) <= writer.used
  /\ values \in Seq(Texts)

\* An answer that is sent as good is whole: a reader finds in it the very values
\* that were written, whatever characters they have.  One is refused only when
\* it, or one of its values, does not fit.
JsonIsWholeOrRefused ==
  LET size == Len(FlattenSeq([i \in DOMAIN values |-> <<Quote>> \o Escaped(values[i]) \o <<Quote>>]))
  IN  /\ writer.ok => StringsOf(writer.output) = values
      /\ writer.ok <=> /\ size < OutputSize
                       /\ \A i \in DOMAIN values : Len(Escaped(values[i])) < EscapedSize
=============================================================================
