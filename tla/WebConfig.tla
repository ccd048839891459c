------------------------------ MODULE WebConfig ------------------------------
(***************************************************************************)
(* How a request to save the configuration is read: webParseConfigSaveJson *)
(* of web_server_core.cpp and the checks of config_store_core.cpp.  The    *)
(* text is not parsed as JSON: each key is looked for in it, from the      *)
(* beginning, as a string that reads like the key.                         *)
(*                                                                         *)
(* A request is its members <<key, value>> in the order of the text, and   *)
(* whether the text is whole.  The values are the strings that fit, and    *)
(* two that do not name one: TooLong, a string that does not fit its field *)
(* or cannot be decoded, and NotText, which is no string.                  *)
(***************************************************************************)
EXTENDS Naturals, Sequences, SequencesExt, FiniteSetsExt

CONSTANTS
  Fields,       \* the string fields, in the order of DeviceConfig
  Values,       \* values of a field
  Empty,        \* the empty string
  BadHostnames, \* those that isValidHostname() does not take
  Requests      \* bound: the requests that come

TooLong == "<too long>"
NotText == "<null>"

Keys    == 1 .. Len(Fields)
Configs == [Keys -> Values]

\* The parser would take the first of two members with one key; no client of
\* the repository sends that.
WebConfigAssumption ==
  /\ Fields \in Seq(STRING) /\ {TooLong, NotText} \cap ToSet(Fields) = {}
  /\ Empty \in Values /\ BadHostnames \subseteq Values \ {Empty}
  /\ \A r \in Requests :
       /\ r.whole \in BOOLEAN
       /\ r.members \in Seq(STRING \X (Values \cup {TooLong, NotText}))
       /\ \A i, j \in DOMAIN r.members : r.members[i][1] = r.members[j][1] => i = j

\* The strings of the text in its order, keys and values in turn.
Texts(request) ==
  [i \in 1 .. 2 * Len(request.members) |->
     request.members[(i + 1) \div 2][IF i % 2 = 1 THEN 1 ELSE 2]]

\* Does a colon follow the text in this place?  It does after a key.
\* Faulty variant: no look for it.
ColonFollows_Any(i) == TRUE
ColonFollows(i) == i % 2 = 1

\* extractJsonStringField(): the first text that reads like the key is taken for
\* it, also when it is a value.
Extract(request, field) ==
  LET texts == Append(Texts(request), NotText)
      at    == {i \in DOMAIN texts : texts[i] = field}
      value == texts[Min(at) + 1]
  IN  IF at = {} THEN <<"Absent", Empty>>
      ELSE IF ~ColonFollows(Min(at)) \/ value = NotText THEN <<"InvalidJson", Empty>>
      ELSE IF value = TooLong THEN <<"ValueTooLong", Empty>>
      ELSE <<"Found", value>>

IsValidHostname(value) == value \notin BadHostnames

\* ConfigStoreCore::sanitize()
Sanitize(config) ==
  [k \in Keys |-> IF Fields[k] = "hostname" /\ ~IsValidHostname(config[k]) THEN Empty ELSE config[k]]

\* What the request makes of one field of the configuration; the hostname is
\* checked whether the request gives one or not.
ReadField(request, config, k) ==
  LET field == Extract(request, Fields[k])
      value == IF field[1] = "Found" THEN field[2] ELSE config[k]
  IN  IF field[1] \in {"InvalidJson", "ValueTooLong"} THEN field
      ELSE IF Fields[k] = "hostname" /\ ~IsValidHostname(value) THEN <<"InvalidHostname", value>>
      ELSE <<"Ok", value>>

\* webParseConfigSaveJson(): the first field that is refused ends it, and the
\* configuration changes only if none is.
ParseConfigSave(request, config) ==
  LET refused == {k \in Keys : ReadField(request, config, k)[1] # "Ok"}
  IN  IF ~request.whole THEN [result |-> "InvalidJson", config |-> config]
      ELSE IF refused # {}
      THEN [result |-> ReadField(request, config, Min(refused))[1], config |-> config]
      ELSE [result |-> "Ok",
            config |-> Sanitize([k \in Keys |-> ReadField(request, config, k)[2]])]
=============================================================================
