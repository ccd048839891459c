------------------------- MODULE CellularStatusCore -------------------------
(***************************************************************************)
(* The parsers of cellular_status_core.cpp that read several lines or keep *)
(* something of earlier answers: AT+CGDCONT?, AT+CGACT? and AT+MIPCALL?.   *)
(* A response is the sequence of lines that ModemAtCore collected; the     *)
(* final OK is not one of them.  A line has its prefix and the fields that *)
(* the parser takes from it.                                               *)
(***************************************************************************)
EXTENDS Naturals, SequencesExt

CONSTANT MaxPdpContexts   \* kMaxPdpContexts

\* cellularStatusBegin(): the fields of the snapshot that concern data.
EmptySnapshot ==
  [ contexts |-> <<>>, apn |-> "",
    mipCallKnown |-> FALSE, mipCallActive |-> FALSE,
    dataConnectionKnown |-> FALSE, dataConnectionActive |-> FALSE ]

\* A parser returns whether it found anything, and the snapshot, which it may
\* have changed all the same.
Parsed(ok, s) == [ok |-> ok, snapshot |-> s]

\* findLine(): the lines with a prefix, by their places.
LinesOf(response, prefix) == {i \in DOMAIN response : response[i].prefix = prefix}

\* findOrAddPdpContext(): a ninth context has no place.
WithContext(contexts, cid) ==
  IF (\E i \in DOMAIN contexts : contexts[i].cid = cid) \/ Len(contexts) >= MaxPdpContexts
  THEN contexts
  ELSE Append(contexts, [ cid |-> cid, known |-> FALSE, ignored |-> FALSE, apn |-> "",
                          activationKnown |-> FALSE, active |-> FALSE ])

\* equalsIgnoreCase(apn, "IMS")
IsIms(apn) == apn \in {"IMS", "ims"}

ListContext(contexts, line) ==
  LET all == WithContext(contexts, line.cid)
  IN  [i \in DOMAIN all |->
         IF all[i].cid = line.cid
         THEN [all[i] EXCEPT !.known = TRUE, !.ignored = IsIms(line.apn), !.apn = line.apn]
         ELSE all[i]]

TellActivation(contexts, line) ==
  LET all == WithContext(contexts, line.cid)
  IN  [i \in DOMAIN all |->
         IF all[i].cid = line.cid
         THEN [all[i] EXCEPT !.activationKnown = TRUE, !.active = (line.state = 1)]
         ELSE all[i]]

\* The loops over the lines of a response.
ListContexts(contexts, response) ==
  LET after[n \in 0 .. Len(response)] ==
        IF n = 0 THEN contexts
        ELSE IF n \in LinesOf(response, "+CGDCONT:") THEN ListContext(after[n - 1], response[n])
        ELSE after[n - 1]
  IN  after[Len(response)]

TellActivations(contexts, response) ==
  LET after[n \in 0 .. Len(response)] ==
        IF n = 0 THEN contexts
        ELSE IF n \in LinesOf(response, "+CGACT:") THEN TellActivation(after[n - 1], response[n])
        ELSE after[n - 1]
  IN  after[Len(response)]

\* updateDataConnectionSummary()
FirstApn(contexts) ==
  LET named == {i \in DOMAIN contexts :
                  contexts[i].known /\ ~contexts[i].ignored /\ contexts[i].apn # ""}
  IN  IF named = {} THEN "" ELSE contexts[Min(named)].apn

Summary(s) ==
  [s EXCEPT !.apn                  = FirstApn(s.contexts),
            !.dataConnectionKnown  = s.mipCallKnown,
            !.dataConnectionActive = s.mipCallKnown /\ s.mipCallActive]

\* parseCgdccontResponse(): the contexts begin anew.
\* Faulty variant: the contexts of the listing before stay.
ParseCgdcont_Keeps(s, response) ==
  LET t == [s EXCEPT !.contexts = ListContexts(s.contexts, response)]
  IN  IF LinesOf(response, "+CGDCONT:") = {} THEN Parsed(FALSE, t) ELSE Parsed(TRUE, Summary(t))

ParseCgdcont(s, response) ==
  LET t == [s EXCEPT !.contexts = ListContexts(<<>>, response)]
  IN  IF LinesOf(response, "+CGDCONT:") = {} THEN Parsed(FALSE, t) ELSE Parsed(TRUE, Summary(t))

\* parseCgactResponse(): the activations begin anew, the contexts stay.
ParseCgact(s, response) ==
  LET unknown == [i \in DOMAIN s.contexts |->
                    [s.contexts[i] EXCEPT !.activationKnown = FALSE, !.active = FALSE]]
      t       == [s EXCEPT !.contexts = TellActivations(unknown, response)]
  IN  IF LinesOf(response, "+CGACT:") = {} THEN Parsed(FALSE, t) ELSE Parsed(TRUE, Summary(t))

\* parseMipCallResponse(): without a +MIPCALL: line it looks for a line OK,
\* which a response never holds (hasOkLine() is false).
ParseMipCall(s, response) ==
  LET lines == LinesOf(response, "+MIPCALL:")
  IN  IF lines = {} THEN Parsed(FALSE, s)
      ELSE Parsed(TRUE, Summary([s EXCEPT !.mipCallKnown  = TRUE,
                                          !.mipCallActive = (response[Min(lines)].state = 1)]))
=============================================================================
