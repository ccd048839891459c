--------------------------- MODULE DataConnection ---------------------------
(***************************************************************************)
(* What the web page shows of the data connection: the rounds of           *)
(* cellular_status.cpp and the guard of pdp_guard_core.cpp ask the modem   *)
(* through one channel, and each of them tells the snapshot.  Times are    *)
(* left out: a query or a retry may come at any moment (their times are    *)
(* those of CellularStatus and ModemBringup).                              *)
(***************************************************************************)
EXTENDS CellularStatusCore

CONSTANTS
  Listings,   \* bound: the lists of contexts the modem may have, and which are active
  BareOk      \* does the modem answer AT+MIPCALL? with nothing but OK when
              \* there is no call?

DataConnectionAssumption ==
  /\ MaxPdpContexts \in Nat \ {0}
  /\ \A l \in Listings :
       /\ l.contexts \in Seq([cid : Nat, apn : STRING]) /\ l.contexts # <<>>
       /\ \A i, j \in DOMAIN l.contexts : l.contexts[i].cid = l.contexts[j].cid => i = j
  /\ BareOk \in BOOLEAN

VARIABLES
  snapshot,   \* of cellular_status.cpp
  step,       \* the dynamic query to be asked next, or the one in the channel
  guardState, \* PdpGuardCore::state_
  channel,    \* the commands in it, <<client, command>>, the first one under way
  modem,      \* its contexts, which of them are active, and is there a call?
  listed,     \* history: the lines of the last answer to AT+CGDCONT? that had any
  fresh,      \* history: has every answer to AT+CGDCONT? since had some?
  activeTold, \* history: the contexts the last answer to AT+CGACT? told to be active
  callTold    \* history: what was told last of the call, or "nothing"

vars == <<snapshot, step, guardState, channel, modem, listed, fresh, activeTold, callTold>>

\* Those of kDynamicSteps that concern data, in their order.
DataSteps == <<"CGDCONT?", "CGACT?", "MIPCALL?">>

Modems ==
  {[contexts |-> l.contexts, active |-> l.active, call |-> b] : l \in Listings, b \in BOOLEAN}

Init ==
  /\ snapshot = EmptySnapshot
  /\ step = 1
  /\ guardState = "Query"
  /\ channel = <<>>
  /\ modem \in Modems
  /\ listed = <<>> /\ fresh = FALSE /\ activeTold = {} /\ callTold = "nothing"

Waits(client) == \A i \in DOMAIN channel : channel[i][1] # client

\* cellularStatusPoll()
StatusPoll ==
  /\ Waits("status")
  /\ channel' = Append(channel, <<"status", DataSteps[step]>>)
  /\ UNCHANGED <<snapshot, step, guardState, modem, listed, fresh, activeTold, callTold>>

\* pollPdpGuard()
GuardPoll ==
  /\ Waits("guard")
  /\ guardState # "Complete"
  /\ channel' = Append(channel, <<"guard", IF guardState = "Query" THEN "MIPCALL?" ELSE "MIPCALL=0">>)
  /\ UNCHANGED <<snapshot, step, guardState, modem, listed, fresh, activeTold, callTold>>

-----------------------------------------------------------------------------
(* The answers. *)

\* The lines with which the modem answers.
FullAnswer(command) ==
  CASE command = "CGDCONT?" ->
         [i \in DOMAIN modem.contexts |->
            [prefix |-> "+CGDCONT:", cid |-> modem.contexts[i].cid, apn |-> modem.contexts[i].apn]]
    [] command = "CGACT?" ->
         [i \in DOMAIN modem.contexts |->
            [ prefix |-> "+CGACT:", cid |-> modem.contexts[i].cid,
              state |-> IF modem.contexts[i].cid \in modem.active THEN 1 ELSE 0 ]]
    [] command = "MIPCALL?" ->
         IF modem.call \/ ~BareOk
         THEN <<[prefix |-> "+MIPCALL:", cid |-> 1, state |-> IF modem.call THEN 1 ELSE 0]>>
         ELSE <<>>
    [] OTHER -> <<>>

\* One line of an answer may be lost, on the line or for want of room in the
\* response of the channel.
Answers(command) ==
  LET full == FullAnswer(command)
  IN  {full} \cup {RemoveAt(full, i) : i \in DOMAIN full}

\* The answer says of the call that it is up or down.
Told(command, response) ==
  IF response # <<>> THEN IF modem.call THEN "up" ELSE "down"
  ELSE IF FullAnswer(command) = <<>> THEN "down" ELSE callTold

ParseStep(command, response) ==
  CASE command = "CGDCONT?" -> ParseCgdcont(snapshot, response)
    [] command = "CGACT?"   -> ParseCgact(snapshot, response)
    [] command = "MIPCALL?" -> ParseMipCall(snapshot, response)

\* handleQueryResult()
StatusResult(command, result, response) ==
  /\ snapshot' = IF result = "Ok" THEN ParseStep(command, response).snapshot ELSE snapshot
  /\ step' = (step % Len(DataSteps)) + 1
  /\ listed' = IF result = "Ok" /\ command = "CGDCONT?" /\ response # <<>>
               THEN response ELSE listed
  /\ fresh' = IF result = "Ok" /\ command = "CGDCONT?" THEN response # <<>> ELSE fresh
  /\ activeTold' = IF result = "Ok" /\ command = "CGACT?"
                   THEN {response[i].cid : i \in {j \in DOMAIN response : response[j].state = 1}}
                   ELSE activeTold
  /\ callTold' = IF result = "Ok" /\ command = "MIPCALL?" THEN Told(command, response) ELSE callTold
  /\ UNCHANGED <<guardState, modem>>

\* cellularStatusSetDataConnection(true, false)
\* Faulty variant: the page is not told.
SetDisconnected_Forgets(s) == s
SetDisconnected(s) ==
  [s EXCEPT !.mipCallKnown = TRUE, !.mipCallActive = FALSE,
            !.dataConnectionKnown = TRUE, !.dataConnectionActive = FALSE]

\* PdpGuardCore::complete(); parseConnectionActive() wants a +MIPCALL: line.
GuardComplete(result, response) ==
  LET lines == LinesOf(response, "+MIPCALL:")
  IN  CASE result # "Ok" -> "Query"
        [] result = "Ok" /\ guardState = "Disconnect" -> "Complete"
        [] result = "Ok" /\ guardState = "Query" ->
             IF lines = {} THEN "Query"
             ELSE IF response[Min(lines)].state = 1 THEN "Disconnect" ELSE "Complete"

\* handlePdpGuardResult().  The modem may hang up and not say so.
GuardResult(command, result, response) ==
  LET disconnected == command = "MIPCALL=0" /\ result = "Ok"
  IN  /\ guardState' = GuardComplete(result, response)
      /\ snapshot' = IF disconnected THEN SetDisconnected(snapshot) ELSE snapshot
      /\ callTold' = IF disconnected THEN "down" ELSE callTold
      /\ \E call \in BOOLEAN :
           /\ command = "MIPCALL?" \/ result = "Error" => call = modem.call
           /\ disconnected => ~call
           /\ command = "MIPCALL=0" /\ ~modem.call => ~call
           /\ modem' = [modem EXCEPT !.call = call]
      /\ UNCHANGED <<step, listed, fresh, activeTold>>

Answer(result) ==
  /\ channel # <<>>
  /\ LET command == Head(channel)[2]
     IN  \E response \in IF result = "Ok" THEN Answers(command) ELSE {<<>>} :
           IF Head(channel)[1] = "status"
           THEN StatusResult(command, result, response)
           ELSE GuardResult(command, result, response)
  /\ channel' = Tail(channel)

\* The network, or the modem restarting, changes what the modem has.
ModemChanges ==
  /\ modem' \in Modems
  /\ UNCHANGED <<snapshot, step, guardState, channel, listed, fresh, activeTold, callTold>>

Next ==
  \/ StatusPoll
  \/ GuardPoll
  \/ \E result \in {"Ok", "Error", "Timeout"} : Answer(result)
  \/ ModemChanges

Spec == Init /\ [][Next]_vars

-----------------------------------------------------------------------------
(* Properties. *)

\* Types; at most one command of each client is in the channel.
TypeOK ==
  /\ Len(snapshot.contexts) <= MaxPdpContexts
  /\ {snapshot.mipCallKnown, snapshot.mipCallActive} \subseteq BOOLEAN
  /\ step \in DOMAIN DataSteps
  /\ guardState \in {"Query", "Disconnect", "Complete"}
  /\ Len(channel) <= 2
  /\ modem \in Modems
  /\ callTold \in {"nothing", "up", "down"}

\* The APN on the page is that of the first context the modem listed that has
\* one and is not the operator's IMS channel, among as many contexts as there
\* is room for; a listing that came without any line may leave the APN of the
\* one before, never another one.  No context is shown active that the modem
\* did not tell to be.
FirstNamed(lines) ==
  LET named == {i \in DOMAIN lines :
                  i <= MaxPdpContexts /\ ~IsIms(lines[i].apn) /\ lines[i].apn # ""}
  IN  IF named = {} THEN "" ELSE lines[Min(named)].apn
ContextsShownAsTold ==
  /\ snapshot.apn \in {"", FirstNamed(listed)}
  /\ fresh => snapshot.apn = FirstNamed(listed)
  /\ \A i \in DOMAIN snapshot.contexts :
       snapshot.contexts[i].active => snapshot.contexts[i].cid \in activeTold

\* The data connection on the page is what the modem told last, be it to a
\* query of the status or by confirming the guard's disconnection: no older
\* answer comes back, and "active" does not outlive the news that it is not.
\* The answers to the guard's own query are not among the news:
\* handlePdpGuardResult does not pass them on.
ConnectionShownAsTold ==
  callTold # "nothing" =>
    /\ snapshot.dataConnectionKnown
    /\ snapshot.dataConnectionActive <=> callTold = "up"
=============================================================================
