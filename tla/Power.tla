-------------------------------- MODULE Power --------------------------------
(***************************************************************************)
(* Outlets switched over HTTP: the pdu module with its two vendors           *)
(* (pkg/module/pdu) and the wifisocket module (pkg/module/wifisocket).  The  *)
(* outlets may also be switched by hand; requests and answers get lost.      *)
(***************************************************************************)
EXTENDS ModuleRun

CONSTANTS
  LastOutlet,    \* the outlets of the device are numbered from 0 to this one
  MaxMeddling    \* how often an outlet is switched by hand or by another Run

PowerKinds == {"gude", "intellinet", "otherVendor", "tasmota"}

(* The outlet of the configuration is a number, and the device has it unless  *)
(* it is negative; a socket counts from 1.                                   *)
ASSUME PowerAssumption ==
  /\ LastOutlet \in Nat /\ MaxMeddling \in Nat
  /\ \A m \in Instances : m.kind \in PowerKinds =>
       /\ m.outlet \in Int
       /\ m.outlet <= IF m.kind = "tasmota" THEN LastOutlet + 1 ELSE LastOutlet

VARIABLES
  outlets,  \* the outlets of the device, numbered from 0
  target,   \* what setPower is about to write
  report,   \* what the Run told the client
  before,   \* history: the module's outlet when the Run began
  seen,     \* history: every state it has been in since, or since it was switched
  meddling  \* how often somebody else has switched an outlet

powerVars == <<outlets, target, report, before, seen, meddling>>

Opposite(s) == IF s = "on" THEN "off" ELSE "on"
(* A socket counts its channels from 1, and takes 1 for what is not positive. *)
Channel == IF mod.outlet <= 0 THEN 1 ELSE mod.outlet
index == IF kind = "tasmota" THEN Channel - 1 ELSE mod.outlet
own == outlets[index]

(* What each device makes of a request (external).                          *)
GudeSwitch(p, s) == [outlets EXCEPT ![p - 1] = IF s = 1 THEN "on" ELSE "off"]
IntellinetControl(n, op) ==
  [outlets EXCEPT ![n] = CASE op = "0" -> "on" [] op = "1" -> "off" [] op = "2" -> Opposite(@)]
Tasmota(channel, word) == [outlets EXCEPT ![channel - 1] = IF word = "toggle" THEN Opposite(@) ELSE word]

(* requester.get, doRequest.  A request may fail before it has any effect    *)
(* or after.                                                                *)
Answered(new) == outlets' = new /\ seen' = {new[index]}
RequestFails(new) ==
  /\ outlets' \in {outlets, new} /\ seen' = seen \cup {outlets'[index]}
  /\ Return("error") /\ UNCHANGED <<target, report, before, meddling>>

-----------------------------------------------------------------------------

(* Init checks the configuration; no request is made.  A PDU needs a known    *)
(* vendor, an absolute URL, an outlet that is not negative and both or        *)
(* neither of user and password; a socket adds the scheme itself and leaves   *)
(* out an incomplete login.                                                  *)
pduConfigured == kind # "otherVendor" /\ mod.host = "url" /\ mod.outlet >= 0 /\ mod.login # "partial"
socketConfigured == mod.host # "none"

powerInit ==
  /\ kind \in PowerKinds
  /\ InitReturns(IF kind = "tasmota" THEN socketConfigured ELSE pduConfigured)
  /\ UNCHANGED powerVars

(* An unknown command fails on a PDU; a socket only says so.                 *)
unknownCommand == Return(IF kind = "tasmota" THEN "ok" ELSE "error")

(* Run: arguments.                                                          *)
powerRun ==
  /\ kind \in PowerKinds /\ pc = "begin"
  /\ before' = own /\ seen' = {own} /\ report' = "none"
  /\ CASE cmd \in {<<>>, <<"bad">>} -> unknownCommand
       [] cmd = <<"status">> -> To("status")
       [] cmd = <<"toggle">> -> To(IF kind = "gude" THEN "read" ELSE "switch")
       [] OTHER -> To("switch")
  /\ target' = IF cmd \in {<<"on">>, <<"off">>} THEN cmd[1] ELSE "none"
  /\ UNCHANGED <<outlets, meddling>>

(* Report of the state; what cannot be parsed is an error.                   *)
powerStatus ==
  /\ kind \in PowerKinds /\ pc = "status"
  /\ \/ Return("ok") /\ report' = own /\ UNCHANGED <<outlets, target, before, seen, meddling>>
     \/ RequestFails(outlets)

(* gude.setPower: a toggle reads the state first ...                        *)
gudeRead ==
  /\ kind = "gude" /\ pc = "read"
  /\ \/ To("switch") /\ target' = Opposite(own) /\ UNCHANGED <<outlets, report, before, seen, meddling>>
     \/ RequestFails(outlets)

(* Gude numbers its ports from 1.                                           *)
gudePort == mod.outlet + 1

(* ... and then switches to what it has made of it.                         *)
gudeSwitch ==
  /\ kind = "gude" /\ pc = "switch"
  /\ LET new == GudeSwitch(gudePort, IF target = "on" THEN 1 ELSE 0) IN
     \/ Return("ok") /\ Answered(new) /\ report' = target /\ UNCHANGED <<target, before, meddling>>
     \/ RequestFails(new)

intellinetOpFor == CASE cmd = <<"on">> -> "0" [] cmd = <<"off">> -> "1" [] cmd = <<"toggle">> -> "2"

(* intellinet.setPower: the answer does not tell the new state.             *)
intellinetSwitch ==
  /\ kind = "intellinet" /\ pc = "switch"
  /\ LET new == IntellinetControl(mod.outlet, intellinetOpFor) IN
     \/ /\ Answered(new) /\ UNCHANGED <<target, before, meddling>>
        /\ IF cmd = <<"toggle">> THEN To("readBack") /\ UNCHANGED report ELSE Return("ok") /\ report' = target
     \/ RequestFails(new)

(* Mutant: the state after a toggle is the one known from before it.         *)
intellinetReadBackGuesses ==
  /\ kind = "intellinet" /\ pc = "readBack"
  /\ Return("ok") /\ report' = before /\ UNCHANGED <<outlets, target, before, seen, meddling>>

intellinetReadBack ==
  /\ kind = "intellinet" /\ pc = "readBack"
  /\ \/ Return("ok") /\ report' = own /\ UNCHANGED <<outlets, target, before, seen, meddling>>
     \/ RequestFails(outlets)

(* WifiSocket.setPower: the answer tells the new state, if it can be parsed. *)
tasmotaSwitch ==
  /\ kind = "tasmota" /\ pc = "switch"
  /\ LET new == Tasmota(Channel, cmd[1]) IN
     \/ /\ Return("ok") /\ Answered(new) /\ UNCHANGED <<target, before, meddling>>
        /\ report' \in {new[index], cmd[1]}
     \/ RequestFails(new)

powerDeinit == kind \in PowerKinds /\ DeinitCalled /\ UNCHANGED powerVars

(* Somebody at the device, or another Run of the same module.               *)
meddle(n) ==
  /\ kind \in PowerKinds /\ pc # "idle" /\ meddling < MaxMeddling
  /\ outlets' = [outlets EXCEPT ![n] = Opposite(@)] /\ seen' = seen \cup {outlets'[index]}
  /\ meddling' = meddling + 1
  /\ UNCHANGED <<target, report, before, runVars>>

PowerInit ==
  /\ outlets \in [0..LastOutlet -> IF kind \in PowerKinds THEN {"on", "off"} ELSE {"off"}]
  /\ target = "none" /\ report = "none" /\ before = "off" /\ seen = {} /\ meddling = 0

PowerStep ==
  \/ powerInit \/ powerRun \/ powerStatus \/ gudeRead \/ gudeSwitch
  \/ intellinetSwitch \/ intellinetReadBack \/ tasmotaSwitch \/ powerDeinit
PowerCall ==
  kind \in PowerKinds /\ \E args \in {<<>>, <<"on">>, <<"off">>, <<"toggle">>, <<"status">>, <<"bad">>} : RunCalled(args)
PowerEnvironment == \E n \in DOMAIN outlets : meddle(n)

-----------------------------------------------------------------------------

(* A state that a Run reports is one the outlet was really in while it ran,  *)
(* and after the Run has switched it if it has: no stale reading, also if     *)
(* somebody else switches the outlet meanwhile.                              *)
ReportedStateSeen ==
  kind \in PowerKinds /\ pc = "idle" /\ report \in {"on", "off"} => report \in seen

(* A Run that succeeds has done what it was told, to its own outlet, if      *)
(* nobody interferes.                                                       *)
PowerDone ==
  kind \in PowerKinds /\ pc = "idle" /\ outcome = "ok" /\ meddling = 0 =>
    own = CASE cmd \in {<<"on">>, <<"off">>} -> cmd[1] [] cmd = <<"toggle">> -> Opposite(before) [] OTHER -> before

(* What a power Run reports and what it did to the outlet are both true.    *)
PowerTrue == ReportedStateSeen /\ PowerDone
=============================================================================
