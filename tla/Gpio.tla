-------------------------------- MODULE Gpio --------------------------------
(***************************************************************************)
(* The gpio-button and gpio-switch modules (pkg/module/gpio).  Access to     *)
(* the pin goes through /dev/mem, which either can be mapped or not.         *)
(***************************************************************************)
EXTENDS ModuleRun

VARIABLES
  pin,     \* level of the pin
  state,   \* Switch.state, "torn" if two Runs have written it at once
  presses, \* how many other Runs hold the button
  pending, \* what each other Run has driven the switch to and not recorded yet
  stuck,   \* history: a button could not be released, or one of two toggles at once was lost
  mixed    \* history: two Runs were between driving a switch and recording it

gpioVars == <<pin, state, presses, pending, stuck, mixed>>
buttonVars == <<presses, stuck>>
switchVars == <<state, pending, mixed>>

flip(level) == IF level = "low" THEN "high" ELSE "low"
(* The level of an idle or switched-off output, and of an active one.        *)
inactive == IF mod.activeLow THEN "high" ELSE "low"
active == flip(inactive)
levelOf(s) == IF s = "on" THEN active ELSE inactive

(* The state and the level that a command of the switch leads to.           *)
newState(command) == IF command = "toggle" THEN (IF state = "on" THEN "off" ELSE "on") ELSE command
newLevel(command) == IF command = "toggle" THEN flip(pin) ELSE levelOf(command)
NonePending == \A i \in 1..MaxOverlap : pending[i] = "none"

(* One operation of the devmem backend.                                     *)
Drives(level) == pin' = level

-----------------------------------------------------------------------------

buttonInit ==
  /\ kind = "button"
  /\ \/ InitReturns(TRUE) /\ Drives(inactive)
     \/ InitReturns(FALSE) /\ UNCHANGED pin
  /\ UNCHANGED <<buttonVars, switchVars>>

(* The press begins.                                                        *)
buttonRun ==
  /\ kind = "button" /\ pc = "begin"
  /\ \/ cmd # <<"badDuration">> /\ To("hold") /\ Drives(flip(pin))
     \/ Return("error") /\ UNCHANGED pin
  /\ UNCHANGED <<buttonVars, switchVars>>

(* Mutant: an interrupted press returns at once.                            *)
buttonReleaseUnlessInterrupted ==
  /\ kind = "button" /\ pc = "hold"
  /\ \/ ~cancelled /\ Return("ok") /\ Drives(flip(pin))
     \/ cancelled /\ Return("error") /\ UNCHANGED pin
  /\ UNCHANGED <<buttonVars, switchVars>>

(* The duration is over, or the context is done: it is released all the same. *)
buttonRelease ==
  /\ kind = "button" /\ pc = "hold"
  /\ \/ /\ \E waitErr \in {FALSE, cancelled} : Return(IF waitErr THEN "error" ELSE "ok")
        /\ Drives(flip(pin)) /\ UNCHANGED stuck
     \/ Return("error") /\ stuck' = TRUE /\ UNCHANGED pin
  /\ UNCHANGED <<presses, switchVars>>

(* A toggle reads the level and writes the other one: of two at once one may  *)
(* be lost.                                                                 *)
OtherToggles ==
  /\ OtherRun /\ UNCHANGED switchVars
  /\ \/ Drives(flip(pin)) /\ UNCHANGED stuck
     \/ stuck' = TRUE /\ UNCHANGED pin

otherPresses == kind = "button" /\ presses < MaxOverlap /\ presses' = presses + 1 /\ OtherToggles
otherReleases == kind = "button" /\ presses > 0 /\ presses' = presses - 1 /\ OtherToggles

(* What is not "on" is "off".                                               *)
initial == IF mod.initial = "on" THEN "on" ELSE "off"

switchInit ==
  /\ kind = "switch"
  /\ state' = initial
  /\ \/ InitReturns(TRUE) /\ Drives(levelOf(initial))
     \/ InitReturns(FALSE) /\ UNCHANGED pin
  /\ UNCHANGED <<pending, mixed, buttonVars>>

(* A drive while another Run has still to record its own mixes them up; one   *)
(* to a given level with nobody beside it puts that right.                   *)
Mixes(command, alone) == mixed' = IF alone THEN mixed /\ command = "toggle" ELSE TRUE

(* Run drives the pin ...                                                   *)
switchRun ==
  /\ kind = "switch" /\ pc = "begin" /\ cmd \in {<<"on">>, <<"off">>, <<"toggle">>}
  /\ \/ To("record") /\ Drives(newLevel(cmd[1])) /\ Mixes(cmd[1], NonePending)
     \/ Return("error") /\ UNCHANGED <<pin, mixed>>
  /\ UNCHANGED <<state, pending, buttonVars>>

(* ... and then records its state, which another Run may do at that moment.  *)
switchRecord ==
  /\ kind = "switch" /\ pc = "record" /\ Return("ok")
  /\ state' \in {newState(cmd[1])} \cup IF NonePending THEN {} ELSE {"torn"}
  /\ UNCHANGED <<pin, pending, mixed, buttonVars>>

switchOther ==
  /\ kind = "switch" /\ pc = "begin" /\ cmd \in {<<>>, <<"bad">>}
  /\ Return(IF cmd = <<>> THEN "ok" ELSE "error")
  /\ UNCHANGED gpioVars

(* The same two steps of another Run.                                       *)
OthersNot(i) == \A j \in (1..MaxOverlap) \ {i} : pending[j] = "none"

otherDrives(i, command) ==
  /\ kind = "switch" /\ OtherRun /\ pending[i] = "none"
  /\ pending' = [pending EXCEPT ![i] = command]
  /\ Drives(newLevel(command)) /\ Mixes(command, pc # "record" /\ NonePending)
  /\ UNCHANGED <<state, buttonVars>>

otherRecords(i) ==
  /\ kind = "switch" /\ OtherRun /\ pending[i] # "none"
  /\ pending' = [pending EXCEPT ![i] = "none"]
  /\ state' \in {newState(pending[i])} \cup IF pc # "record" /\ OthersNot(i) THEN {} ELSE {"torn"}
  /\ UNCHANGED <<pin, mixed, buttonVars>>

(* Deinit of both: low, whatever the idle level is; nothing without Init.    *)
gpioDeinit ==
  /\ kind \in {"button", "switch"} /\ DeinitCalled
  /\ \/ life # "new" /\ Drives("low")
     \/ UNCHANGED pin
  /\ UNCHANGED <<buttonVars, switchVars>>

(* The pin may have any level before Init.                                  *)
GpioInit ==
  /\ pin \in IF kind \in {"button", "switch"} THEN {"low", "high"} ELSE {"low"}
  /\ state = "off" /\ presses = 0 /\ pending = [i \in 1..MaxOverlap |-> "none"] /\ stuck = FALSE /\ mixed = FALSE

GpioStep == buttonInit \/ buttonRun \/ buttonRelease \/ switchInit \/ switchRun \/ switchRecord \/ switchOther \/ gpioDeinit
GpioEnvironment ==
  \/ otherPresses \/ otherReleases
  \/ \E i \in 1..MaxOverlap : otherRecords(i) \/ \E command \in {"on", "off", "toggle"} : otherDrives(i, command)
GpioCall ==
  \/ kind = "button" /\ \E args \in {<<>>, <<"1s">>, <<"badDuration">>} : RunCalled(args)
  \/ kind = "switch" /\ \E args \in {<<>>, <<"on">>, <<"off">>, <<"toggle">>, <<"bad">>} : RunCalled(args)

-----------------------------------------------------------------------------

(* The button is pressed exactly while an odd number of Runs hold it, so     *)
(* toggling brings it back when the last press ends, however the presses     *)
(* overlapped and whichever way each ended.  Except: a release the pin       *)
(* refused, and one of two toggles at the same moment that was lost.         *)
ButtonReleased ==
  kind = "button" /\ life = "ready" /\ ~stuck =>
    pin = IF (presses + IF pc = "hold" THEN 1 ELSE 0) % 2 = 1 THEN active ELSE inactive

(* When no Run is between driving the pin and recording it, the state a      *)
(* switch reports is the state of its pin, also after failures.  Except:     *)
(* after Runs whose two steps mixed, until the next on or off by itself.     *)
SwitchTrue ==
  kind = "switch" /\ life = "ready" /\ pc # "record" /\ NonePending /\ ~mixed => pin = levelOf(state)

(* The pin is where the module says or implies it is, after every Run and    *)
(* in spite of other Runs of the same module at the same time.               *)
GpioTrue == ButtonReleased /\ SwitchTrue
=============================================================================
