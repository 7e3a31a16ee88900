---------------------------- MODULE DevicesProofs ----------------------------
(***************************************************************************)
(* Proofs about the device modules, for any set of configured instances,    *)
(* any number of Runs and any number of outlets.                            *)
(***************************************************************************)
EXTENDS Devices, TLAPS, WellFoundedInduction, FiniteSetTheorems

(* One inductive invariant per family of modules; each speaks only of the     *)
(* life of the module and of the family's own variables.                     *)

(* The module's life.  A Run that is under way has been counted.             *)
RunOK == RunTypeOK /\ (pc # "idle" => runs >= 1)

GpioKinds == {"button", "switch"}

(* While one Run alone is between driving a switch and recording it, the pin   *)
(* is where the record will say.                                             *)
SwitchOK ==
  kind = "switch" /\ life = "ready" /\ ~mixed =>
    /\ pc = "record" => NonePending /\ pin = levelOf(newState(cmd[1]))
    /\ \A i \in 1..MaxOverlap : pending[i] # "none" => pin = levelOf(newState(pending[i])) /\ OthersNot(i)

GpioOK ==
  /\ pin \in {"low", "high"} /\ state \in {"on", "off", "torn"} /\ mixed \in BOOLEAN
  /\ presses \in 0..MaxOverlap /\ pending \in [1..MaxOverlap -> {"none", "on", "off", "toggle"}]
  /\ (kind = "switch" => pc \in {"idle", "begin", "record"})
  /\ (kind = "switch" /\ pc = "record" => cmd \in {<<"on">>, <<"off">>, <<"toggle">>})
  /\ (kind = "button" => pc \in {"idle", "begin", "hold"})
  /\ (kind \in GpioKinds /\ life \in {"new", "failed"} => presses = 0 /\ NonePending)
  /\ SwitchOK /\ GpioTrue

PowerArgs == {<<>>, <<"on">>, <<"off">>, <<"toggle">>, <<"status">>, <<"bad">>}

(* Before the request that switches has been answered, the outlet is as the   *)
(* Run found it, if nobody meddles; what the Run has seen includes the state   *)
(* it is in; and what is about to be written is what was asked for.           *)
Working ==
  /\ report = "none" /\ own \in seen
  /\ pc \in {"status", "read", "switch", "readBack"}
  /\ pc = "status" => cmd = <<"status">>
  /\ pc = "read" => kind = "gude" /\ cmd = <<"toggle">>
  /\ pc = "readBack" => kind = "intellinet" /\ cmd = <<"toggle">>
  /\ pc = "switch" => cmd \in {<<"on">>, <<"off">>, <<"toggle">>}
  /\ pc = "switch" /\ cmd \in {<<"on">>, <<"off">>} => target = cmd[1]
  /\ pc = "switch" /\ cmd = <<"toggle">> /\ kind = "gude" =>
       target \in {"on", "off"} /\ (meddling = 0 => target = Opposite(before))
  /\ meddling = 0 => own = IF pc = "readBack" THEN Opposite(before) ELSE before

PowerOK ==
  /\ outlets \in [0..LastOutlet -> {"on", "off"}] /\ report \in {"none", "on", "off", "toggle"}
  /\ meddling \in Nat
  /\ kind \in PowerKinds =>
       /\ cmd \in PowerArgs /\ (life = "ready" \/ pc # "idle" => index \in 0..LastOutlet)
       /\ pc \notin {"idle", "begin"} => Working
  /\ PowerTrue

(* Every request of this Run that was carried out went unanswered so far, and  *)
(* there were no more than the attempts allow.  Without other Runs the second   *)
(* attempt is made on a session that has just been opened.                   *)
IpmiOK ==
  /\ session \in {"none", "live", "stale"} /\ tries \in 0..3
  /\ executed \in Nat /\ faults \in Nat /\ unanswered \in Nat
  /\ kind = "ipmi" =>
       /\ pc \in {"idle", "begin", "connect", "op", "reconnect", "retry"}
       /\ pc \in {"connect", "op", "reconnect", "retry"} => executed = unanswered
       /\ pc = "connect" => executed = 0
       /\ pc = "op" => executed <= tries
       /\ pc = "reconnect" => executed <= 4
       /\ pc = "retry" => executed <= 4 + tries
       /\ ~overlapped =>
            /\ pc = "op" => session # "none"
            /\ pc = "reconnect" => session = "none"
            /\ pc = "retry" => session = "live"
  /\ RetriedOnce

ExecKinds == {"shell", "flash", "emulate"}

(* While a command runs, and what it leaves behind.                          *)
ExecOK ==
  /\ group \subseteq {"tool", "child"} /\ exit \in {"running", "ok", "failed", "killed"}
  /\ signalled \in BOOLEAN /\ forced \in BOOLEAN
  /\ pc = "exec" =>
       /\ kind \in ExecKinds /\ ("tool" \in group <=> exit = "running")
       /\ signalled /\ kind # "flash" => group = {}
       /\ kind = "flash" /\ exit = "killed" => forced
  /\ pc # "exec" /\ group # {} => forced /\ group = {"child"} /\ (signalled => kind = "flash")

(* The image on its way, if nobody else touches what it passes through.      *)
ImageOK ==
  /\ pc = "exec" /\ exit = "ok" => ~half
  /\ ~overlapped =>
       /\ pc \in {"upload", "start", "exec", "download"} => op = cmd[1] /\ op \in {"read", "write"}
       /\ pc = "exec" => doing = op
       /\ pc \in {"start", "exec"} /\ op = "write" /\ ~disturbed => image = Sent
       /\ pc = "exec" /\ exit = "ok" /\ ~disturbed => IF op = "write" THEN chip = Sent ELSE image = chip
       /\ pc = "download" => op = "read" /\ (~disturbed => image = chip)

(* The file of the emulator is known to the instance, or exposed.            *)
EmulatedOK ==
  /\ pc \in {"upload", "exec"} => runs \in localPath \cup exposed
  /\ pc = "create" => localPath \subseteq exposed
  /\ life = "gone" /\ pc # "idle" => runs \in exposed

FlashOK ==
  /\ files \subseteq 1..(MaxRuns + 1) /\ localPath \subseteq 0..(MaxRuns + 1)
  /\ (kind = "flash" => ImageOK) /\ (kind = "emulate" => EmulatedOK)
  /\ FlashTrue /\ NoFilesLeft

(* The destination of an upload that came from the arguments does not leave   *)
(* the directory, unless it names one, and then it is never opened.          *)
PathOK ==
  kind = "file" =>
    /\ pc = "begin" => cmd \in FileArgs
    /\ mod.destination = NoPath /\ ~overlapped =>
         /\ pc = "upload" => IsDir(paths.dest) \/ ~Escapes(paths.dest)
         /\ pc = "copy" => ~Escapes(paths.dest)

(* A file is open for writing only during the copy.                          *)
FileOK ==
  /\ dest \in {"absent", "old", "new", "partial"}
  /\ kind = "file" =>
       /\ life = "ready" \/ pc # "idle" => mod.operation \in {"upload", "download"}
       /\ pc \in {"idle", "begin", "upload", "copy", "download"}
       /\ pc \in {"upload", "copy"} => mod.operation = "upload"
       /\ pc = "download" => mod.operation = "download"
       /\ pc \in {"upload", "download"} /\ ~overlapped => dest # "partial"
  /\ UploadWhole /\ PathOK /\ StaysInside

(* A connection lives only within a Run of ssh.                              *)
RemoteOK ==
  /\ client \in {"none", "open", "closed"}
  /\ client # "none" => kind = "ssh" /\ pc \in {"session", "command"}

DevicesInv == RunOK /\ GpioOK /\ PowerOK /\ IpmiOK /\ ExecOK /\ FlashOK /\ FileOK /\ RemoteOK
-----------------------------------------------------------------------------
(* A family that the module does not belong to is not concerned by its steps. *)

(* Steps of other modules leave what is said of button and switch alone.     *)
LEMMA GpioStays ==
  ASSUME GpioOK, kind \notin GpioKinds, UNCHANGED <<mod, gpioVars>>
  PROVE  GpioOK'
BY DEF GpioOK, GpioKinds, gpioVars, kind, GpioTrue, ButtonReleased, SwitchTrue, SwitchOK

(* The same for the sockets of pdu and wifisocket.                           *)
LEMMA PowerStays ==
  ASSUME PowerOK, kind \notin PowerKinds, UNCHANGED <<mod, powerVars>>
  PROVE  PowerOK'
BY DEF PowerOK, powerVars, kind, PowerTrue, ReportedStateSeen, PowerDone

(* The same for the ipmi session.                                            *)
LEMMA IpmiStays ==
  ASSUME IpmiOK, kind # "ipmi", UNCHANGED <<mod, ipmiVars>>
  PROVE  IpmiOK'
BY DEF IpmiOK, ipmiVars, kind, RetriedOnce, StaleSessionHeals, CarriedOut

(* The same for the processes a module runs.                                 *)
LEMMA ExecStays ==
  ASSUME ExecOK, kind \notin ExecKinds, pc' # "exec", UNCHANGED <<mod, execVars>>
  PROVE  ExecOK'
BY DEF ExecOK, execVars, kind

(* The same for the flash chip and the files of flash and flash-emulate.     *)
LEMMA FlashStays ==
  ASSUME FlashOK, kind \notin {"flash", "emulate"}, UNCHANGED <<mod, flashVars>>
  PROVE  FlashOK'
BY DEF FlashOK, flashVars, kind, FlashTrue, NoFilesLeft

(* The same for the destination of a file transfer.                          *)
LEMMA FileStays ==
  ASSUME FileOK, kind # "file", UNCHANGED <<mod, fileVars>>
  PROVE  FileOK'
BY DEF FileOK, fileVars, kind, UploadWhole, PathOK, StaysInside

(* The same for the ssh connection.                                          *)
LEMMA RemoteStays ==
  ASSUME RemoteOK, kind # "ssh", UNCHANGED <<mod, remoteVars>>
  PROVE  RemoteOK'
BY DEF RemoteOK, remoteVars, kind

-----------------------------------------------------------------------------
(* The steps of a module's life keep RunOK.                                  *)
LEMMA RunSteps ==
  ASSUME RunOK
  PROVE  /\ \A place : place # "idle" /\ pc # "idle" /\ To(place) => RunOK'
         /\ \A result \in {"ok", "error"} : Return(result) => RunOK'
         /\ \A ok \in BOOLEAN : InitReturns(ok) => RunOK' /\ pc = "idle" /\ outcome' = outcome /\ pc' = pc
         /\ \A args : RunCalled(args) => RunOK'
         /\ Cancel => RunOK'
         /\ DeinitCalled => RunOK' /\ UNCHANGED <<mod, pc, cmd, outcome, runs>> /\ life' = "gone"
         /\ OtherRun => RunOK' /\ UNCHANGED <<mod, life, pc, cmd, outcome, runs>>
         /\ UNCHANGED runVars => RunOK'
<1> USE ModuleRunAssumption DEF RunOK, RunTypeOK
<1>1. ASSUME NEW place, place # "idle", pc # "idle", To(place) PROVE RunOK'
  BY <1>1 DEF To
<1>2. ASSUME NEW result \in {"ok", "error"}, Return(result) PROVE RunOK'
  BY <1>2 DEF Return
<1>3. ASSUME NEW ok \in BOOLEAN, InitReturns(ok)
      PROVE  RunOK' /\ pc = "idle" /\ outcome' = outcome /\ pc' = pc
  BY <1>3 DEF InitReturns
<1>4. ASSUME NEW args, RunCalled(args) PROVE RunOK'
  <2>1. overlapped' \in BOOLEAN
    BY <1>4, Zenon DEF RunCalled
  <2> QED
    BY <1>4, <2>1 DEF RunCalled
<1>5. Cancel => RunOK'
  BY DEF Cancel
<1>6. DeinitCalled => RunOK' /\ UNCHANGED <<mod, pc, cmd, outcome, runs>> /\ life' = "gone"
  <2>1. DeinitCalled => overlapped' \in BOOLEAN
    BY Zenon DEF DeinitCalled
  <2>2. DeinitCalled => UNCHANGED <<mod, pc, cmd, cancelled, outcome, runs>> /\ life' = "gone"
    BY DEF DeinitCalled
  <2> QED
    BY <2>1, <2>2
<1>7. UNCHANGED runVars => RunOK'
  BY DEF runVars
<1>8. OtherRun => RunOK' /\ UNCHANGED <<mod, life, pc, cmd, outcome, runs>>
  <2>1. OtherRun => overlapped' \in BOOLEAN
    BY Zenon DEF OtherRun
  <2> QED
    BY <2>1 DEF OtherRun
<1> QED
  BY <1>1, <1>2, <1>3, <1>4, <1>5, <1>6, <1>7, <1>8

-----------------------------------------------------------------------------
(* The gpio modules.  Of a button only the pin, the number of presses and     *)
(* what has gone wrong matter, of a switch the other variables.              *)
LEMMA ButtonKeeps ==
  ASSUME GpioOK, kind = "button", UNCHANGED <<mod, switchVars>>, pin' \in {"low", "high"},
         presses' \in 0..MaxOverlap, pc' \in {"idle", "begin", "hold"},
         life' \in {"new", "failed"} => life = "new" /\ UNCHANGED presses, ButtonReleased'
  PROVE  GpioOK'
BY DEF GpioOK, GpioTrue, SwitchTrue, SwitchOK, NonePending, kind, switchVars, GpioKinds

LEMMA SwitchKeeps ==
  ASSUME GpioOK, kind = "switch", UNCHANGED <<mod, presses>>, pin' \in {"low", "high"},
         state' \in {"on", "off", "torn"}, mixed' \in BOOLEAN,
         pending' \in [1..MaxOverlap -> {"none", "on", "off", "toggle"}], pc' \in {"idle", "begin", "record"},
         pc' = "record" => cmd' \in {<<"on">>, <<"off">>, <<"toggle">>}, SwitchOK', SwitchTrue',
         life' \in {"new", "failed"} => life = "new" /\ UNCHANGED pending
  PROVE  GpioOK'
BY DEF GpioOK, GpioTrue, ButtonReleased, NonePending, kind, GpioKinds

(* One press more or less turns odd into even.                              *)
LEMMA Parity ==
  ASSUME NEW n \in Nat
  PROVE  /\ (n + 1) % 2 = 1 <=> n % 2 # 1
         /\ n # 0 => ((n - 1) % 2 = 1 <=> n % 2 # 1)
         /\ n + 0 = n
OBVIOUS

(* Whoever toggles the pin of a button takes a press more or less into       *)
(* account.                                                                  *)
LEMMA Toggled ==
  ASSUME GpioOK, kind = "button", UNCHANGED <<mod, life>>, NEW n \in Nat, NEW m \in Nat,
         n = presses + (IF pc = "hold" THEN 1 ELSE 0), m = presses' + (IF pc' = "hold" THEN 1 ELSE 0),
         m = n + 1 \/ n = m + 1, (pin' = flip(pin) /\ UNCHANGED stuck) \/ (UNCHANGED pin /\ stuck' = TRUE)
  PROVE  ButtonReleased' /\ pin' \in {"low", "high"}
<1>1. m % 2 = 1 <=> n % 2 # 1
  BY Parity
<1>2. pin' \in {"low", "high"}
  BY DEF GpioOK, flip
<1>3. CASE pin' = flip(pin) /\ UNCHANGED stuck
  BY <1>1, <1>2, <1>3 DEF GpioOK, GpioTrue, ButtonReleased, kind, flip, active, inactive
<1>4. CASE UNCHANGED pin /\ stuck' = TRUE
  <2>1. stuck'
    BY <1>4, Zenon
  <2> QED
    BY <1>2, <2>1 DEF ButtonReleased
<1> QED
  BY <1>3, <1>4

(* What a command of the switch does to the pin is what its record will say,  *)
(* if the record was right before it, or if the command does not care.       *)
LEMMA DrivenAsRecorded ==
  ASSUME NEW command \in {"on", "off", "toggle"}, pin' = newLevel(command), UNCHANGED <<mod, state>>,
         pin \in {"low", "high"}, command = "toggle" => pin = levelOf(state)
  PROVE  pin' = levelOf(newState(command))' /\ pin' \in {"low", "high"}
BY DEF newLevel, newState, levelOf, flip, active, inactive

LEMMA GpioSteps ==
  ASSUME RunOK, GpioOK, GpioStep
  PROVE  RunOK' /\ GpioOK' /\ kind \in GpioKinds /\ UNCHANGED mod /\ pc' # "exec"
<1> USE DEF GpioKinds
<1>0. pin \in {"low", "high"} /\ presses \in 0..MaxOverlap /\ presses \in Nat /\ presses + 0 = presses
  BY ModuleRunAssumption DEF GpioOK
<1>1. CASE buttonInit
  <2>1. /\ kind = "button" /\ UNCHANGED <<mod, pc, buttonVars, switchVars>>
        /\ life' = "ready" => pin' = inactive
        /\ pin' \in {inactive, pin} /\ RunOK' /\ pc = "idle" /\ life = "new" /\ kind' = kind /\ inactive' = inactive
    BY <1>1, RunSteps DEF buttonInit, InitReturns, Drives, kind, inactive
  <2>2. presses = 0
    BY <2>1 DEF GpioOK
  <2>3. ButtonReleased'
    BY <1>0, <2>1, <2>2 DEF ButtonReleased, buttonVars
  <2>4. pin' \in {"low", "high"}
    BY <1>0, <2>1 DEF inactive
  <2> QED
    BY <1>0, <2>1, <2>3, <2>4, ButtonKeeps DEF buttonVars
<1>2. CASE buttonRun
  <2>1. kind = "button" /\ pc = "begin" /\ UNCHANGED <<presses, stuck, switchVars>> /\ life \notin {"new", "failed"}
    BY <1>2 DEF buttonRun, buttonVars, RunOK, RunTypeOK
  <2>2. CASE To("hold") /\ Drives(flip(pin))
    <3>1. RunOK' /\ UNCHANGED <<mod, life>> /\ pc' = "hold"
      BY <2>1, <2>2, RunSteps DEF To
    <3>2. ButtonReleased' /\ pin' \in {"low", "high"}
      <4>1. presses + 1 \in Nat
        BY <1>0
      <4> QED
        BY <1>0, <2>1, <2>2, <3>1, <4>1, Toggled DEF Drives
    <3> QED
      BY <1>0, <2>1, <3>1, <3>2, ButtonKeeps
  <2>3. CASE Return("error") /\ UNCHANGED pin
    <3>1. RunOK' /\ UNCHANGED <<mod, life>> /\ pc' = "idle"
      BY <2>3, RunSteps DEF Return
    <3>2. ButtonReleased'
      BY <2>1, <2>3, <3>1 DEF GpioOK, GpioTrue, ButtonReleased, kind, active, inactive, flip
    <3> QED
      BY <1>0, <2>1, <2>3, <3>1, <3>2, ButtonKeeps
  <2> QED
    BY <1>2, <2>2, <2>3 DEF buttonRun
<1>3. CASE buttonRelease
  <2>1. PICK result \in {"ok", "error"} :
          Return(result) /\ ((pin' = flip(pin) /\ UNCHANGED stuck) \/ (UNCHANGED pin /\ stuck' = TRUE))
    BY <1>3, Zenon DEF buttonRelease, Drives
  <2>2. RunOK' /\ UNCHANGED <<mod, life>> /\ pc' = "idle"
    BY <2>1, RunSteps DEF Return
  <2>3. kind = "button" /\ pc = "hold" /\ UNCHANGED <<presses, switchVars>> /\ life \notin {"new", "failed"}
    BY <1>3 DEF buttonRelease, RunOK, RunTypeOK
  <2>4. ButtonReleased' /\ pin' \in {"low", "high"}
    <3>1. presses + 1 \in Nat
      BY <1>0
    <3> QED
      BY <1>0, <2>1, <2>2, <2>3, <3>1, Toggled
  <2> QED
    BY <1>0, <2>2, <2>3, <2>4, ButtonKeeps
<1>4. CASE switchInit
  <2>1. /\ kind = "switch" /\ UNCHANGED <<mod, pc, cmd, pending, mixed, presses>>
        /\ state' = initial /\ initial \in {"on", "off"} /\ (life' = "ready" => pin' = levelOf(initial))
        /\ pin' \in {levelOf(initial), pin} /\ RunOK' /\ pc = "idle" /\ life = "new"
        /\ levelOf(initial)' = levelOf(initial) /\ initial' = initial /\ kind' = kind
    BY <1>4, RunSteps DEF switchInit, InitReturns, Drives, kind, inactive, active, levelOf, initial, buttonVars, flip
  <2>2. NonePending
    BY <2>1 DEF GpioOK
  <2>3. pin' \in {"low", "high"}
    BY <1>0, <2>1 DEF levelOf, active, inactive, flip
  <2>4. SwitchOK' /\ SwitchTrue'
    BY <2>1, <2>2 DEF SwitchOK, SwitchTrue, NonePending
  <2> QED
    BY <2>1, <2>3, <2>4, SwitchKeeps DEF GpioOK
<1>5. CASE switchRun
  <2>1. /\ kind = "switch" /\ pc = "begin" /\ UNCHANGED <<state, pending, presses>> /\ life \notin {"new", "failed"}
        /\ cmd \in {<<"on">>, <<"off">>, <<"toggle">>} /\ cmd[1] \in {"on", "off", "toggle"}
    BY <1>5 DEF switchRun, buttonVars, RunOK, RunTypeOK
  <2>2. CASE To("record") /\ pin' = newLevel(cmd[1]) /\ Mixes(cmd[1], NonePending)
    <3>1. RunOK' /\ UNCHANGED <<mod, life, cmd>> /\ pc' = "record"
      BY <2>1, <2>2, RunSteps DEF To
    <3>2. mixed' \in BOOLEAN /\ (~mixed' => NonePending /\ (cmd[1] = "toggle" => ~mixed))
      BY <2>2, Zenon DEF Mixes, GpioOK
    <3>3. pin' \in {"low", "high"}
      BY <1>0, <2>2 DEF newLevel, levelOf, flip, active, inactive
    <3>4. ASSUME life = "ready", ~mixed' PROVE NonePending /\ NonePending' /\ pin' = levelOf(newState(cmd[1]))'
      <4>1. NonePending /\ NonePending'
        BY <2>1, <3>2, <3>4 DEF NonePending
      <4>2. cmd[1] = "toggle" => pin = levelOf(state)
        BY <2>1, <3>2, <3>4, <4>1 DEF GpioOK, GpioTrue, SwitchTrue
      <4>3. PICK command \in {"on", "off", "toggle"} : command = cmd[1]
        BY <2>1
      <4>4. pin' = levelOf(newState(command))'
        BY <1>0, <2>1, <2>2, <3>1, <4>2, <4>3, DrivenAsRecorded
      <4>5. levelOf(newState(command))' = levelOf(newState(cmd[1]))'
        BY <3>1, <4>3 DEF newState
      <4> QED
        BY <4>1, <4>4, <4>5
    <3>5. SwitchOK' /\ SwitchTrue'
      BY <3>1, <3>4 DEF SwitchOK, SwitchTrue, NonePending
    <3> QED
      BY <2>1, <3>1, <3>2, <3>3, <3>5, SwitchKeeps DEF GpioOK
  <2>3. CASE Return("error") /\ UNCHANGED <<pin, mixed>>
    <3>1. RunOK' /\ UNCHANGED <<mod, life, cmd>> /\ pc' = "idle"
      BY <2>3, RunSteps DEF Return
    <3>2. SwitchOK' /\ SwitchTrue'
      BY <2>1, <2>3, <3>1 DEF GpioOK, GpioTrue, SwitchOK, SwitchTrue, NonePending, OthersNot, levelOf, newState, active,
         inactive, flip, kind
    <3> QED
      BY <1>0, <2>1, <2>3, <3>1, <3>2, SwitchKeeps DEF GpioOK
  <2> QED
    BY <1>5, <2>2, <2>3 DEF switchRun, Drives
<1>6. CASE switchRecord
  <2>1. /\ kind = "switch" /\ pc = "record" /\ UNCHANGED <<pin, pending, mixed, presses>> /\ life \notin {"new", "failed"}
        /\ cmd \in {<<"on">>, <<"off">>, <<"toggle">>} /\ cmd[1] \in {"on", "off", "toggle"} /\ Return("ok")
    BY <1>6 DEF switchRecord, buttonVars, RunOK, RunTypeOK, GpioOK
  <2>2. RunOK' /\ UNCHANGED <<mod, life, cmd>> /\ pc' = "idle"
    BY <2>1, RunSteps DEF Return
  <2>3. state' \in {"on", "off", "torn"} /\ (NonePending => state' = newState(cmd[1]))
    BY <1>6, <2>1 DEF switchRecord, newState
  <2>4. ASSUME life = "ready", ~mixed PROVE NonePending /\ pin' = levelOf(state)'
    <3>1. NonePending /\ pin = levelOf(newState(cmd[1]))
      BY <2>1, <2>4 DEF GpioOK, SwitchOK
    <3> QED
      BY <2>1, <2>2, <2>3, <3>1 DEF levelOf, active, inactive, flip
  <2>5. SwitchOK' /\ SwitchTrue'
    BY <2>1, <2>2, <2>4 DEF SwitchOK, SwitchTrue, NonePending
  <2> QED
    BY <1>0, <2>1, <2>2, <2>3, <2>5, SwitchKeeps DEF GpioOK
<1>7. CASE switchOther
  <2>1. /\ kind = "switch" /\ pc = "begin" /\ UNCHANGED gpioVars /\ life \notin {"new", "failed"}
        /\ Return("ok") \/ Return("error")
    BY <1>7 DEF switchOther, RunOK, RunTypeOK
  <2>2. RunOK' /\ UNCHANGED <<mod, life, cmd>> /\ pc' = "idle"
    BY <2>1, RunSteps DEF Return
  <2>3. SwitchOK' /\ SwitchTrue'
    BY <2>1, <2>2 DEF GpioOK, GpioTrue, SwitchOK, SwitchTrue, NonePending, OthersNot, levelOf, newState, active,
       inactive, flip, kind, gpioVars
  <2> QED
    BY <1>0, <2>1, <2>2, <2>3, SwitchKeeps DEF GpioOK, gpioVars
<1>8. CASE gpioDeinit
  <2>1. /\ kind \in GpioKinds /\ RunOK' /\ UNCHANGED <<mod, pc, cmd, presses, state, pending, mixed>> /\ life' = "gone"
        /\ pin' \in {"low", "high"} /\ kind' = kind /\ UNCHANGED switchVars
    BY <1>0, <1>8, RunSteps DEF gpioDeinit, buttonVars, switchVars, Drives, kind
  <2>2. ButtonReleased' /\ SwitchOK' /\ SwitchTrue'
    BY <2>1 DEF ButtonReleased, SwitchOK, SwitchTrue
  <2>3. CASE kind = "button"
    BY <1>0, <2>1, <2>2, <2>3, ButtonKeeps DEF GpioOK
  <2>4. CASE kind = "switch"
    BY <1>0, <2>1, <2>2, <2>4, SwitchKeeps DEF GpioOK
  <2> QED
    BY <2>1, <2>3, <2>4, RunSteps DEF GpioOK
<1> QED
  BY <1>1, <1>2, <1>3, <1>4, <1>5, <1>6, <1>7, <1>8 DEF GpioStep

(* Other presses and other Runs of a switch between the steps of this one.   *)
LEMMA GpioHappens ==
  ASSUME RunOK, GpioOK, GpioEnvironment
  PROVE  RunOK' /\ GpioOK' /\ kind \in GpioKinds /\ UNCHANGED <<mod, pc>>
<1> USE DEF GpioKinds
<1>0. pin \in {"low", "high"} /\ presses \in 0..MaxOverlap /\ presses \in Nat /\ MaxOverlap \in Nat
  BY ModuleRunAssumption DEF GpioOK
<1>1. CASE otherPresses \/ otherReleases
  <2>1. /\ kind = "button" /\ OtherRun /\ UNCHANGED switchVars /\ presses' \in 0..MaxOverlap
        /\ presses' = presses + 1 \/ presses = presses' + 1
    BY <1>0, <1>1 DEF otherPresses, otherReleases, OtherToggles
  <2>2. (pin' = flip(pin) /\ UNCHANGED stuck) \/ (UNCHANGED pin /\ stuck' = TRUE)
    BY <1>1 DEF otherPresses, otherReleases, OtherToggles, Drives
  <2>3. RunOK' /\ UNCHANGED <<mod, life, pc, cmd>> /\ life \notin {"new", "failed"}
    BY <2>1, RunSteps DEF OtherRun
  <2>4. PICK h \in {0, 1} : h = IF pc = "hold" THEN 1 ELSE 0
    OBVIOUS
  <2>5. presses + h \in Nat /\ presses' + h \in Nat /\ (presses' + h = presses + h + 1 \/ presses + h = presses' + h + 1)
    <3>1. ASSUME NEW n \in Nat, NEW m \in Nat, m = n + 1 \/ n = m + 1
          PROVE  n + h \in Nat /\ m + h \in Nat /\ (m + h = n + h + 1 \/ n + h = m + h + 1)
      BY <3>1
    <3>2. presses \in Nat /\ presses' \in Nat
      BY <1>0, <2>1
    <3> QED
      BY <2>1, <3>1, <3>2
  <2>6. ButtonReleased' /\ pin' \in {"low", "high"}
    BY <2>1, <2>2, <2>3, <2>4, <2>5, Toggled
  <2> QED
    BY <2>1, <2>3, <2>6, ButtonKeeps DEF GpioOK
<1>2. ASSUME NEW i \in 1..MaxOverlap, NEW command \in {"on", "off", "toggle"}, otherDrives(i, command)
      PROVE  RunOK' /\ GpioOK' /\ kind \in GpioKinds /\ UNCHANGED <<mod, pc>>
  <2>1. /\ kind = "switch" /\ pending[i] = "none" /\ pending' = [pending EXCEPT ![i] = command] /\ UNCHANGED <<state, presses>>
        /\ pin' = newLevel(command) /\ OtherRun
    BY <1>2 DEF otherDrives, Drives, buttonVars
  <2>2. RunOK' /\ UNCHANGED <<mod, life, pc, cmd>> /\ life \notin {"new", "failed"}
    BY <2>1, RunSteps DEF OtherRun
  <2>3. mixed' \in BOOLEAN /\ (~mixed' => pc # "record" /\ NonePending /\ (command = "toggle" => ~mixed))
    BY <1>2, Zenon DEF otherDrives, Mixes, GpioOK
  <2>4. pin' \in {"low", "high"}
    BY <1>0, <2>1 DEF newLevel, levelOf, flip, active, inactive
  <2>5. /\ pending' \in [1..MaxOverlap -> {"none", "on", "off", "toggle"}] /\ pending'[i] = command
        /\ \A j \in 1..MaxOverlap : j # i => pending'[j] = pending[j]
    BY <2>1 DEF GpioOK
  <2>6. ASSUME life = "ready", ~mixed'
        PROVE  /\ pc # "record" /\ pin' = levelOf(newState(command))'
               /\ \A j \in 1..MaxOverlap : j # i => pending'[j] = "none"
    <3>1. pc # "record" /\ NonePending
      BY <2>3, <2>6
    <3>2. command = "toggle" => pin = levelOf(state)
      BY <2>1, <2>3, <2>6, <3>1 DEF GpioOK, GpioTrue, SwitchTrue
    <3>3. pin' = levelOf(newState(command))'
      BY <1>0, <2>1, <2>2, <3>2, DrivenAsRecorded
    <3> QED
      BY <2>5, <3>1, <3>3 DEF NonePending
  <2>7. SwitchOK' /\ SwitchTrue'
    <3>1. ASSUME life = "ready", ~mixed', NEW j \in 1..MaxOverlap, pending'[j] # "none"
          PROVE  pin' = levelOf(newState(pending[j]))' /\ OthersNot(j)'
      <4>1. j = i
        BY <2>6, <3>1
      <4>2. OthersNot(i)'
        BY <2>6, <3>1 DEF OthersNot
      <4>3. levelOf(newState(command))' = levelOf(newState(pending[i]))'
        BY <2>5 DEF newState
      <4> QED
        BY <2>6, <3>1, <4>1, <4>2, <4>3
    <3>2. ~NonePending'
      BY <2>5 DEF NonePending
    <3> QED
      BY <2>2, <2>6, <3>1, <3>2 DEF SwitchOK, SwitchTrue
  <2> QED
    BY <2>1, <2>2, <2>3, <2>4, <2>5, <2>7, SwitchKeeps DEF GpioOK
<1>3. ASSUME NEW i \in 1..MaxOverlap, otherRecords(i)
      PROVE  RunOK' /\ GpioOK' /\ kind \in GpioKinds /\ UNCHANGED <<mod, pc>>
  <2>1. /\ kind = "switch" /\ pending[i] # "none" /\ pending' = [pending EXCEPT ![i] = "none"]
        /\ UNCHANGED <<pin, mixed, presses>> /\ OtherRun
        /\ pending[i] \in {"on", "off", "toggle"}
    BY <1>3 DEF otherRecords, buttonVars, GpioOK
  <2>2. RunOK' /\ UNCHANGED <<mod, life, pc, cmd>> /\ life \notin {"new", "failed"}
    BY <2>1, RunSteps DEF OtherRun
  <2>3. state' \in {"on", "off", "torn"} /\ (pc # "record" /\ OthersNot(i) => state' = newState(pending[i]))
    BY <1>3, <2>1 DEF otherRecords, newState
  <2>4. /\ pending' \in [1..MaxOverlap -> {"none", "on", "off", "toggle"}] /\ pending'[i] = "none"
        /\ \A j \in 1..MaxOverlap : j # i => pending'[j] = pending[j]
    BY <2>1 DEF GpioOK
  <2>5. ASSUME life = "ready", ~mixed PROVE pc # "record" /\ NonePending' /\ pin' = levelOf(state)'
    <3>1. pc # "record" /\ OthersNot(i) /\ pin = levelOf(newState(pending[i]))
      BY <2>1, <2>5 DEF GpioOK, SwitchOK, NonePending
    <3>2. NonePending'
      BY <2>4, <3>1 DEF OthersNot, NonePending
    <3> QED
      BY <2>1, <2>2, <2>3, <3>1, <3>2 DEF levelOf, active, inactive, flip
  <2>6. SwitchOK' /\ SwitchTrue'
    BY <2>1, <2>2, <2>5 DEF SwitchOK, SwitchTrue, NonePending
  <2> QED
    BY <1>0, <2>1, <2>2, <2>3, <2>4, <2>6, SwitchKeeps DEF GpioOK
<1> QED
  BY <1>1, <1>2, <1>3 DEF GpioEnvironment

(* A call of a gpio module starts from what the last one left.               *)
LEMMA GpioCalls ==
  ASSUME GpioOK, GpioCall, UNCHANGED gpioVars
  PROVE  GpioOK' /\ kind \in GpioKinds
<1>1. /\ kind \in GpioKinds /\ UNCHANGED <<mod, life, gpioVars>> /\ pc = "idle" /\ pc' = "begin" /\ life = "ready"
      /\ kind' = kind
  BY DEF GpioCall, RunCalled, GpioKinds, kind
<1>2. ButtonReleased' /\ SwitchOK' /\ SwitchTrue'
  BY <1>1 DEF GpioOK, GpioTrue, ButtonReleased, SwitchOK, SwitchTrue, NonePending, OthersNot, levelOf, newState, active,
     inactive, flip, gpioVars
<1> QED
  BY <1>1, <1>2 DEF GpioOK, GpioTrue, NonePending, gpioVars

-----------------------------------------------------------------------------
(* The outlets.                                                             *)

(* The outlet that a module switches is one the device has.                  *)
LEMMA OutletExists ==
  ASSUME RunOK, kind \in PowerKinds, (IF kind = "tasmota" THEN socketConfigured ELSE pduConfigured)
  PROVE  index \in 0..LastOutlet
<1> USE PowerAssumption DEF RunOK, RunTypeOK, kind, PowerKinds
<1>1. CASE kind = "tasmota"
  BY <1>1 DEF index, Channel
<1>2. CASE kind # "tasmota"
  BY <1>2 DEF index, pduConfigured
<1> QED
  BY <1>1, <1>2

(* A request that fails leaves the outlet in a state it was seen in.         *)
LEMMA PowerFails ==
  ASSUME RunOK, PowerOK, kind \in PowerKinds, pc \notin {"idle", "begin"},
         NEW new \in [0..LastOutlet -> {"on", "off"}], RequestFails(new)
  PROVE  RunOK' /\ PowerOK' /\ UNCHANGED mod /\ pc' # "exec"
<1> Return("error") /\ kind' = kind /\ index' = index
  BY DEF RequestFails, Return, kind, index, Channel
<1>1. RunOK'
  BY RunSteps
<1>2. outlets' \in [0..LastOutlet -> {"on", "off"}] /\ report' = "none" /\ meddling' = meddling
  BY DEF RequestFails, PowerOK, Working
<1>3. cmd' = cmd /\ life' = life /\ pc' = "idle" /\ outcome' = "error"
  BY DEF Return
<1>4. PowerTrue'
  BY <1>2, <1>3 DEF PowerTrue, ReportedStateSeen, PowerDone
<1> QED
  BY <1>1, <1>2, <1>3, <1>4 DEF PowerOK, Return


(* A Run of a power module that ends well, having left its outlet as it was    *)
(* told to and having reported nothing but the state it is in.               *)
LEMMA PowerEnds ==
  ASSUME RunOK, PowerOK, kind \in PowerKinds, pc \notin {"idle", "begin"}, Return("ok"),
         outlets' \in [0..LastOutlet -> {"on", "off"}], own' \in seen', report' \in {own', "toggle"},
         UNCHANGED <<before, meddling>>,
         meddling = 0 => own' = IF cmd \in {<<"on">>, <<"off">>} THEN cmd[1]
                                ELSE IF cmd = <<"toggle">> THEN Opposite(before) ELSE before
  PROVE  RunOK' /\ PowerOK' /\ UNCHANGED mod /\ pc' # "exec"
<1>1. RunOK' /\ UNCHANGED <<mod, life, cmd>> /\ pc' = "idle" /\ kind' = kind /\ index' = index
  BY RunSteps DEF Return, kind, index, Channel
<1>2. own' \in {"on", "off"}
  BY <1>1 DEF PowerOK, RunOK, RunTypeOK, own
<1>3. PowerTrue'
  BY <1>1, <1>2 DEF PowerTrue, ReportedStateSeen, PowerDone, Opposite
<1> QED
  BY <1>1, <1>2, <1>3 DEF PowerOK

(* The pdu and wifisocket modules.                                          *)
LEMMA PowerSteps ==
  ASSUME RunOK, PowerOK, PowerStep
  PROVE  RunOK' /\ PowerOK' /\ kind \in PowerKinds /\ UNCHANGED mod /\ pc' # "exec"
<1> USE DEF PowerKinds
<1>0. outlets \in [0..LastOutlet -> {"on", "off"}]
  BY DEF PowerOK
<1>1. CASE powerInit
  <2>1. /\ life = "new" /\ life' \in {"ready", "failed"}
        /\ life' = "ready" => IF kind = "tasmota" THEN socketConfigured ELSE pduConfigured
    BY <1>1 DEF powerInit, InitReturns
  <2>2. RunOK' /\ pc = "idle" /\ UNCHANGED <<mod, pc, cmd, outcome, powerVars>> /\ kind \in PowerKinds
    BY <1>1, <2>1 DEF powerInit, InitReturns, RunOK, RunTypeOK
  <2>3. life' = "ready" => index \in 0..LastOutlet
    BY <1>1, <2>1, OutletExists DEF powerInit, InitReturns
  <2>4. index' = index /\ own' = own /\ kind' = kind
    BY <2>2 DEF index, own, kind, Channel, powerVars
  <2>5. PowerTrue'
    BY <2>2, <2>4 DEF PowerOK, PowerTrue, ReportedStateSeen, PowerDone, powerVars
  <2> QED
    BY <2>2, <2>3, <2>4, <2>5 DEF PowerOK, powerVars
<1>2. CASE powerRun
  <2>1. /\ kind' = kind /\ index' = index /\ UNCHANGED <<mod, life, cmd, outlets, meddling>> /\ own' = own
        /\ before' = own /\ seen' = {own} /\ report' = "none" /\ pc = "begin" /\ kind \in PowerKinds
    BY <1>2 DEF powerRun, kind, index, own, Channel, unknownCommand, To, Return
  <2>2. cmd \in PowerArgs /\ index \in 0..LastOutlet
    BY <2>1 DEF PowerOK
  <2>3. CASE cmd \in {<<>>, <<"bad">>}
    <3>1. unknownCommand
      BY <1>2, <2>3 DEF powerRun
    <3>2. Return("ok") \/ Return("error")
      BY <3>1 DEF unknownCommand
    <3>3. RunOK' /\ pc' = "idle"
      BY <3>2, RunSteps DEF Return
    <3>4. PowerTrue'
      BY <2>1, <2>3, <3>3 DEF PowerTrue, ReportedStateSeen, PowerDone
    <3> QED
      BY <2>1, <2>2, <3>3, <3>4 DEF PowerOK
  <2>4. CASE cmd \notin {<<>>, <<"bad">>}
    <3>1. PICK place \in {"status", "read", "switch"} :
            /\ To(place)
            /\ place = "status" <=> cmd = <<"status">>
            /\ place = "read" <=> cmd = <<"toggle">> /\ kind = "gude"
      BY <1>2, <2>4 DEF powerRun
    <3>2. RunOK'
      BY <2>1, <3>1, RunSteps
    <3>3. Working'
      BY <1>2, <2>1, <2>2, <2>4, <3>1 DEF powerRun, Working, To, PowerArgs
    <3>4. PowerTrue'
      BY <3>1 DEF To, PowerTrue, ReportedStateSeen, PowerDone
    <3> QED
      BY <2>1, <2>2, <3>1, <3>2, <3>3, <3>4 DEF PowerOK, To
  <2> QED
    BY <2>3, <2>4
<1>3. ASSUME NEW p, pc = p, kind \in PowerKinds, p \notin {"idle", "begin"}
      PROVE  /\ Working /\ index \in 0..LastOutlet /\ own \in {"on", "off"}
             /\ cmd \in PowerArgs
  BY <1>3 DEF PowerOK, own
<1>4. CASE powerStatus
  <2>1. kind \in PowerKinds /\ pc = "status"
    BY <1>4 DEF powerStatus
  <2>2. CASE RequestFails(outlets)
    BY <1>0, <2>1, <2>2, PowerFails
  <2>3. CASE Return("ok") /\ report' = own /\ UNCHANGED <<outlets, target, before, seen, meddling>>
    <3>1. own' = own
      BY <2>3 DEF own, index, kind, Channel, Return
    <3> QED
      BY <1>0, <1>3, <2>1, <2>3, <3>1, PowerEnds DEF Working
  <2> QED
    BY <1>4, <2>1, <2>2, <2>3 DEF powerStatus
<1>5. CASE gudeRead
  <2>1. kind = "gude" /\ pc = "read"
    BY <1>5 DEF gudeRead
  <2>2. CASE RequestFails(outlets)
    BY <1>0, <2>1, <2>2, PowerFails
  <2>3. CASE To("switch") /\ target' = Opposite(own) /\ UNCHANGED <<outlets, report, before, seen, meddling>>
    <3>1. RunOK' /\ UNCHANGED <<mod, life, cmd>> /\ pc' = "switch" /\ kind' = kind /\ index' = index /\ own' = own
      BY <2>1, <2>3, RunSteps DEF To, kind, index, Channel, own
    <3>2. Working'
      BY <1>3, <2>1, <2>3, <3>1 DEF Working, Opposite
    <3>3. PowerTrue'
      BY <3>1 DEF PowerTrue, ReportedStateSeen, PowerDone
    <3> QED
      BY <2>1, <2>3, <3>1, <3>2, <3>3 DEF PowerOK
  <2> QED
    BY <1>5, <2>1, <2>2, <2>3 DEF gudeRead
<1>6. CASE gudeSwitch
  <2> DEFINE new == GudeSwitch(gudePort, IF target = "on" THEN 1 ELSE 0)
  <2>1. kind = "gude" /\ pc = "switch" /\ index = mod.outlet /\ target \in {"on", "off"}
    BY <1>3, <1>6 DEF gudeSwitch, index, Working
  <2>2. new = [outlets EXCEPT ![index] = target]
    <3>1. gudePort - 1 = index
      BY <2>1, PowerAssumption DEF gudePort, RunOK, RunTypeOK, kind, PowerKinds
    <3>2. CASE target = "on"
      BY <3>1, <3>2 DEF GudeSwitch
    <3>3. CASE target = "off"
      <4>1. new = [outlets EXCEPT ![gudePort - 1] = "off"]
        BY <3>3 DEF GudeSwitch
      <4> QED
        BY <3>1, <3>3, <4>1
    <3> QED
      BY <2>1, <3>2, <3>3
  <2> HIDE DEF new
  <2>3. new \in [0..LastOutlet -> {"on", "off"}] /\ new[index] = target
    BY <1>0, <1>3, <2>1, <2>2
  <2>4. CASE RequestFails(new)
    BY <2>1, <2>3, <2>4, PowerFails
  <2>5. CASE Return("ok") /\ Answered(new) /\ report' = target /\ UNCHANGED <<target, before, meddling>>
    <3>1. own' = target /\ seen' = {target} /\ outlets' = new
      BY <2>3, <2>5 DEF own, index, kind, Channel, Return, Answered
    <3> QED
      BY <1>3, <2>1, <2>3, <2>5, <3>1, PowerEnds DEF Working
  <2> QED
    BY <1>6, <2>1, <2>4, <2>5 DEF gudeSwitch, new
<1>7. CASE intellinetSwitch
  <2> DEFINE new == IntellinetControl(mod.outlet, intellinetOpFor)
  <2>1. kind = "intellinet" /\ pc = "switch" /\ index = mod.outlet /\ cmd \in {<<"on">>, <<"off">>, <<"toggle">>}
    BY <1>3, <1>7 DEF intellinetSwitch, index, Working
  <2>2. new = [outlets EXCEPT ![index] = IF cmd = <<"on">> THEN "on" ELSE IF cmd = <<"off">> THEN "off" ELSE Opposite(own)]
    <3>1. CASE cmd = <<"on">>
      BY <2>1, <3>1 DEF IntellinetControl, intellinetOpFor
    <3>2. CASE cmd = <<"off">>
      BY <2>1, <3>2 DEF IntellinetControl, intellinetOpFor
    <3>3. CASE cmd = <<"toggle">>
      BY <1>0, <1>3, <2>1, <3>3 DEF IntellinetControl, intellinetOpFor, own
    <3> QED
      BY <2>1, <3>1, <3>2, <3>3
  <2>3. /\ new \in [0..LastOutlet -> {"on", "off"}]
        /\ new[index] = IF cmd = <<"on">> THEN "on" ELSE IF cmd = <<"off">> THEN "off" ELSE Opposite(own)
    BY <1>0, <1>3, <2>1, <2>2 DEF Opposite
  <2> HIDE DEF new
  <2>4. CASE RequestFails(new)
    BY <2>1, <2>3, <2>4, PowerFails
  <2>5. ASSUME Answered(new), To("readBack") \/ Return("ok")
        PROVE  own' = new[index] /\ seen' = {own'} /\ outlets' = new
    BY <2>5 DEF own, index, kind, Channel, Return, To, Answered
  <2>6. CASE Answered(new) /\ UNCHANGED <<target, before, meddling>> /\ cmd = <<"toggle">> /\ To("readBack") /\ UNCHANGED report
    <3>1. RunOK' /\ UNCHANGED <<mod, life, cmd>> /\ pc' = "readBack" /\ kind' = kind /\ index' = index
      BY <2>1, <2>6, RunSteps DEF To, kind, index, Channel
    <3>2. Working'
      BY <1>3, <2>1, <2>3, <2>5, <2>6, <3>1 DEF Working, Opposite
    <3>3. PowerTrue'
      BY <3>1 DEF PowerTrue, ReportedStateSeen, PowerDone
    <3> QED
      BY <2>1, <2>3, <2>5, <2>6, <3>1, <3>2, <3>3 DEF PowerOK
  <2>7. CASE Answered(new) /\ UNCHANGED <<target, before, meddling>> /\ cmd # <<"toggle">> /\ Return("ok") /\ report' = target
    <3>1. target = cmd[1] /\ new[index] = cmd[1]
      BY <1>3, <2>1, <2>3, <2>7 DEF Working
    <3> QED
      BY <2>1, <2>3, <2>5, <2>7, <3>1, PowerEnds
  <2> QED
    BY <1>7, <2>1, <2>4, <2>6, <2>7 DEF intellinetSwitch, new
<1>8. CASE intellinetReadBack
  <2>1. kind = "intellinet" /\ pc = "readBack"
    BY <1>8 DEF intellinetReadBack
  <2>2. CASE RequestFails(outlets)
    BY <1>0, <2>1, <2>2, PowerFails
  <2>3. CASE Return("ok") /\ report' = own /\ UNCHANGED <<outlets, target, before, seen, meddling>>
    <3>1. own' = own
      BY <2>3 DEF own, index, kind, Channel, Return
    <3> QED
      BY <1>0, <1>3, <2>1, <2>3, <3>1, PowerEnds DEF Working
  <2> QED
    BY <1>8, <2>1, <2>2, <2>3 DEF intellinetReadBack
<1>9. CASE tasmotaSwitch
  <2> DEFINE new == Tasmota(Channel, cmd[1])
  <2>1. kind = "tasmota" /\ pc = "switch" /\ index = Channel - 1 /\ cmd \in {<<"on">>, <<"off">>, <<"toggle">>}
    BY <1>3, <1>9 DEF tasmotaSwitch, index, Working
  <2>2. new = [outlets EXCEPT ![index] = IF cmd = <<"toggle">> THEN Opposite(own) ELSE cmd[1]]
    <3>1. CASE cmd = <<"toggle">>
      BY <1>0, <1>3, <2>1, <3>1 DEF Tasmota, own
    <3>2. CASE cmd \in {<<"on">>, <<"off">>}
      <4>1. cmd[1] # "toggle" /\ cmd # <<"toggle">>
        BY <3>2
      <4> QED
        BY <2>1, <4>1 DEF Tasmota
    <3> QED
      BY <2>1, <3>1, <3>2
  <2>3. /\ new \in [0..LastOutlet -> {"on", "off"}]
        /\ new[index] = IF cmd = <<"toggle">> THEN Opposite(own) ELSE cmd[1]
    BY <1>0, <1>3, <2>1, <2>2 DEF Opposite
  <2> HIDE DEF new
  <2>4. CASE RequestFails(new)
    BY <2>1, <2>3, <2>4, PowerFails
  <2>5. CASE Return("ok") /\ Answered(new) /\ UNCHANGED <<target, before, meddling>> /\ report' \in {new[index], cmd[1]}
    <3>1. own' = new[index] /\ seen' = {own'} /\ outlets' = new
      BY <2>5 DEF own, index, kind, Channel, Return, Answered
    <3>2. report' \in {own', "toggle"}
      BY <2>1, <2>3, <2>5, <3>1
    <3>3. meddling = 0 => own = before
      BY <1>3, <2>1 DEF Working
    <3>4. meddling = 0 => own' = IF cmd \in {<<"on">>, <<"off">>} THEN cmd[1]
                                 ELSE IF cmd = <<"toggle">> THEN Opposite(before) ELSE before
      BY <2>1, <2>3, <3>1, <3>3
    <3> QED
      BY <2>1, <2>3, <2>5, <3>1, <3>2, <3>4, PowerEnds
  <2> QED
    BY <1>9, <2>1, <2>4, <2>5 DEF tasmotaSwitch, new
<1>10. CASE powerDeinit
  <2>1. RunOK' /\ UNCHANGED <<mod, pc, cmd, outcome, powerVars>> /\ kind \in PowerKinds /\ life' = "gone"
    BY <1>10, RunSteps DEF powerDeinit
  <2>2. index' = index /\ own' = own /\ kind' = kind
    BY <2>1 DEF index, own, kind, Channel, powerVars
  <2>3. PowerTrue'
    BY <2>1, <2>2 DEF PowerOK, PowerTrue, ReportedStateSeen, PowerDone, powerVars
  <2>4. Working => Working' /\ pc # "exec"
    BY <2>1, <2>2 DEF Working, powerVars
  <2> QED
    BY <2>1, <2>2, <2>3, <2>4 DEF PowerOK, powerVars
<1> QED
  BY <1>1, <1>2, <1>4, <1>5, <1>6, <1>7, <1>8, <1>9, <1>10
  DEF PowerStep, powerInit, powerRun, powerStatus, gudeRead, gudeSwitch, intellinetSwitch, intellinetReadBack,
      tasmotaSwitch, powerDeinit

(* A call, and somebody at the device: the outlet changes hands only while a   *)
(* Run is under way, and then it is known.                                   *)
LEMMA PowerCalls ==
  ASSUME PowerOK, PowerCall, UNCHANGED powerVars
  PROVE  PowerOK' /\ kind \in PowerKinds
<1>1. PICK args \in PowerArgs : RunCalled(args)
  BY DEF PowerCall, PowerArgs
<1>2. kind \in PowerKinds /\ cmd' \in PowerArgs /\ pc' = "begin" /\ UNCHANGED <<mod, life>> /\ life = "ready"
  BY <1>1 DEF PowerCall, RunCalled
<1>3. kind' = kind /\ index' = index
  BY <1>2 DEF kind, index, Channel
<1> QED
  BY <1>2, <1>3 DEF PowerOK, PowerTrue, ReportedStateSeen, PowerDone, powerVars

(* Somebody else may switch a socket between the steps of a Run.             *)
LEMMA PowerMeddled ==
  ASSUME RunOK, PowerOK, PowerEnvironment
  PROVE  RunOK' /\ PowerOK' /\ kind \in PowerKinds /\ UNCHANGED runVars
<1>1. PICK n \in 0..LastOutlet : meddle(n)
  BY DEF PowerEnvironment, PowerOK
<1>2. kind \in PowerKinds /\ pc # "idle" /\ UNCHANGED <<runVars, target, report, before>>
  BY <1>1 DEF meddle
<1>3. RunOK' /\ kind' = kind /\ index' = index /\ UNCHANGED <<mod, life, pc, cmd>>
  BY <1>2, RunSteps DEF runVars, kind, index, Channel
<1>4. outlets' \in [0..LastOutlet -> {"on", "off"}]
  BY <1>1 DEF meddle, PowerOK, Opposite
<1>5. meddling' \in Nat /\ meddling' # 0
  BY <1>1 DEF meddle, PowerOK
<1>6. own' \in seen' /\ seen \subseteq seen'
  BY <1>1, <1>3 DEF meddle, own
<1>7. Working => Working'
  BY <1>2, <1>3, <1>5, <1>6 DEF Working
<1>8. PowerTrue'
  BY <1>2, <1>3 DEF PowerTrue, ReportedStateSeen, PowerDone
<1> QED
  BY <1>2, <1>3, <1>4, <1>5, <1>7, <1>8 DEF PowerOK

-----------------------------------------------------------------------------
(* The ipmi module.                                                         *)

(* How many requests the attempts so far can have sent.                     *)
LEMMA Bounds ==
  ASSUME NEW t \in 0..3, NEW n \in Nat, NEW m \in Nat, m <= n + 1
  PROVE  /\ n <= t => m <= 4 /\ m <= 8
         /\ n <= 4 + t => m <= 8
         /\ m <= m + 1
OBVIOUS

LEMMA IpmiSteps ==
  ASSUME RunOK, IpmiOK, IpmiStep
  PROVE  RunOK' /\ IpmiOK' /\ kind = "ipmi" /\ UNCHANGED mod /\ pc' # "exec"
<1> USE DEF RetriedOnce, StaleSessionHeals, CarriedOut, kind, trials
<1>1. CASE ipmiInit
  <2>1. RunOK' /\ UNCHANGED <<mod, pc, cmd, outcome, overlapped, ipmiVars>> /\ kind = "ipmi"
    BY <1>1 DEF ipmiInit, InitReturns, RunOK, RunTypeOK
  <2> QED
    BY <2>1 DEF IpmiOK, ipmiVars
<1>2. CASE ipmiRun
  <2>1. executed' = 0 /\ faults' = 0 /\ unanswered' = 0 /\ UNCHANGED <<session, tries>> /\ kind = "ipmi" /\ pc = "begin"
    BY <1>2 DEF ipmiRun
  <2>2. CASE cmd \in {<<>>, <<"bad">>}
    <3>1. Return("ok") /\ RunOK'
      BY <1>2, <2>2, RunSteps DEF ipmiRun
    <3> QED
      BY <2>1, <2>2, <3>1 DEF Return, IpmiOK
  <2>3. CASE cmd \notin {<<>>, <<"bad">>}
    <3>1. To("connect") /\ RunOK'
      BY <1>2, <2>1, <2>3, RunSteps DEF ipmiRun
    <3> QED
      BY <2>1, <2>3, <3>1 DEF To, IpmiOK, RunOK, RunTypeOK
  <2> QED
    BY <2>2, <2>3
<1>3. CASE connect
  <2>1. RunOK' /\ kind = "ipmi" /\ pc \in {"connect", "reconnect"} /\ outcome = "none"
    BY <1>3, RunSteps DEF connect, RunOK, RunTypeOK
  <2>2. CASE Return("error")
    <3>1. faults' = faults + 1 /\ session' \in {"none", "live", "stale"} /\ tries' = 0 /\ UNCHANGED <<executed, unanswered>>
      BY <1>3, <2>1, <2>2 DEF connect, Return, To, IpmiOK
    <3> QED
      BY <2>1, <2>2, <3>1 DEF Return, IpmiOK
  <2>3. CASE To(IF pc = "connect" THEN "op" ELSE "retry")
    <3>1. UNCHANGED faults /\ session' \in {"live", "stale"} /\ tries' = 0 /\ UNCHANGED <<executed, unanswered>>
          /\ (session = "none" => session' = "live")
      BY <1>3, <2>1, <2>3 DEF connect, Return, To, IpmiOK
    <3> QED
      BY <2>1, <2>3, <3>1 DEF To, IpmiOK
  <2> QED
    BY <1>3, <2>2, <2>3 DEF connect
<1>4. CASE opSucceeds
  <2>1. RunOK'
    BY <1>4, RunSteps DEF opSucceeds
  <2>2. tries <= 3
    BY DEF IpmiOK
  <2> QED
    BY <1>4, <2>1, <2>2 DEF opSucceeds, Return, IpmiOK
<1>5. ASSUME NoAnswer, executed = unanswered
      PROVE  /\ faults' \in Nat /\ faults' > 0 /\ executed' \in Nat /\ unanswered' \in Nat
             /\ executed' = unanswered' /\ executed' <= executed + 1
  BY <1>5 DEF NoAnswer, IpmiOK
<1>6. CASE opResent
  <2>1. /\ kind = "ipmi" /\ pc \in {"op", "retry"} /\ tries < 3 /\ tries' = tries + 1 /\ NoAnswer
        /\ UNCHANGED session /\ UNCHANGED runVars
    BY <1>6 DEF opResent
  <2>2. RunOK' /\ UNCHANGED <<mod, pc, cmd, outcome, overlapped>> /\ executed = unanswered /\ outcome = "none"
    BY <2>1, RunSteps DEF runVars, IpmiOK, RunOK, RunTypeOK
  <2>3. tries' \in 0..3
    BY <2>1 DEF IpmiOK
  <2> QED
    BY <1>5, <2>1, <2>2, <2>3 DEF IpmiOK
<1>7. CASE opFails
  <2> HIDE DEF RetriedOnce, StaleSessionHeals, CarriedOut, trials
  <2>0. tries \in 0..3 /\ executed \in Nat
    BY DEF IpmiOK
  <2>1. /\ kind = "ipmi" /\ pc \in {"op", "retry"} /\ Failed /\ NextAttempt /\ UNCHANGED tries /\ executed = unanswered
        /\ outcome = "none" /\ executed <= IF pc = "op" THEN tries ELSE 4 + tries
    BY <1>7 DEF opFails, IpmiOK, RunOK, RunTypeOK
  <2>2. /\ faults' \in Nat /\ executed' \in Nat /\ unanswered' \in Nat
        /\ executed' = unanswered' /\ executed' <= executed + 1 /\ (session = "live" => faults' > 0)
    <3>1. CASE session = "stale" /\ UNCHANGED <<executed, faults, unanswered>>
      BY <2>1, <3>1 DEF IpmiOK
    <3>2. CASE NoAnswer
      BY <1>5, <2>1, <3>2
    <3> QED
      BY <1>7, <3>1, <3>2 DEF opFails
  <2>3. CASE pc = "op"
    <3>1. To("reconnect") /\ session' = "none"
      BY <2>1, <2>3 DEF NextAttempt, Failed
    <3>2. RunOK'
      BY <2>3, <3>1, RunSteps
    <3>3. executed' <= 4 /\ executed' <= 8 /\ executed' <= unanswered' + 1
      BY <2>0, <2>1, <2>2, <2>3, Bounds
    <3>4. UNCHANGED <<mod, cmd, overlapped, tries>> /\ pc' = "reconnect" /\ outcome' = "none"
      BY <2>1, <3>1 DEF To
    <3>5. StaleSessionHeals'
      BY <3>4 DEF StaleSessionHeals
    <3>6. CarriedOut'
      BY <3>3, <3>4 DEF CarriedOut, trials
    <3> QED
      BY <2>0, <2>1, <2>2, <3>1, <3>2, <3>3, <3>4, <3>5, <3>6 DEF IpmiOK, RetriedOnce
  <2>4. CASE pc = "retry"
    <3>1. Return("error") /\ session' = session
      BY <2>1, <2>4 DEF NextAttempt, Failed
    <3>2. RunOK'
      BY <3>1, RunSteps
    <3>3. executed' <= 8 /\ executed' <= unanswered' + 1
      BY <2>0, <2>1, <2>2, <2>4, Bounds
    <3>4. UNCHANGED <<mod, cmd, overlapped, tries>> /\ pc' = "idle" /\ outcome' = "error"
      BY <2>1, <3>1 DEF Return
    <3>5. faults' > 0 \/ overlapped'
      BY <2>1, <2>2, <2>4, <3>4 DEF IpmiOK
    <3>6. StaleSessionHeals'
      BY <3>5 DEF StaleSessionHeals
    <3>7. CarriedOut'
      BY <3>3, <3>4 DEF CarriedOut, trials
    <3> QED
      BY <2>0, <2>1, <2>2, <3>1, <3>2, <3>3, <3>4, <3>6, <3>7 DEF IpmiOK, RetriedOnce
  <2> QED
    BY <2>1, <2>3, <2>4
<1>8. CASE opWithoutClient
  <2>1. RunOK'
    BY <1>8, RunSteps DEF opWithoutClient
  <2> QED
    BY <1>8, <2>1 DEF opWithoutClient, Return, IpmiOK, ipmiVars
<1>9. CASE ipmiDeinit
  <2>1. RunOK' /\ UNCHANGED <<mod, pc, cmd, outcome>> /\ kind = "ipmi" /\ session' = "none"
        /\ UNCHANGED <<tries, executed, faults, unanswered>>
    BY <1>9, RunSteps DEF ipmiDeinit
  <2>2. pc # "idle" => overlapped'
    BY <1>9, Zenon DEF ipmiDeinit, DeinitCalled
  <2>3. overlapped => overlapped'
    BY <1>9, Zenon DEF ipmiDeinit, DeinitCalled
  <2> QED
    BY <2>1, <2>2, <2>3 DEF IpmiOK
<1> QED
  BY <1>1, <1>2, <1>3, <1>4, <1>6, <1>7, <1>8, <1>9 DEF IpmiStep

(* A call of the ipmi module starts from the session the last one left.      *)
LEMMA IpmiCalls ==
  ASSUME IpmiOK, IpmiCall, UNCHANGED ipmiVars
  PROVE  IpmiOK' /\ kind = "ipmi"
BY DEF IpmiCall, RunCalled, IpmiOK, RetriedOnce, StaleSessionHeals, CarriedOut, kind, ipmiVars, trials

(* The BMC may drop the session between Runs, another Run at any time.       *)
LEMMA IpmiHappens ==
  ASSUME RunOK, IpmiOK, IpmiEnvironment
  PROVE  RunOK' /\ IpmiOK' /\ kind = "ipmi" /\ UNCHANGED <<mod, pc>>
<1> USE DEF RetriedOnce, StaleSessionHeals, CarriedOut, kind, trials
<1>1. CASE bmcDropsSession
  BY <1>1, RunSteps DEF bmcDropsSession, IpmiOK, runVars
<1>2. CASE otherReconnects
  <2>1. RunOK' /\ UNCHANGED <<mod, pc, cmd, outcome>> /\ kind = "ipmi" /\ session' \in {"none", "live"}
        /\ UNCHANGED <<tries, executed, faults, unanswered>>
    BY <1>2, RunSteps DEF otherReconnects
  <2>2. overlapped'
    BY <1>2, Zenon DEF otherReconnects, OtherRun
  <2> QED
    BY <2>1, <2>2 DEF IpmiOK
<1> QED
  BY <1>1, <1>2 DEF IpmiEnvironment

-----------------------------------------------------------------------------
(* External commands: what each step of procexec does to the process group.   *)
LEMMA CommandStarts ==
  ASSUME RunOK, ExecOK, kind \in ExecKinds, pc # "idle", Starts
  PROVE  RunOK' /\ ExecOK' /\ UNCHANGED mod
<1>1. RunOK' /\ UNCHANGED mod /\ pc' = "exec"
  BY RunSteps DEF Starts, To
<1>2. signalled' \in BOOLEAN /\ forced' \in BOOLEAN /\ ~signalled'
  BY Zenon DEF Starts
<1>3. group' \subseteq {"tool", "child"} /\ "tool" \in group' /\ exit' = "running"
  BY DEF Starts
<1> QED
  BY <1>1, <1>2, <1>3 DEF ExecOK, kind

(* A process of the group exits.                                             *)
LEMMA CommandExits ==
  ASSUME ExecOK, NEW p \in {"tool", "child"}, NEW how \in {"ok", "failed"}, Exits(p, how)
  PROVE  ExecOK'
BY DEF Exits, ExecOK, runVars, kind

(* A cancelled command is signalled; flashrom then no longer ends well.      *)
LEMMA CommandSignalled ==
  ASSUME ExecOK, cancelSignal
  PROVE  ExecOK' /\ (kind = "flash" => exit' # "ok" /\ "tool" \in group)
<1>1. UNCHANGED <<mod, pc, forced>> /\ pc = "exec" /\ "tool" \in group /\ exit = "running" /\ kind \in ExecKinds
  BY DEF cancelSignal, ExecOK, runVars
<1>2. signalled' \in BOOLEAN /\ forced' \in BOOLEAN
  BY <1>1, Zenon DEF cancelSignal, ExecOK
<1>3. CASE kind = "flash"
  <2>1. group' \subseteq group /\ exit' = IF "tool" \in group' THEN exit ELSE "failed"
    BY <1>3 DEF cancelSignal, cancelSig
  <2> QED
    BY <1>1, <1>2, <1>3, <2>1 DEF ExecOK, kind
<1>4. CASE kind # "flash"
  <2>1. group' = {} /\ exit' = "killed"
    BY <1>4 DEF cancelSignal, cancelSig
  <2> QED
    BY <1>1, <1>2, <1>4, <2>1 DEF ExecOK, kind
<1> QED
  BY <1>3, <1>4

(* WaitDelay closes the pipes; no command ends better for it.                *)
LEMMA CommandForced ==
  ASSUME ExecOK, waitDelay
  PROVE  ExecOK' /\ (exit' = "ok" => exit = "ok")
<1>1. forced' \in BOOLEAN /\ forced'
  BY Zenon DEF waitDelay
<1>2. UNCHANGED <<mod, pc, signalled>> /\ pc = "exec"
  BY DEF waitDelay, runVars
<1>3. \/ "tool" \in group /\ group' = group \ {"tool"} /\ exit' = "killed"
      \/ UNCHANGED <<group, exit>>
  BY DEF waitDelay
<1> QED
  BY <1>1, <1>2, <1>3 DEF ExecOK, kind

(* Nobody waits for more than the grace period, and what is left then is not  *)
(* what was to be killed.                                                    *)
LEMMA CommandOver ==
  ASSUME ExecOK, pc # "exec" \/ Waited, pc' # "exec", UNCHANGED <<mod, execVars>>
  PROVE  ExecOK'
BY DEF ExecOK, Waited, execVars, kind

(* A step that does not concern a command leaves it as it is.               *)
LEMMA CommandStays ==
  ASSUME ExecOK, UNCHANGED <<mod, pc>>, UNCHANGED execVars
  PROVE  ExecOK'
BY DEF ExecOK, execVars, kind

(* The shell module, and what happens to the command of any module.          *)
LEMMA ExecSteps ==
  ASSUME RunOK, ExecOK, FlashOK, ExecStep, UNCHANGED flashVars
  PROVE  RunOK' /\ ExecOK' /\ FlashOK' /\ kind \in ExecKinds /\ UNCHANGED mod
<1>1. CASE kind # "flash" /\ cancelSignal
  <2>1. ExecOK' /\ UNCHANGED runVars /\ kind \in ExecKinds
    BY <1>1, CommandSignalled DEF cancelSignal, ExecOK
  <2>2. FlashOK'
    BY <1>1, <2>1 DEF FlashOK, FlashTrue, NoFilesLeft, EmulatedOK, kind, runVars, flashVars
  <2> QED
    BY <2>1, <2>2, RunSteps DEF runVars
<1>2. CASE waitDelay
  <2>1. ExecOK' /\ UNCHANGED runVars /\ kind \in ExecKinds /\ (exit' = "ok" => exit = "ok") /\ pc = "exec"
    BY <1>2, CommandForced DEF waitDelay, ExecOK
  <2>2. FlashOK'
    BY <2>1 DEF FlashOK, FlashTrue, NoFilesLeft, EmulatedOK, ImageOK, kind, runVars, flashVars, Sent
  <2> QED
    BY <2>1, <2>2, RunSteps DEF runVars
<1>3. ASSUME kind = "shell", RunOK', ExecOK', UNCHANGED mod
      PROVE  RunOK' /\ ExecOK' /\ FlashOK' /\ kind \in ExecKinds /\ UNCHANGED mod
  BY <1>3, FlashStays DEF ExecKinds
<1>4. CASE shellInit
  <2>1. RunOK' /\ UNCHANGED <<mod, pc>> /\ pc # "exec"
    BY <1>4, RunSteps DEF shellInit, InitReturns
  <2> QED
    BY <1>3, <1>4, <2>1, CommandOver DEF shellInit
<1>5. CASE shellRun
  <2>1. CASE Starts
    BY <1>3, <1>5, <2>1, CommandStarts DEF shellRun, ExecKinds
  <2>2. CASE Return("error") /\ UNCHANGED execVars
    <3>1. RunOK' /\ UNCHANGED mod /\ pc' # "exec" /\ pc # "exec"
      BY <1>5, <2>2, RunSteps DEF shellRun, Return
    <3> QED
      BY <1>3, <1>5, <2>2, <3>1, CommandOver DEF shellRun
  <2> QED
    BY <1>5, <2>1, <2>2 DEF shellRun
<1>6. CASE shellReturns
  <2>1. Return("ok") \/ Return("error")
    BY <1>6, Zenon DEF shellReturns
  <2>2. RunOK' /\ UNCHANGED mod /\ pc' # "exec"
    BY <2>1, RunSteps DEF Return
  <2> QED
    BY <1>3, <1>6, <2>2, CommandOver DEF shellReturns
<1>7. CASE shellDeinit
  <2>1. RunOK' /\ UNCHANGED <<mod, pc>>
    BY <1>7, RunSteps DEF shellDeinit
  <2> QED
    BY <1>3, <1>7, <2>1, CommandStays DEF shellDeinit
<1> QED
  BY <1>1, <1>2, <1>4, <1>5, <1>6, <1>7 DEF ExecStep

(* What the processes do keeps what is said of them and of the chip.         *)
LEMMA ExecHappens ==
  ASSUME RunOK, ExecOK, FlashOK, ExecEnvironment, UNCHANGED flashVars
  PROVE  RunOK' /\ ExecOK' /\ FlashOK' /\ kind \in ExecKinds /\ UNCHANGED runVars
<1>1. PICK p \in {"tool", "child"}, how \in {"ok", "failed"} :
        Exits(p, how) /\ (kind = "flash" /\ p = "tool" => how = "failed")
  BY DEF ExecEnvironment
<1>2. ExecOK' /\ UNCHANGED runVars /\ kind \in ExecKinds /\ pc = "exec"
  BY <1>1, CommandExits DEF Exits, ExecOK
<1>3. kind = "flash" /\ exit' = "ok" => exit = "ok"
  BY <1>1 DEF Exits
<1>4. FlashOK'
  BY <1>2, <1>3 DEF FlashOK, FlashTrue, NoFilesLeft, EmulatedOK, ImageOK, kind, runVars, flashVars, Sent
<1> QED
  BY <1>2, <1>4, RunSteps

-----------------------------------------------------------------------------
(* The flash and flash-emulate modules.                                      *)

(* What concerns only the files, or only the image, has only that to keep.   *)
LEMMA FlashKeeps ==
  ASSUME FlashOK, kind = "flash", UNCHANGED <<mod, files>>, localPath' \in {localPath, {0}}, ImageOK', FlashTrue'
  PROVE  FlashOK'
<1>1. localPath' \subseteq 0..(MaxRuns + 1) /\ files' \subseteq 1..(MaxRuns + 1)
  BY ModuleRunAssumption DEF FlashOK
<1> QED
  BY <1>1 DEF FlashOK, NoFilesLeft, kind

LEMMA EmulateKeeps ==
  ASSUME kind = "emulate", UNCHANGED mod, EmulatedOK', NoFilesLeft',
         files' \subseteq 1..(MaxRuns + 1), localPath' \subseteq 0..(MaxRuns + 1)
  PROVE  FlashOK'
BY DEF FlashOK, FlashTrue, kind

(* A Run that has failed, or that has not been called, claims nothing.       *)
LEMMA FlashQuiet ==
  ASSUME FlashOK, kind = "flash", UNCHANGED <<mod, files>>, localPath' \in {localPath, {0}}, pc' \in {"idle", "begin"},
         \/ pc' = "begin"
         \/ outcome' # "ok"
         \/ UNCHANGED <<pc, outcome, disturbed, cmd, chip, got, runs, overlapped>>
  PROVE  FlashOK'
<1>1. ImageOK'
  BY DEF ImageOK
<1>2. FlashTrue'
  BY DEF FlashOK, FlashTrue, kind, Sent
<1> QED
  BY <1>1, <1>2, FlashKeeps

(* Neither does one that others have come between.                          *)
LEMMA FlashMixed ==
  ASSUME FlashOK, kind = "flash", UNCHANGED <<mod, files>>, localPath' \in {localPath, {0}}, overlapped',
         pc' = "exec" /\ exit' = "ok" => ~half'
  PROVE  FlashOK'
<1>1. ImageOK'
  BY DEF ImageOK
<1>2. FlashTrue'
  BY DEF FlashTrue
<1> QED
  BY <1>1, <1>2, FlashKeeps

(* The flash module on its way from the client to the chip and back.         *)
LEMMA FlashSteps ==
  ASSUME RunOK, ExecOK, FlashOK, kind = "flash", FlashStep
  PROVE  RunOK' /\ ExecOK' /\ FlashOK' /\ UNCHANGED mod
<1>0. ImageOK
  BY DEF FlashOK
<1>1. CASE flashInit
  <2>1. PICK ok \in BOOLEAN : InitReturns(ok)
    BY <1>1, Zenon DEF flashInit
  <2>2. RunOK' /\ UNCHANGED <<mod, pc, cmd, outcome, runs, overlapped>> /\ pc = "idle"
    BY <2>1, RunSteps DEF InitReturns
  <2>3. ExecOK'
    BY <1>1, <2>2, CommandOver DEF flashInit
  <2> QED
    BY <1>1, <2>2, <2>3, FlashQuiet DEF flashInit, flashVars
<1>2. CASE flashRun
  <2>1. \/ localPath' = {0} /\ op' = cmd[1] /\ cmd[1] = "write" /\ To("upload")
        \/ localPath' = {0} /\ op' = cmd[1] /\ cmd[1] = "read" /\ To("start")
        \/ UNCHANGED localPath /\ Return("error")
    BY <1>2 DEF flashRun
  <2>2. RunOK' /\ UNCHANGED <<mod, cmd>> /\ pc = "begin" /\ pc' \in {"idle", "upload", "start"}
    BY <1>2, <2>1, RunSteps DEF flashRun, To, Return
  <2>3. ExecOK'
    BY <1>2, <2>2, CommandOver DEF flashRun
  <2>4. CASE To("upload") \/ To("start")
    <3>1. pc' \in {"upload", "start"} /\ op' = cmd[1] /\ cmd[1] \in {"read", "write"} /\ (pc' = "start" => op' = "read")
          /\ localPath' = {0} /\ UNCHANGED files
      BY <1>2, <2>1, <2>4 DEF To, Return, flashRun
    <3>2. ImageOK'
      BY <2>2, <3>1 DEF ImageOK
    <3>3. FlashTrue'
      BY <3>1 DEF FlashTrue
    <3> QED
      BY <2>2, <2>3, <3>1, <3>2, <3>3, FlashKeeps
  <2>5. CASE Return("error") /\ UNCHANGED localPath
    BY <1>2, <2>2, <2>3, <2>5, FlashQuiet DEF flashRun, Return
  <2> QED
    BY <2>1, <2>4, <2>5
<1>3. CASE flashUpload
  <2>1. (image' = Sent /\ To("start")) \/ Return("error")
    BY <1>3 DEF flashUpload
  <2>2. RunOK' /\ UNCHANGED <<mod, cmd, runs, overlapped>> /\ pc = "upload" /\ pc' \in {"idle", "start"}
        /\ UNCHANGED <<op, fileVarsOfFlash>>
    BY <1>3, <2>1, RunSteps DEF flashUpload, To, Return
  <2>3. ExecOK'
    BY <1>3, <2>2, CommandOver DEF flashUpload
  <2>4. CASE image' = Sent /\ To("start")
    <3>1. pc' = "start"
      BY <2>4 DEF To
    <3>2. ImageOK'
      BY <1>0, <2>2, <2>4, <3>1 DEF ImageOK, Sent
    <3>3. FlashTrue'
      BY <3>1 DEF FlashTrue
    <3> QED
      BY <2>2, <2>3, <3>2, <3>3, FlashKeeps DEF fileVarsOfFlash
  <2>5. CASE Return("error")
    BY <2>2, <2>3, <2>5, FlashQuiet DEF Return, fileVarsOfFlash
  <2> QED
    BY <2>1, <2>4, <2>5
<1>4. CASE flashStart
  <2>1. CASE Starts
    <3>1. RunOK' /\ ExecOK' /\ UNCHANGED mod
      BY <1>4, <2>1, CommandStarts DEF flashStart, ExecKinds
    <3>2. /\ exit' = "running" /\ pc' = "exec" /\ pc = "start" /\ UNCHANGED <<cmd, runs, overlapped>>
          /\ UNCHANGED <<op, image, chip, got, disturbed, fileVarsOfFlash>>
      BY <1>4, <2>1 DEF flashStart, Starts, To
    <3>3. doing' = op
      BY <1>4, <3>2 DEF flashStart, Return
    <3>4. ImageOK'
      BY <1>0, <3>2, <3>3 DEF ImageOK, Sent
    <3>5. FlashTrue'
      BY <3>2 DEF FlashTrue
    <3> QED
      BY <3>1, <3>2, <3>4, <3>5, FlashKeeps DEF fileVarsOfFlash
  <2>2. CASE Return("error") /\ UNCHANGED execVars
    <3>1. RunOK' /\ UNCHANGED <<mod, cmd, fileVarsOfFlash>> /\ pc = "start" /\ pc' = "idle"
      BY <1>4, <2>2, RunSteps DEF flashStart, Return
    <3>2. ExecOK'
      BY <2>2, <3>1, CommandOver
    <3> QED
      BY <2>2, <3>1, <3>2, FlashQuiet DEF Return, fileVarsOfFlash
  <2> QED
    BY <1>4, <2>1, <2>2 DEF flashStart
<1>5. CASE flashSignal
  <2>1. ExecOK' /\ exit' # "ok" /\ UNCHANGED runVars /\ RunOK' /\ pc = "exec"
    BY <1>5, CommandSignalled, RunSteps DEF flashSignal, cancelSignal
  <2>2. UNCHANGED <<op, doing, image, got, disturbed, fileVarsOfFlash>>
    BY <1>5 DEF flashSignal
  <2>3. ImageOK'
    BY <1>0, <2>1, <2>2 DEF ImageOK, Sent, runVars
  <2>4. FlashTrue'
    BY <2>1 DEF FlashTrue, runVars
  <2> QED
    BY <2>1, <2>2, <2>3, <2>4, FlashKeeps DEF runVars, fileVarsOfFlash
<1>6. CASE flashReturns
  <2>1. \/ Return("error")
        \/ exit = "ok" /\ op # "read" /\ Return("ok")
        \/ exit = "ok" /\ op = "read" /\ To("download")
    BY <1>6 DEF flashReturns, Succeeded
  <2>2. RunOK' /\ UNCHANGED <<mod, cmd, runs, overlapped, flashVars>> /\ pc = "exec" /\ pc' \in {"idle", "download"}
    BY <1>6, <2>1, RunSteps DEF flashReturns, Waited, To, Return
  <2>3. ExecOK'
    BY <1>6, <2>2, CommandOver DEF flashReturns
  <2>4. CASE Return("error")
    BY <2>2, <2>3, <2>4, FlashQuiet DEF Return, flashVars
  <2>5. CASE exit = "ok" /\ op # "read" /\ Return("ok")
    <3>1. pc' = "idle"
      BY <2>5 DEF Return
    <3>2. ImageOK'
      BY <3>1 DEF ImageOK
    <3>3. FlashTrue'
      BY <1>0, <2>2, <2>5 DEF ImageOK, FlashTrue, Sent, flashVars, kind
    <3> QED
      BY <2>2, <2>3, <3>2, <3>3, FlashKeeps DEF flashVars
  <2>6. CASE exit = "ok" /\ op = "read" /\ To("download")
    <3>1. pc' = "download"
      BY <2>6 DEF To
    <3>2. ImageOK'
      BY <1>0, <2>2, <2>6, <3>1 DEF ImageOK, flashVars
    <3>3. FlashTrue'
      BY <3>1 DEF FlashTrue
    <3> QED
      BY <2>2, <2>3, <3>2, <3>3, FlashKeeps DEF flashVars
  <2> QED
    BY <2>1, <2>4, <2>5, <2>6
<1>7. CASE flashDownload
  <2>1. (Return("ok") /\ got' = image) \/ Return("error")
    BY <1>7 DEF flashDownload
  <2>2. RunOK' /\ UNCHANGED <<mod, cmd, runs, overlapped, op, image, chip, disturbed, fileVarsOfFlash>>
        /\ pc = "download" /\ pc' = "idle"
    BY <1>7, <2>1, RunSteps DEF flashDownload, Return
  <2>3. ExecOK'
    BY <1>7, <2>2, CommandOver DEF flashDownload
  <2>4. CASE Return("ok") /\ got' = image
    <3>1. ImageOK'
      BY <2>2 DEF ImageOK
    <3>2. FlashTrue'
      BY <1>0, <2>2, <2>4 DEF ImageOK, FlashTrue, Sent, kind
    <3> QED
      BY <2>2, <2>3, <3>1, <3>2, FlashKeeps DEF fileVarsOfFlash
  <2>5. CASE Return("error")
    BY <2>2, <2>3, <2>5, FlashQuiet DEF Return, fileVarsOfFlash
  <2> QED
    BY <2>1, <2>4, <2>5
<1>8. CASE flashDeinit
  <2>1. RunOK' /\ UNCHANGED <<mod, pc, cmd, outcome, runs>>
    BY <1>8, RunSteps DEF flashDeinit
  <2>2. ExecOK'
    BY <1>8, <2>1, CommandStays DEF flashDeinit
  <2>3. UNCHANGED <<op, doing, chip, got, half, disturbed, files, localPath, execVars>>
    BY <1>8 DEF flashDeinit, fileVarsOfFlash
  <2>4. CASE pc = "idle"
    <3>1. UNCHANGED overlapped
      BY <1>8, <2>4 DEF flashDeinit, DeinitCalled
    <3> QED
      BY <2>1, <2>2, <2>3, <2>4, <3>1, FlashQuiet
  <2>5. CASE pc # "idle"
    <3>1. overlapped'
      BY <1>8, <2>5, Zenon DEF flashDeinit, DeinitCalled
    <3>2. pc' = "exec" /\ exit' = "ok" => ~half'
      BY <1>0, <2>1, <2>3 DEF ImageOK, execVars
    <3> QED
      BY <2>1, <2>2, <2>3, <3>1, <3>2, FlashMixed
  <2> QED
    BY <2>4, <2>5
<1> QED
  BY <1>1, <1>2, <1>3, <1>4, <1>5, <1>6, <1>7, <1>8
  DEF FlashStep, emulateInit, emulateRun, emulateCreate, emulateUpload, emulateReturns, emulateDeinit

(* What the tool, the neighbour and other Runs do to the image, to the chip    *)
(* and to the files.                                                         *)
LEMMA FlashHappens ==
  ASSUME RunOK, ExecOK, FlashOK, FlashEnvironment
  PROVE  RunOK' /\ ExecOK' /\ FlashOK' /\ kind \in {"flash", "emulate"} /\ UNCHANGED <<mod, pc>>
<1>0. kind = "flash" => ImageOK
  BY DEF FlashOK
<1>1. CASE toolWorks
  <2>1. UNCHANGED <<runVars, execVars>> /\ exit = "running" /\ pc = "exec" /\ kind = "flash"
        /\ UNCHANGED <<op, doing, image, got, disturbed, fileVarsOfFlash>>
    BY <1>1 DEF toolWorks, ExecOK
  <2>2. RunOK' /\ ExecOK' /\ UNCHANGED <<mod, pc>>
    BY <2>1, CommandStays, RunSteps DEF runVars
  <2>3. ImageOK'
    BY <1>0, <2>1 DEF ImageOK, runVars, execVars, Sent
  <2>4. FlashTrue'
    BY <2>1 DEF FlashTrue, runVars
  <2> QED
    BY <2>1, <2>2, <2>3, <2>4, FlashKeeps DEF fileVarsOfFlash
<1>2. CASE toolFinishes
  <2>1. UNCHANGED runVars /\ pc = "exec" /\ kind = "flash" /\ ExecOK' /\ UNCHANGED <<op, doing, got, disturbed, fileVarsOfFlash>>
    BY <1>2, CommandExits DEF toolFinishes, Exits
  <2>2. ~half'
    BY <1>2, Zenon DEF toolFinishes
  <2>3. RunOK' /\ UNCHANGED <<mod, pc, cmd, runs, overlapped>>
    BY <2>1, RunSteps DEF runVars
  <2>4. /\ doing = "write" => chip' = image /\ UNCHANGED image
        /\ doing = "read" => image' = chip /\ UNCHANGED chip
    BY <1>2 DEF toolFinishes
  <2>5. ImageOK'
    BY <1>0, <2>1, <2>2, <2>3, <2>4 DEF ImageOK, Sent
  <2>6. FlashTrue'
    BY <2>1, <2>3 DEF FlashTrue
  <2> QED
    BY <2>1, <2>3, <2>5, <2>6, FlashKeeps DEF fileVarsOfFlash
<1>3. CASE neighbourWrites
  <2>1. UNCHANGED <<runVars, execVars>> /\ pc # "idle" /\ kind = "flash" /\ UNCHANGED <<op, doing, chip, got, half, fileVarsOfFlash>>
    BY <1>3 DEF neighbourWrites
  <2>2. RunOK' /\ ExecOK' /\ UNCHANGED <<mod, pc>>
    BY <2>1, CommandStays, RunSteps DEF runVars
  <2>3. disturbed'
    BY <1>3, Zenon DEF neighbourWrites
  <2>4. ImageOK'
    BY <1>0, <2>1, <2>3 DEF ImageOK, runVars, execVars
  <2>5. FlashTrue'
    BY <2>1 DEF FlashTrue, runVars
  <2> QED
    BY <2>1, <2>2, <2>4, <2>5, FlashKeeps DEF fileVarsOfFlash
<1>4. CASE otherFlashes
  <2>1. /\ kind = "flash" /\ OtherRun /\ localPath' \in {localPath, {0}} /\ UNCHANGED <<half, files>>
        /\ UNCHANGED execVars
    BY <1>4 DEF otherFlashes
  <2>2. RunOK' /\ UNCHANGED <<mod, pc>> /\ ExecOK'
    BY <2>1, CommandStays, RunSteps
  <2>3. overlapped'
    BY <2>1, Zenon DEF OtherRun
  <2>4. pc' = "exec" /\ exit' = "ok" => ~half'
    BY <1>0, <2>1, <2>2 DEF ImageOK, execVars
  <2> QED
    BY <2>1, <2>2, <2>3, <2>4, FlashMixed
<1>5. CASE otherEmulates
  <2>1. kind = "emulate" /\ OtherRun /\ UNCHANGED execVars /\ exposed' = exposed \cup localPath \cup {runs, otherFile}
    BY <1>5 DEF otherEmulates
  <2>2. RunOK' /\ UNCHANGED <<mod, pc, runs, life>> /\ ExecOK'
    BY <2>1, CommandStays, RunSteps
  <2>3. (localPath' = {} \/ localPath' = {otherFile}) /\ files' \subseteq files \cup {otherFile}
    BY <1>5 DEF otherEmulates
  <2>4. otherFile \in 0..(MaxRuns + 1) /\ otherFile \in 1..(MaxRuns + 1)
    BY ModuleRunAssumption DEF otherFile
  <2>5. files \subseteq localPath \cup exposed /\ files \subseteq 1..(MaxRuns + 1)
    BY <2>1 DEF FlashOK, NoFilesLeft
  <2>6. files' \subseteq exposed'
    BY <2>1, <2>3, <2>5
  <2>7. EmulatedOK' /\ NoFilesLeft'
    BY <2>1, <2>2, <2>3, <2>6 DEF EmulatedOK, NoFilesLeft
  <2>8. files' \subseteq 1..(MaxRuns + 1) /\ localPath' \subseteq 0..(MaxRuns + 1)
    BY <2>3, <2>4, <2>5
  <2> QED
    BY <2>1, <2>2, <2>7, <2>8, EmulateKeeps
<1> QED
  BY <1>1, <1>2, <1>3, <1>4, <1>5 DEF FlashEnvironment

(* The file of flash-emulate: only the one of the instance exists, and the     *)
(* exposed ones.                                                             *)
LEMMA EmulateSteps ==
  ASSUME RunOK, ExecOK, FlashOK, kind = "emulate", FlashStep
  PROVE  RunOK' /\ ExecOK' /\ FlashOK' /\ UNCHANGED mod
<1>0. /\ files \subseteq localPath \cup exposed /\ (life = "gone" => files \subseteq exposed)
      /\ files \subseteq 1..(MaxRuns + 1) /\ localPath \subseteq 0..(MaxRuns + 1) /\ EmulatedOK
  BY DEF FlashOK, NoFilesLeft
<1>1. pc # "idle" => runs \in 1..(MaxRuns + 1) /\ runs \in 0..(MaxRuns + 1)
  BY ModuleRunAssumption DEF RunOK, RunTypeOK
<1>2. ASSUME UNCHANGED <<mod, life, runs>>, pc # "idle", pc' # "begin", Removes, localPath' = {}, pc' \notin {"upload", "exec"}
      PROVE  FlashOK'
  <2>1. files' \subseteq files /\ exposed' = exposed \cup (files' \cap localPath)
    BY <1>2 DEF Removes
  <2>2. files' \subseteq exposed'
    BY <1>0, <2>1
  <2>3. EmulatedOK' /\ NoFilesLeft'
    BY <1>0, <1>2, <2>1, <2>2 DEF EmulatedOK, NoFilesLeft
  <2> QED
    BY <1>0, <1>2, <2>1, <2>3, EmulateKeeps
<1>3. ASSUME UNCHANGED <<mod, life, runs>>, UNCHANGED fileVarsOfFlash, pc' = "idle"
      PROVE  FlashOK'
  BY <1>0, <1>3, EmulateKeeps DEF EmulatedOK, NoFilesLeft, fileVarsOfFlash
<1>4. CASE emulateInit
  <2>1. PICK ok \in BOOLEAN : InitReturns(ok)
    BY <1>4, Zenon DEF emulateInit
  <2>2. RunOK' /\ UNCHANGED <<mod, pc, runs>> /\ pc = "idle" /\ life' # "gone"
    BY <2>1, RunSteps DEF InitReturns
  <2>3. ExecOK'
    BY <1>4, <2>2, CommandOver DEF emulateInit
  <2>4. EmulatedOK' /\ NoFilesLeft'
    BY <1>0, <1>4, <2>2 DEF EmulatedOK, NoFilesLeft, emulateInit, flashVars
  <2> QED
    BY <1>0, <1>4, <2>2, <2>3, <2>4, EmulateKeeps DEF emulateInit, flashVars
<1>5. CASE emulateRun
  <2>1. (Return("error") /\ UNCHANGED fileVarsOfFlash) \/ (Removes /\ localPath' = {} /\ To("create"))
    BY <1>5, Zenon DEF emulateRun
  <2>2. RunOK' /\ UNCHANGED <<mod, life, runs>> /\ pc = "begin" /\ pc' \in {"idle", "create"}
    BY <1>5, <2>1, RunSteps DEF emulateRun, To, Return
  <2>3. ExecOK'
    BY <1>5, <2>2, CommandOver DEF emulateRun
  <2> QED
    BY <1>2, <1>3, <2>1, <2>2, <2>3 DEF Return, To
<1>6. CASE emulateCreate
  <2>1. \/ files' = files \cup {runs} /\ localPath' = {runs} /\ To("upload")
        \/ UNCHANGED <<files, localPath>> /\ Return("error")
    BY <1>6 DEF emulateCreate
  <2>2. RunOK' /\ UNCHANGED <<mod, life, runs, exposed>> /\ pc = "create" /\ pc' \in {"idle", "upload"}
    BY <1>6, <2>1, RunSteps DEF emulateCreate, To, Return
  <2>3. ExecOK'
    BY <1>6, <2>2, CommandOver DEF emulateCreate
  <2>4. CASE files' = files \cup {runs} /\ localPath' = {runs} /\ To("upload")
    <3>1. localPath \subseteq exposed /\ files \subseteq exposed /\ (life = "gone" => runs \in exposed)
      BY <1>0, <2>2 DEF EmulatedOK
    <3>2. EmulatedOK' /\ NoFilesLeft'
      BY <2>2, <2>4, <3>1 DEF EmulatedOK, NoFilesLeft, To
    <3>3. files' \subseteq 1..(MaxRuns + 1) /\ localPath' \subseteq 0..(MaxRuns + 1)
      BY <1>0, <1>1, <2>2, <2>4
    <3> QED
      BY <2>2, <2>3, <3>2, <3>3, EmulateKeeps
  <2>5. CASE UNCHANGED <<files, localPath>> /\ Return("error")
    BY <1>3, <2>2, <2>3, <2>5 DEF Return, fileVarsOfFlash
  <2> QED
    BY <2>1, <2>4, <2>5
<1>7. CASE emulateUpload
  <2>1. CASE Starts /\ files' = files \cup {runs} /\ UNCHANGED <<localPath, exposed>>
    <3>1. RunOK' /\ ExecOK' /\ UNCHANGED mod
      BY <1>7, <2>1, CommandStarts DEF emulateUpload, ExecKinds
    <3>2. pc = "upload" /\ pc' = "exec" /\ UNCHANGED <<life, runs>>
      BY <1>7, <2>1 DEF emulateUpload, Starts, To
    <3>3. runs \in localPath \cup exposed /\ (life = "gone" => runs \in exposed)
      BY <1>0, <3>2 DEF EmulatedOK
    <3>4. EmulatedOK' /\ NoFilesLeft'
      BY <1>0, <2>1, <3>2, <3>3 DEF EmulatedOK, NoFilesLeft
    <3>5. files' \subseteq 1..(MaxRuns + 1) /\ localPath' \subseteq 0..(MaxRuns + 1)
      BY <1>0, <1>1, <2>1, <3>2
    <3> QED
      BY <3>1, <3>4, <3>5, EmulateKeeps
  <2>2. CASE Removes /\ localPath' = {} /\ Return("error") /\ UNCHANGED execVars
    <3>1. RunOK' /\ UNCHANGED <<mod, life, runs>> /\ pc = "upload" /\ pc' = "idle"
      BY <1>7, <2>2, RunSteps DEF emulateUpload, Return
    <3>2. ExecOK'
      BY <2>2, <3>1, CommandOver
    <3> QED
      BY <1>2, <2>2, <3>1, <3>2
  <2> QED
    BY <1>7, <2>1, <2>2 DEF emulateUpload
<1>8. CASE emulateReturns
  <2>1. \/ Return("ok") /\ UNCHANGED fileVarsOfFlash
        \/ Return("error") /\ Removes /\ localPath' = {}
    BY <1>8 DEF emulateReturns
  <2>2. RunOK' /\ UNCHANGED <<mod, life, runs>> /\ pc' = "idle" /\ pc = "exec"
    BY <1>8, <2>1, RunSteps DEF Return, emulateReturns, Waited
  <2>3. ExecOK'
    BY <1>8, <2>2, CommandOver DEF emulateReturns
  <2> QED
    BY <1>2, <1>3, <2>1, <2>2, <2>3
<1>9. CASE emulateDeinit
  <2>1. RunOK' /\ UNCHANGED <<mod, pc, runs>>
    BY <1>9, RunSteps DEF emulateDeinit
  <2>2. ExecOK'
    BY <1>9, <2>1, CommandStays DEF emulateDeinit
  <2>3. /\ files' \subseteq files /\ UNCHANGED localPath
        /\ exposed \cup (files' \cap localPath) \subseteq exposed' /\ (pc # "idle" => runs \in exposed')
    BY <1>9 DEF emulateDeinit
  <2>4. files' \subseteq exposed'
    BY <1>0, <2>3
  <2>5. EmulatedOK' /\ NoFilesLeft'
    BY <1>0, <2>1, <2>3, <2>4 DEF EmulatedOK, NoFilesLeft
  <2> QED
    BY <1>0, <2>1, <2>2, <2>3, <2>5, EmulateKeeps
<1> QED
  BY <1>4, <1>5, <1>6, <1>7, <1>8, <1>9
  DEF FlashStep, flashInit, flashRun, flashUpload, flashStart, flashSignal, flashReturns, flashDownload, flashDeinit

(* A call of a flash module starts with the file of the last one at most.     *)
LEMMA FlashCalls ==
  ASSUME FlashOK, FlashCall, UNCHANGED flashVars
  PROVE  FlashOK' /\ kind \in {"flash", "emulate"}
BY DEF FlashCall, RunCalled, FlashOK, FlashTrue, NoFilesLeft, ImageOK, EmulatedOK, kind, flashVars

-----------------------------------------------------------------------------
(* The file module.                                                         *)

(* A set of numbers that is not empty has a least one.                      *)
LEMMA LeastNumber ==
  ASSUME NEW T, T \subseteq Nat, T # {}
  PROVE  \E x \in T : \A y \in T : x <= y
<1>1. PICK x \in T : \A y \in T : ~(<<y, x>> \in OpToRel(<, Nat))
  BY WFMin, NatLessThanWellFounded
<1>2. \A y \in T : ~(y < x)
  BY <1>1 DEF OpToRel
<1>3. \A y \in T : x <= y
  BY <1>2
<1> QED
  BY <1>3, Zenon

(* A set that holds 0 and with each number the next one holds them all.     *)
LEMMA NumberLadder ==
  ASSUME NEW S, 0 \in S, \A n \in Nat : n \in S => n + 1 \in S
  PROVE  Nat \subseteq S
<1> DEFINE T == Nat \ S
<1>1. SUFFICES ASSUME T # {} PROVE FALSE
  OBVIOUS
<1>2. PICK x \in T : \A y \in T : x <= y
  BY <1>1, LeastNumber
<1>3. x # 0 /\ x \in Nat
  BY <1>2
<1>4. x - 1 \in Nat /\ x - 1 \notin T
  BY <1>2, <1>3
<1> QED
  BY <1>2, <1>3, <1>4

(* What Clean has kept of the first names of a path.                        *)
IsCleaning(f, path) ==
  f = [k \in 0..Len(path) |-> IF k = 0 THEN <<>> ELSE CleanName(f[k - 1], path[k])]

Cleaning(path) == CHOOSE f : IsCleaning(f, path)

LEMMA CleaningExists ==
  ASSUME NEW path, NEW n \in Nat, n = Len(path)
  PROVE  IsCleaning(Cleaning(path), path)
<1> DEFINE Follows(f, k) == /\ DOMAIN f = Nat /\ f[0] = <<>>
                            /\ \A i \in 1..k : f[i] = CleanName(f[i - 1], path[i])
           S == {k \in Nat : \E f : Follows(f, k)}
<1>1. 0 \in S
  <2>1. Follows([i \in Nat |-> <<>>], 0)
    OBVIOUS
  <2> QED
    BY <2>1, Zenon
<1>2. ASSUME NEW k \in Nat, k \in S PROVE k + 1 \in S
  <2>1. PICK f : Follows(f, k)
    BY <1>2
  <2>2. PICK v : v = CleanName(f[k], path[k + 1])
    OBVIOUS
  <2>3. PICK g : g = [f EXCEPT ![k + 1] = v]
    OBVIOUS
  <2>4. DOMAIN g = Nat /\ g[0] = <<>> /\ g[k + 1] = v /\ \A i \in 0..k : g[i] = f[i]
    BY <2>1, <2>3
  <2>5. ASSUME NEW i \in 1..(k + 1) PROVE g[i] = CleanName(g[i - 1], path[i])
    <3>1. CASE i = k + 1
      <4>1. g[i] = v /\ i - 1 = k /\ g[k] = f[k]
        BY <2>4, <3>1
      <4> QED
        BY <2>2, <3>1, <4>1, Zenon
    <3>2. CASE i # k + 1
      <4>1. i \in 1..k /\ i - 1 \in 0..k /\ i \in 0..k
        BY <3>2
      <4>2. g[i] = f[i] /\ g[i - 1] = f[i - 1] /\ f[i] = CleanName(f[i - 1], path[i])
        BY <2>1, <2>4, <4>1
      <4> QED
        BY <4>2, Zenon
    <3> QED
      BY <3>1, <3>2
  <2>6. Follows(g, k + 1)
    BY <2>4, <2>5
  <2>7. k + 1 \in Nat
    OBVIOUS
  <2> QED
    BY <2>6, <2>7, Zenon
<1>3. n \in S
  <2> HIDE DEF S
  <2> QED
    BY <1>1, <1>2, NumberLadder
<1>4. PICK f : Follows(f, n)
  BY <1>3
<1>5. PICK g : g = [i \in 0..n |-> f[i]]
  OBVIOUS
<1>6. ASSUME NEW i \in 0..n PROVE g[i] = IF i = 0 THEN <<>> ELSE CleanName(g[i - 1], path[i])
  <2>1. CASE i = 0
    BY <1>4, <1>5, <2>1
  <2>2. CASE i # 0
    <3>1. i \in 1..n /\ i - 1 \in 0..n
      BY <2>2
    <3>2. g[i] = f[i] /\ g[i - 1] = f[i - 1] /\ f[i] = CleanName(f[i - 1], path[i])
      BY <1>4, <1>5, <3>1
    <3> QED
      BY <2>2, <3>2, Zenon
  <2> QED
    BY <2>1, <2>2
<1>7. IsCleaning(g, path)
  <2>1. g = [i \in 0..n |-> g[i]]
    BY <1>5
  <2>2. g = [i \in 0..n |-> IF i = 0 THEN <<>> ELSE CleanName(g[i - 1], path[i])]
    BY <1>6, <2>1, Zenon
  <2> QED
    BY <2>2 DEF IsCleaning
<1> QED
  BY <1>7, Zenon DEF Cleaning

(* A cleaned path has the root only in front, and goes up only at its        *)
(* beginning.                                                               *)
IsClean(done) ==
  /\ done \in Seq(STRING)
  /\ \A k \in 1..Len(done) : done[k] = "/" => k = 1
  /\ \A k \in 1..Len(done) : done[k] = ".." => \A j \in 1..k : done[j] \in {"..", "/"}

LEMMA CleanNameKeeps ==
  ASSUME NEW done, IsClean(done), NEW name \in STRING, name = "/" => done = <<>>
  PROVE  IsClean(CleanName(done, name))
<1>1. PICK n \in Nat : n = Len(done)
  BY DEF IsClean
<1>2. CASE name = "."
  BY <1>2 DEF CleanName
<1>3. CASE name = ".." /\ done # <<>> /\ Last(done) \notin {"..", "/"}
  <2>1. CleanName(done, name) = Front(done)
    <3>1. name # "." /\ done # <<"/">>
      BY <1>3 DEF Last
    <3> QED
      BY <1>3, <3>1, Zenon DEF CleanName
  <2>2. n > 0
    BY <1>1, <1>3 DEF IsClean
  <2>3. Front(done) \in Seq(STRING) /\ Len(Front(done)) = n - 1 /\ \A k \in 1..(n - 1) : Front(done)[k] = done[k]
    BY <1>1, <2>2 DEF Front, IsClean
  <2> QED
    BY <1>1, <2>1, <2>2, <2>3 DEF IsClean
<1>4. CASE name = ".." /\ done = <<"/">>
  <2>1. Last(done) = "/"
    BY <1>4 DEF Last
  <2>2. CleanName(done, name) = done
    BY <1>4, <2>1 DEF CleanName
  <2> QED
    BY <2>2
<1>5. CASE /\ name # "." /\ ~(name = ".." /\ done # <<>> /\ Last(done) \notin {"..", "/"})
           /\ ~(name = ".." /\ done = <<"/">>)
  <2>1. CleanName(done, name) = Append(done, name)
    BY <1>5 DEF CleanName
  <2>2. PICK a \in Seq(STRING) : a = Append(done, name)
    <3>1. done \in Seq(STRING)
      BY DEF IsClean
    <3>2. Append(done, name) \in Seq(STRING)
      BY <3>1
    <3> QED
      BY <3>2, Zenon
  <2>3. Len(a) = n + 1 /\ a[n + 1] = name /\ \A k \in 1..n : a[k] = done[k]
    BY <1>1, <2>2 DEF IsClean
  <2>4. name = "/" => n = 0
    BY <1>1
  <2>5. ASSUME name = "..", n > 0 PROVE \A j \in 1..n : done[j] \in {"..", "/"}
    <3>1. done[n] \in {"..", "/"}
      BY <1>1, <1>5, <2>5 DEF Last, IsClean
    <3>2. CASE done[n] = ".."
      BY <1>1, <2>5, <3>2 DEF IsClean
    <3>3. CASE done[n] = "/"
      <4>1. n = 1
        BY <1>1, <2>5, <3>3 DEF IsClean
      <4> QED
        BY <3>3, <4>1
    <3> QED
      BY <3>1, <3>2, <3>3
  <2>6. \A k \in 1..(n + 1) : a[k] = "/" => k = 1
    BY <1>1, <2>3, <2>4 DEF IsClean
  <2>7. ASSUME NEW k \in 1..(n + 1), a[k] = "..", NEW j \in 1..k PROVE a[j] \in {"..", "/"}
    <3>1. CASE k = n + 1
      BY <2>3, <2>5, <2>7, <3>1
    <3>2. CASE k # n + 1
      <4>1. k \in 1..n /\ j \in 1..n
        BY <3>2
      <4>2. done[k] = ".." /\ a[j] = done[j]
        BY <2>3, <2>7, <4>1
      <4> QED
        BY <1>1, <4>1, <4>2 DEF IsClean
    <3> QED
      BY <3>1, <3>2
  <2> QED
    BY <2>1, <2>2, <2>3, <2>6, <2>7 DEF IsClean
<1> QED
  BY <1>2, <1>3, <1>4, <1>5

(* So the result of Clean is clean, whatever the path looks like.           *)
LEMMA CleanIsClean ==
  ASSUME NEW path \in Seq(STRING), \A k \in 2..Len(path) : path[k] # "/"
  PROVE  IsClean(Clean(path))
<1>1. PICK n \in Nat : n = Len(path)
  OBVIOUS
<1>2. PICK f : f = Cleaning(path)
  OBVIOUS
<1>3. f = [k \in 0..n |-> IF k = 0 THEN <<>> ELSE CleanName(f[k - 1], path[k])]
  <2>1. IsCleaning(f, path)
    BY <1>1, <1>2, CleaningExists
  <2> QED
    BY <1>1, <2>1, Zenon DEF IsCleaning
<1>4. Clean(path) = f[n]
  BY <1>1, <1>2, Zenon DEF Clean, Cleaning, IsCleaning
<1>5. \A k \in 0..n : f[k] = IF k = 0 THEN <<>> ELSE CleanName(f[k - 1], path[k])
  BY <1>3, Zenon
<1> DEFINE S == {k \in Nat : k <= n => IsClean(f[k])}
<1>6. f[0] = <<>> /\ \A k \in 1..n : f[k] = CleanName(f[k - 1], path[k])
  <2>1. f[0] = <<>>
    BY <1>5
  <2>2. ASSUME NEW k \in 1..n PROVE f[k] = CleanName(f[k - 1], path[k])
    <3>1. k \in 0..n /\ k # 0
      OBVIOUS
    <3> QED
      BY <1>5, <3>1, Zenon
  <2> QED
    BY <2>1, <2>2
<1>7. 0 \in S
  <2>1. IsClean(<<>>)
    <3>1. <<>> \in Seq(STRING) /\ Len(<<>>) = 0
      OBVIOUS
    <3>2. \A k \in 1..Len(<<>>) : FALSE
      BY <3>1
    <3> QED
      BY <3>1, <3>2, Zenon DEF IsClean
  <2> QED
    BY <1>6, <2>1
<1>8. ASSUME NEW k \in Nat, k \in S PROVE k + 1 \in S
  <2>1. SUFFICES ASSUME k + 1 <= n PROVE IsClean(f[k + 1])
    OBVIOUS
  <2>2. k + 1 \in 1..n /\ (k + 1) - 1 = k /\ IsClean(f[k])
    BY <1>8, <2>1
  <2>3. path[k + 1] \in STRING
    BY <1>1, <2>2
  <2>4. path[k + 1] = "/" => f[k] = <<>>
    <3>1. CASE k = 0
      BY <1>6, <3>1
    <3>2. CASE k # 0
      BY <1>1, <2>2, <3>2
    <3> QED
      BY <3>1, <3>2
  <2>5. f[k + 1] = CleanName(f[k], path[k + 1])
    BY <1>6, <2>2
  <2> QED
    BY <2>2, <2>3, <2>4, <2>5, CleanNameKeeps, Zenon
<1>9. n \in S
  <2> HIDE DEF S
  <2> QED
    BY <1>7, <1>8, NumberLadder
<1> QED
  BY <1>4, <1>9

(* A path without the root and without a step up does not escape.           *)
LEMMA NoStepUp ==
  ASSUME NEW p \in Seq(STRING), \A k \in 1..Len(p) : p[k] \notin {"/", ".."}
  PROVE  ~Escapes(p)
<1>1. SUFFICES ASSUME NEW k \in 1..Len(p) PROVE
        ~(p[k] = "/" \/ Cardinality({i \in 1..k : p[i] = ".."}) > Cardinality({i \in 1..k : p[i] \notin {"..", ".", "/"}}))
  BY Zenon DEF Escapes
<1>2. {i \in 1..k : p[i] = ".."} = {}
  OBVIOUS
<1>3. Cardinality({i \in 1..k : p[i] = ".."}) = 0
  BY <1>2, FS_EmptySet, Zenon
<1>4. PICK T : T = {i \in 1..k : p[i] \notin {"..", ".", "/"}}
  OBVIOUS
<1>5. IsFiniteSet(1..k)
  BY FS_Interval
<1>6. IsFiniteSet(T)
  BY <1>4, <1>5, FS_Subset
<1>7. PICK c \in Nat : c = Cardinality(T)
  BY <1>6, FS_CardinalityType
<1>8. ~(0 > c)
  OBVIOUS
<1> QED
  BY <1>3, <1>4, <1>7, <1>8

(* What sanitizePath lets through stays inside.                             *)
LEMMA SanitizedStays ==
  ASSUME NEW path \in FilePaths, sanitizePath(path).ok
  PROVE  sanitizePath(path) = Both(NoPath, Clean(path)) /\ ~Escapes(Clean(path))
<1>1. PICK c : c = Clean(path)
  OBVIOUS
<1>2. path \in Seq(STRING) /\ \A k \in 2..Len(path) : path[k] # "/"
  BY FilePathsAssumption
<1>3. IsClean(c)
  BY <1>1, <1>2, CleanIsClean
<1>4. ~Bad.ok
  BY DEF Bad
<1>5. ~(c # <<>> /\ c[1] \in {"/"} \cup DotDotNames)
  BY <1>1, <1>4, Zenon DEF sanitizePath
<1>6. sanitizePath(path) = Both(NoPath, c)
  BY <1>1, <1>5, Zenon DEF sanitizePath
<1>7. ASSUME NEW k \in 1..Len(c) PROVE c[k] \notin {"/", ".."}
  <2>1. 1 \in 1..k /\ c # <<>>
    BY <1>3, <1>7 DEF IsClean
  <2>2. c[1] \notin {"/", ".."}
    BY <1>5, <2>1, FilePathsAssumption
  <2> QED
    BY <1>3, <2>1, <2>2 DEF IsClean
<1>8. ~Escapes(c)
  BY <1>3, <1>7, NoStepUp DEF IsClean
<1> QED
  BY <1>1, <1>6, <1>8

(* So does the destination that evalArgs takes from the arguments, unless    *)
(* it names a directory.                                                    *)
LEMMA ParsedStays ==
  ASSUME NEW a \in FileArgs, parsePaths(a).ok, mod.destination = NoPath
  PROVE  IsDir(parsePaths(a).dest) \/ ~Escapes(parsePaths(a).dest)
<1>1. ~Bad.ok
  BY DEF Bad
<1>2. Len(a) = 1 /\ a[1] # <<<<>>>>
  BY <1>1, Zenon DEF parsePaths
<1>3. CASE \E p \in FilePaths : a = <<<<p>>>>
  <2>1. PICK p \in FilePaths : a = <<<<p>>>>
    BY <1>3
  <2>2. a[1] = <<p>> /\ Len(a[1]) = 1 /\ a[1][1] = p /\ p # <<>>
    BY <1>2, <2>1
  <2>3. parsePaths(a) = parseSinglePath(p)
    BY <1>2, <2>2, Zenon DEF parsePaths
  <2>4. CASE mod.source # NoPath
    <3>1. parseSinglePath(p) = [sanitizePath(p) EXCEPT !.source = mod.source]
      BY <2>4, Zenon DEF parseSinglePath
    <3>2. sanitizePath(p).ok /\ sanitizePath(p).dest = parseSinglePath(p).dest
      <4>1. PICK c : c = Clean(p)
        OBVIOUS
      <4>2. sanitizePath(p) \in {Bad, Both(NoPath, c)}
        BY <4>1, Zenon DEF sanitizePath
      <4> QED
        BY <2>3, <3>1, <4>2 DEF Bad, Both
    <3>3. sanitizePath(p).dest = Clean(p) /\ ~Escapes(Clean(p))
      BY <3>2, SanitizedStays DEF Both
    <3> QED
      BY <2>3, <3>2, <3>3
  <2>5. CASE mod.source = NoPath
    <3>1. parseSinglePath(p) = Both(p, <<Last(p)>>)
      BY <2>5 DEF parseSinglePath
    <3>2. p \in Seq(STRING) /\ Len(p) \in 1..Len(p)
      BY <2>2, FilePathsAssumption
    <3>3. PICK l \in STRING : l = Last(p)
      <4>1. p[Len(p)] \in STRING
        BY <3>2
      <4> QED
        BY <4>1, Zenon DEF Last
    <3>4. parsePaths(a).dest = <<l>>
      BY <2>3, <3>1, <3>3 DEF Both
    <3>5. CASE l \in {".", "..", "/"}
      <4>1. Last(<<l>>) = l
        BY DEF Last
      <4> QED
        BY <3>4, <3>5, <4>1 DEF IsDir
    <3>6. CASE l \notin {".", "..", "/"}
      <4>1. ~Escapes(<<l>>)
        <5>1. <<l>> \in Seq(STRING) /\ \A k \in 1..Len(<<l>>) : <<l>>[k] \notin {"/", ".."}
          BY <3>6
        <5> QED
          BY <5>1, NoStepUp
      <4> QED
        BY <3>4, <4>1
    <3> QED
      BY <3>5, <3>6
  <2> QED
    BY <2>4, <2>5
<1>4. CASE \E p, q \in FilePaths : a = <<<<p, q>>>>
  <2>1. PICK p \in FilePaths, q \in FilePaths : a = <<<<p, q>>>>
    BY <1>4
  <2>2. a[1] = <<p, q>> /\ Len(a[1]) # 1 /\ a[1][1] = p /\ a[1][2] = q
    BY <2>1
  <2>3. parsePaths(a) = parseColonPath(a[1])
    BY <1>2, <2>2, Zenon DEF parsePaths
  <2>4. sanitizePath(p).ok /\ sanitizePath(q).ok /\ parsePaths(a) = Both(sanitizePath(p).dest, sanitizePath(q).dest)
    BY <1>1, <2>2, <2>3 DEF parseColonPath
  <2>5. sanitizePath(q).dest = Clean(q) /\ ~Escapes(Clean(q))
    BY <2>4, SanitizedStays DEF Both
  <2> QED
    BY <2>4, <2>5 DEF Both
<1> QED
  BY <1>2, <1>3, <1>4 DEF FileArgs

LEMMA FileSteps ==
  ASSUME RunOK, FileOK, FileStep
  PROVE  RunOK' /\ FileOK' /\ kind = "file" /\ UNCHANGED mod /\ pc' # "exec"
<1> USE DEF FileOK, UploadWhole, kind, PathOK, StaysInside
<1>1. CASE fileInit
  <2>1. /\ life = "new" /\ life' \in {"ready", "failed"} /\ kind = "file"
        /\ UNCHANGED <<mod, pc, cmd, outcome, cancelled, runs, overlapped, dest, paths, ignored>>
        /\ life' = "ready" => mod.operation \in {"upload", "download"}
    BY <1>1 DEF fileInit, InitReturns, fileVars
  <2>2. RunOK'
    BY <2>1 DEF RunOK, RunTypeOK
  <2> QED
    BY <2>1, <2>2
<1>2. CASE fileRun
  <2>1. /\ kind = "file" /\ pc = "begin" /\ dest' \in {"absent", "old"}
        /\ To(mod.operation) \/ Return("error")
    BY <1>2 DEF fileRun
  <2>2. mod.operation \in {"upload", "download"}
    BY <2>1
  <2>3. RunOK'
    BY <2>1, <2>2, RunSteps
  <2>4. pc' # "idle" /\ mod.destination = NoPath => IsDir(paths'.dest) \/ ~Escapes(paths'.dest)
    <3>1. paths' = parsePaths(cmd) /\ (pc' # "idle" => parsePaths(cmd).ok)
      BY <1>2, Zenon DEF fileRun, Return
    <3> QED
      BY <2>1, <3>1, ParsedStays
  <2>5. UNCHANGED mod
    BY <2>1 DEF To, Return
  <2>6. PathOK'
    BY <2>1, <2>2, <2>4, <2>5 DEF To, Return
  <2>7. StaysInside'
    BY <2>1, <2>2 DEF RunOK, RunTypeOK, To, Return
  <2> QED
    BY <2>1, <2>2, <2>3, <2>6, <2>7 DEF To, Return
<1>3. CASE uploadOpen
  <2>1. RunOK'
    BY <1>3, RunSteps DEF uploadOpen
  <2> QED
    BY <1>3, <2>1 DEF uploadOpen, To, Return
<1>4. CASE uploadCopy
  <2>1. RunOK' /\ (Return("ok") \/ Return("error"))
    BY <1>4, RunSteps DEF uploadCopy
  <2>2. dest' = "partial" => ignored'
    <3>1. CASE dest' \in {"new", "absent"}
      BY <3>1
    <3>2. CASE ignored' = TRUE
      BY <3>2, Zenon
    <3> QED
      BY <1>4, <3>1, <3>2 DEF uploadCopy
  <2>3. ignored' \/ (Return("ok") => dest' = "new") \/ Return("error")
    BY <1>4, <2>2 DEF uploadCopy
  <2>4. dest' \in {"new", "absent", "partial"} /\ UNCHANGED paths /\ pc = "copy" /\ kind = "file"
    BY <1>4 DEF uploadCopy
  <2>5. UploadWhole'
    BY <2>1, <2>2, <2>3, <2>4 DEF Return
  <2> QED
    BY <2>1, <2>4, <2>5 DEF Return
<1>5. CASE downloadFile
  <2>1. RunOK'
    BY <1>5, RunSteps DEF downloadFile
  <2> QED
    BY <1>5, <2>1 DEF downloadFile, Return
<1>6. CASE fileDeinit
  <2>1. RunOK' /\ UNCHANGED <<mod, pc, cmd, outcome, fileVars>> /\ kind = "file" /\ life' = "gone"
    BY <1>6, RunSteps DEF fileDeinit
  <2>2. (overlapped => overlapped') /\ life \in {"new", "ready", "failed"}
    BY <1>6, Zenon DEF fileDeinit, DeinitCalled
  <2>3. pc # "idle" => life = "ready"
    BY <2>2 DEF RunOK, RunTypeOK
  <2> QED
    BY <2>1, <2>2, <2>3 DEF fileVars
<1> QED
  BY <1>1, <1>2, <1>3, <1>4, <1>5, <1>6 DEF FileStep

(* Another transfer between the steps of this one.                          *)
LEMMA FileHappens ==
  ASSUME RunOK, FileOK, otherTransfers
  PROVE  RunOK' /\ FileOK' /\ kind = "file" /\ UNCHANGED <<mod, pc>>
<1>1. kind = "file" /\ pc # "idle" /\ OtherRun /\ dest' \in {dest, "absent", "partial", "old"}
  BY DEF otherTransfers
<1>2. RunOK' /\ UNCHANGED <<mod, life, pc, cmd, outcome>>
  BY <1>1, RunSteps
<1>3. overlapped'
  BY <1>1, Zenon DEF OtherRun
<1> QED
  BY <1>1, <1>2, <1>3 DEF FileOK, UploadWhole, kind, PathOK, StaysInside

(* A call of the file module starts from whatever destination is there.      *)
LEMMA FileCalls ==
  ASSUME FileOK, FileCall, UNCHANGED fileVars
  PROVE  FileOK' /\ kind = "file"
<1>1. kind = "file" /\ pc = "idle" /\ pc' = "begin" /\ cmd' \in FileArgs /\ UNCHANGED <<mod, life, dest>> /\ life = "ready"
  BY DEF FileCall, RunCalled, fileVars
<1> QED
  BY <1>1 DEF FileOK, UploadWhole, kind, PathOK, StaysInside

-----------------------------------------------------------------------------
(* The ssh and time-wait modules.                                           *)
LEMMA RemoteSteps ==
  ASSUME RunOK, ExecOK, RemoteOK, RemoteStep \/ RemoteEnvironment
  PROVE  RunOK' /\ RemoteOK' /\ kind \in {"ssh", "wait"} /\ UNCHANGED mod /\ pc' # "exec"
<1> USE DEF RemoteOK, kind
<1>1. CASE sshInit \/ waitInit
  <2>1. /\ life = "new" /\ life' \in {"ready", "failed"} /\ kind \in {"ssh", "wait"}
        /\ UNCHANGED <<mod, pc, outcome, cancelled, runs, overlapped, client>>
    BY <1>1 DEF sshInit, waitInit, InitReturns
  <2>2. RunOK' /\ pc = "idle"
    BY <2>1 DEF RunOK, RunTypeOK
  <2> QED
    BY <2>1, <2>2
<1>2. CASE sshRun
  <2>1. (To("dial") \/ Return("error")) /\ kind = "ssh" /\ pc = "begin" /\ UNCHANGED client
    BY <1>2 DEF sshRun
  <2>2. RunOK'
    BY <2>1, RunSteps
  <2> QED
    BY <2>1, <2>2 DEF To, Return
<1>3. CASE sshDial
  <2>1. (To("handshake") \/ Return("error")) /\ kind = "ssh" /\ pc = "dial" /\ UNCHANGED client
    BY <1>3 DEF sshDial
  <2>2. RunOK'
    BY <2>1, RunSteps
  <2> QED
    BY <2>1, <2>2 DEF To, Return
<1>4. CASE sshWatches
  <2>1. UNCHANGED runVars /\ client = "open" /\ client' = "closed"
    BY <1>4 DEF sshWatches
  <2>2. RunOK'
    BY <2>1, RunSteps
  <2> QED
    BY <2>1, <2>2 DEF runVars
<1>5. CASE sshFails
  <2>1. RunOK'
    BY <1>5, RunSteps DEF sshFails
  <2> QED
    BY <1>5, <2>1 DEF sshFails, Return
<1>6. CASE sshHandshake
  <2>1. RunOK'
    BY <1>6, RunSteps DEF sshHandshake
  <2> QED
    BY <1>6, <2>1 DEF sshHandshake, To, Return
<1>7. CASE sshProceeds
  <2>1. RunOK'
    BY <1>7, RunSteps DEF sshProceeds
  <2> QED
    BY <1>7, <2>1 DEF sshProceeds, To, Return
<1>8. CASE sshDeinit \/ waitDeinit
  <2>1. DeinitCalled /\ UNCHANGED client /\ kind \in {"ssh", "wait"}
    BY <1>8 DEF sshDeinit, waitDeinit
  <2>2. RunOK' /\ UNCHANGED <<mod, pc>>
    BY <2>1, RunSteps
  <2>3. pc # "exec"
    BY <2>1 DEF ExecOK, ExecKinds
  <2> QED
    BY <2>1, <2>2, <2>3
<1>9. CASE waitRun
  <2>1. (To("timer") \/ Return("error")) /\ kind = "wait" /\ pc = "begin" /\ UNCHANGED client
    BY <1>9 DEF waitRun
  <2>2. RunOK'
    BY <2>1, RunSteps
  <2> QED
    BY <2>1, <2>2 DEF To, Return
<1>10. CASE waitEnds
  <2>1. (Return("ok") \/ Return("error")) /\ kind = "wait" /\ UNCHANGED client
    BY <1>10, Zenon DEF waitEnds
  <2>2. RunOK'
    BY <2>1, RunSteps
  <2> QED
    BY <2>1, <2>2 DEF Return
<1> QED
  BY <1>1, <1>2, <1>3, <1>4, <1>5, <1>6, <1>7, <1>8, <1>9, <1>10 DEF RemoteStep, RemoteEnvironment

(* A call of ssh or time-wait finds no connection of the last one.           *)
LEMMA RemoteCalls ==
  ASSUME RemoteOK, RemoteCall, UNCHANGED remoteVars
  PROVE  RemoteOK' /\ kind \in {"ssh", "wait"}
BY DEF RemoteCall, RunCalled, RemoteOK, remoteVars, kind

-----------------------------------------------------------------------------
(* The agent cancels a Run: nothing but the context changes.                 *)
LEMMA CancelKeeps ==
  ASSUME DevicesInv, UNCHANGED <<mod, life, pc, cmd, outcome, runs, overlapped>>, RunOK',
         UNCHANGED <<gpioVars, powerVars, ipmiVars, execVars, flashVars, fileVars, remoteVars>>
  PROVE  DevicesInv'
<1>1. GpioOK'
  BY DEF DevicesInv, GpioOK, GpioTrue, ButtonReleased, SwitchTrue, SwitchOK, NonePending, OthersNot, newState, inactive,
     active, flip, levelOf, kind, gpioVars
<1>2. PowerOK'
  <2>1. index' = index /\ own' = own /\ kind' = kind
    BY DEF index, own, kind, Channel, powerVars
  <2>2. Working' <=> Working
    BY <2>1 DEF Working, powerVars
  <2> QED
    BY <2>1, <2>2 DEF DevicesInv, PowerOK, PowerTrue, ReportedStateSeen, PowerDone, powerVars
<1>3. IpmiOK'
  BY DEF DevicesInv, IpmiOK, RetriedOnce, StaleSessionHeals, CarriedOut, kind, ipmiVars
<1>4. ExecOK'
  BY DEF DevicesInv, ExecOK, kind, execVars
<1>5. FlashOK'
  BY DEF DevicesInv, FlashOK, FlashTrue, NoFilesLeft, ImageOK, EmulatedOK, Sent, kind, flashVars, execVars
<1>6. FileOK'
  BY DEF DevicesInv, FileOK, UploadWhole, kind, fileVars, PathOK, StaysInside
<1>7. RemoteOK'
  BY DEF DevicesInv, RemoteOK, kind, remoteVars
<1> QED
  BY <1>1, <1>2, <1>3, <1>4, <1>5, <1>6, <1>7 DEF DevicesInv

(* A step of a family's own, seen from the others.                           *)
LEMMA ModuleStepInv ==
  ASSUME DevicesInv, ModuleStep
  PROVE  DevicesInv'
<1> USE DEF DevicesInv
<1>1. CASE GpioStep /\ GpioOnly
  BY <1>1, GpioSteps, PowerStays, IpmiStays, ExecStays, FlashStays, FileStays, RemoteStays
  DEF GpioOnly, GpioKinds, PowerKinds, ExecKinds
<1>2. CASE PowerStep /\ PowerOnly
  BY <1>2, PowerSteps, GpioStays, IpmiStays, ExecStays, FlashStays, FileStays, RemoteStays
  DEF PowerOnly, GpioKinds, PowerKinds, ExecKinds
<1>3. CASE IpmiStep /\ IpmiOnly
  BY <1>3, IpmiSteps, GpioStays, PowerStays, ExecStays, FlashStays, FileStays, RemoteStays
  DEF IpmiOnly, GpioKinds, PowerKinds, ExecKinds
<1>4. CASE ExecStep /\ ExecOnly
  BY <1>4, ExecSteps, GpioStays, PowerStays, IpmiStays, FileStays, RemoteStays
  DEF ExecOnly, GpioKinds, PowerKinds, ExecKinds
<1>5. CASE FlashStep /\ FlashOnly
  <2>1. kind \in {"flash", "emulate"}
    BY <1>5 DEF FlashStep, flashInit, flashRun, flashUpload, flashStart, flashSignal, flashReturns, flashDownload,
                flashDeinit, emulateInit, emulateRun, emulateCreate, emulateUpload, emulateReturns, emulateDeinit
  <2>2. RunOK' /\ ExecOK' /\ FlashOK' /\ UNCHANGED mod
    BY <1>5, <2>1, FlashSteps, EmulateSteps
  <2> QED
    BY <1>5, <2>1, <2>2, GpioStays, PowerStays, IpmiStays, FileStays, RemoteStays
    DEF FlashOnly, GpioKinds, PowerKinds
<1>6. CASE FileStep /\ FileOnly
  BY <1>6, FileSteps, GpioStays, PowerStays, IpmiStays, ExecStays, FlashStays, RemoteStays
  DEF FileOnly, GpioKinds, PowerKinds, ExecKinds
<1>7. CASE RemoteStep /\ RemoteOnly
  BY <1>7, RemoteSteps, GpioStays, PowerStays, IpmiStays, ExecStays, FlashStays, FileStays
  DEF RemoteOnly, GpioKinds, PowerKinds, ExecKinds
<1> QED
  BY <1>1, <1>2, <1>3, <1>4, <1>5, <1>6, <1>7 DEF ModuleStep

(* A call of any module keeps the invariant.                                 *)
LEMMA CallInv ==
  ASSUME DevicesInv, Call
  PROVE  DevicesInv'
<1> USE DEF DevicesInv, GpioKinds, PowerKinds, ExecKinds
<1>1. PICK args : RunCalled(args)
  BY DEF Call, GpioCall, PowerCall, IpmiCall, ShellCall, FlashCall, FileCall, RemoteCall
<1>2. RunOK' /\ UNCHANGED mod /\ pc' # "exec" /\ pc # "exec"
  BY <1>1, RunSteps DEF RunCalled
<1>3. UNCHANGED <<gpioVars, powerVars, ipmiVars, execVars, flashVars, fileVars, remoteVars>>
  BY DEF Call
<1>4. ExecOK'
  BY <1>2, <1>3, CommandOver
<1>5. GpioOK' \/ ~GpioCall
  BY <1>3, GpioCalls
<1>6. GpioCall => kind \in GpioKinds
  BY DEF GpioCall
<1>7. PowerCall => PowerOK' /\ kind \in PowerKinds
  BY <1>3, PowerCalls
<1>8. IpmiCall => IpmiOK' /\ kind = "ipmi"
  BY <1>3, IpmiCalls
<1>9. FlashCall => FlashOK' /\ kind \in {"flash", "emulate"}
  BY <1>3, FlashCalls
<1>10. FileCall => FileOK' /\ kind = "file"
  BY <1>3, FileCalls
<1>11. RemoteCall => RemoteOK' /\ kind \in {"ssh", "wait"}
  BY <1>3, RemoteCalls
<1>12. ShellCall => kind = "shell"
  BY DEF ShellCall
<1>13. /\ GpioOK' \/ kind \in GpioKinds
       /\ PowerOK' \/ kind \in PowerKinds
       /\ IpmiOK' \/ kind = "ipmi"
       /\ FlashOK' \/ kind \in {"flash", "emulate"}
       /\ FileOK' \/ kind = "file"
       /\ RemoteOK' \/ kind = "ssh"
  BY <1>2, <1>3, GpioStays, PowerStays, IpmiStays, FlashStays, FileStays, RemoteStays
<1> HIDE DEF DevicesInv
<1> QED
  BY <1>2, <1>4, <1>5, <1>6, <1>7, <1>8, <1>9, <1>10, <1>11, <1>12, <1>13 DEF Call, DevicesInv

(* So does what happens around the modules.                                  *)
LEMMA EnvironmentInv ==
  ASSUME DevicesInv, Environment
  PROVE  DevicesInv'
<1> USE DEF DevicesInv
<1>1. CASE PowerEnvironment /\ PowerOnly
  <2>1. RunOK' /\ PowerOK' /\ kind \in PowerKinds /\ UNCHANGED <<mod, pc>>
    BY <1>1, PowerMeddled DEF runVars
  <2>2. pc' # "exec"
    BY <2>1 DEF ExecOK, ExecKinds, PowerKinds
  <2> QED
    BY <1>1, <2>1, <2>2, GpioStays, IpmiStays, ExecStays, FlashStays, FileStays, RemoteStays
    DEF PowerOnly, GpioKinds, PowerKinds, ExecKinds
<1>2. CASE IpmiEnvironment /\ IpmiOnly
  <2>1. RunOK' /\ IpmiOK' /\ kind = "ipmi" /\ UNCHANGED <<mod, pc>>
    BY <1>2, IpmiHappens
  <2>2. pc' # "exec"
    BY <2>1 DEF ExecOK, ExecKinds
  <2> QED
    BY <1>2, <2>1, <2>2, GpioStays, PowerStays, ExecStays, FlashStays, FileStays, RemoteStays
    DEF IpmiOnly, GpioKinds, PowerKinds, ExecKinds
<1>3. CASE ExecEnvironment /\ ExecOnly
  <2>1. RunOK' /\ ExecOK' /\ FlashOK' /\ kind \in ExecKinds /\ UNCHANGED mod
    BY <1>3, ExecHappens DEF runVars, ExecOnly
  <2> QED
    BY <1>3, <2>1, GpioStays, PowerStays, IpmiStays, FileStays, RemoteStays
    DEF ExecOnly, GpioKinds, PowerKinds, ExecKinds
<1>4. CASE FlashEnvironment /\ FlashOnly
  <2>1. RunOK' /\ ExecOK' /\ FlashOK' /\ kind \in {"flash", "emulate"} /\ UNCHANGED mod
    BY <1>4, FlashHappens
  <2> QED
    BY <1>4, <2>1, GpioStays, PowerStays, IpmiStays, FileStays, RemoteStays
    DEF FlashOnly, GpioKinds, PowerKinds, ExecKinds
<1>5. CASE RemoteEnvironment /\ RemoteOnly
  BY <1>5, RemoteSteps, GpioStays, PowerStays, IpmiStays, ExecStays, FlashStays, FileStays
  DEF RemoteOnly, GpioKinds, PowerKinds, ExecKinds
<1>6. CASE Cancel /\ UNCHANGED <<gpioVars, powerVars, ipmiVars, execVars, flashVars, fileVars, remoteVars>>
  <2>1. RunOK' /\ UNCHANGED <<mod, life, pc, cmd, outcome, runs, overlapped>>
    BY <1>6, RunSteps DEF Cancel
  <2> HIDE DEF DevicesInv
  <2> QED
    BY <1>6, <2>1, CancelKeeps
<1>7. CASE GpioEnvironment /\ GpioOnly
  <2>1. RunOK' /\ GpioOK' /\ kind \in GpioKinds /\ UNCHANGED <<mod, pc>>
    BY <1>7, GpioHappens
  <2>2. pc' # "exec"
    BY <2>1 DEF ExecOK, ExecKinds, GpioKinds
  <2> QED
    BY <1>7, <2>1, <2>2, PowerStays, IpmiStays, ExecStays, FlashStays, FileStays, RemoteStays
    DEF GpioOnly, GpioKinds, PowerKinds, ExecKinds
<1>8. CASE otherTransfers /\ FileOnly
  <2>1. RunOK' /\ FileOK' /\ kind = "file" /\ UNCHANGED <<mod, pc>>
    BY <1>8, FileHappens
  <2>2. pc' # "exec"
    BY <2>1 DEF ExecOK, ExecKinds
  <2> QED
    BY <1>8, <2>1, <2>2, GpioStays, PowerStays, IpmiStays, ExecStays, FlashStays, RemoteStays
    DEF FileOnly, GpioKinds, PowerKinds, ExecKinds
<1> QED
  BY <1>1, <1>2, <1>3, <1>4, <1>5, <1>6, <1>7, <1>8 DEF Environment

(* The invariant holds at the start.                                         *)
LEMMA DevicesInitInv == DevicesInit => DevicesInv
<1> SUFFICES ASSUME DevicesInit PROVE DevicesInv
  OBVIOUS
<1> USE DEF DevicesInit, RunInit
<1>0. ~cancelled /\ cancelled \in BOOLEAN /\ overlapped \in BOOLEAN /\ mixed \in BOOLEAN
  BY Zenon DEF GpioInit
<1>1. RunOK
  BY <1>0, ModuleRunAssumption DEF RunOK, RunTypeOK
<1>2. GpioOK
  <2>1. /\ pin \in {"low", "high"} /\ state = "off" /\ presses = 0 /\ pending = [i \in 1..MaxOverlap |-> "none"]
        /\ life = "new" /\ pc = "idle"
    BY DEF GpioInit
  <2> HIDE DEF DevicesInit, RunInit
  <2>2. presses \in 0..MaxOverlap
    BY <2>1, ModuleRunAssumption
  <2> QED
    BY <1>0, <2>1, <2>2 DEF GpioOK, GpioTrue, ButtonReleased, SwitchTrue, SwitchOK, NonePending
<1>3. PowerOK
  BY PowerAssumption DEF PowerInit, PowerOK, PowerArgs, PowerTrue, ReportedStateSeen, PowerDone
<1>4. IpmiOK
  <2>1. executed = 0 /\ faults = 0 /\ unanswered = 0 /\ tries = 0 /\ session = "none" /\ pc = "idle" /\ outcome = "none"
    BY DEF IpmiInit
  <2> HIDE DEF DevicesInit, RunInit
  <2> QED
    BY <2>1 DEF IpmiOK, RetriedOnce, StaleSessionHeals, CarriedOut, trials
<1>5. ExecOK
  BY DEF ExecInit, ExecOK
<1>6. FlashOK
  BY DEF FlashInit, FlashOK, FlashTrue, NoFilesLeft, ImageOK, EmulatedOK
<1>7. FileOK
  BY DEF FileInit, FileOK, UploadWhole, PathOK, StaysInside
<1>8. RemoteOK
  BY DEF RemoteInit, RemoteOK
<1> QED
  BY <1>1, <1>2, <1>3, <1>4, <1>5, <1>6, <1>7, <1>8 DEF DevicesInv

(* And every step keeps it.                                                  *)
LEMMA DevicesStepInv == DevicesInv /\ [DevicesNext]_vars => DevicesInv'
<1> SUFFICES ASSUME DevicesInv, [DevicesNext]_vars PROVE DevicesInv'
  OBVIOUS
<1>1. CASE UNCHANGED vars
  <2>1. RunOK' /\ UNCHANGED <<mod, life, pc, cmd, outcome, runs, overlapped>>
    BY <1>1, RunSteps DEF vars, runVars, DevicesInv
  <2>2. UNCHANGED <<gpioVars, powerVars, ipmiVars, execVars, flashVars, fileVars, remoteVars>>
    BY <1>1 DEF vars
  <2> QED
    BY <2>1, <2>2, CancelKeeps
<1> QED
  BY <1>1, ModuleStepInv, CallInv, EnvironmentInv DEF DevicesNext, Gone

(* So it holds always.                                                       *)
LEMMA DevicesInvAlways == DevicesSpec => []DevicesInv
<1> QED
  BY DevicesInitInv, DevicesStepInv, PTL DEF DevicesSpec

-----------------------------------------------------------------------------
(* Types, for every module and every configuration.                          *)
THEOREM DevicesTypeCorrect == DevicesSpec => []DevicesTypeOK
<1>1. DevicesInv => DevicesTypeOK
  BY DEF DevicesInv, DevicesTypeOK, RunOK, GpioOK, PowerOK, IpmiOK, ExecOK, FlashOK, FileOK, RemoteOK, trials
<1> QED
  BY <1>1, DevicesInvAlways, PTL

(* The pin of a button or a switch is where the module says it is, after any   *)
(* number of presses and toggles that may overlap, whichever way each ended.   *)
(* Excepted are a release that the pin refused, one of two toggles of a         *)
(* button at the same moment that was lost, and a switch whose Runs mixed,      *)
(* until the next on or off by itself.                                        *)
THEOREM GpioAlwaysTrue == DevicesSpec => []GpioTrue
<1>1. DevicesInv => GpioTrue
  BY DEF DevicesInv, GpioOK
<1> QED
  BY <1>1, DevicesInvAlways, PTL

(* What a power Run reports and what it did to its outlet are both true, for   *)
(* either vendor and the socket, any outlet and any loss of requests.         *)
THEOREM PowerAlwaysTrue == DevicesSpec => []PowerTrue
<1>1. DevicesInv => PowerTrue
  BY DEF DevicesInv, PowerOK
<1> QED
  BY <1>1, DevicesInvAlways, PTL

(* One retry of ipmi is enough for a stale session, unless other Runs of the    *)
(* module take the session away; and a command is repeated only for requests   *)
(* that were not answered, never more often than two attempts of a client      *)
(* that resends three times can send it.                                      *)
THEOREM RetriedOnceAlways == DevicesSpec => []RetriedOnce
<1>1. DevicesInv => RetriedOnce
  BY DEF DevicesInv, IpmiOK
<1> QED
  BY <1>1, DevicesInvAlways, PTL

(* No Run leaves a process it cancelled, a temporary file or a part of an      *)
(* upload behind on the dutagent.  Excepted are what ignores TERM, the files    *)
(* of Runs of the same module that overlapped or went on under Deinit, and      *)
(* those for which Close or the removal failed.                               *)
THEOREM NothingLeftAlways == DevicesSpec => []NothingLeft
<1>1. DevicesInv => NothingLeft
  BY DEF DevicesInv, ExecOK, FlashOK, FileOK, NothingLeft, NoOrphans
<1> QED
  BY <1>1, DevicesInvAlways, PTL

(* A transfer that succeeds is the right one in the right place: a flash Run  *)
(* has moved the image of this very Run, and an upload to a destination from   *)
(* the arguments is inside the directory, whatever the argument looks like.   *)
(* Excepted are Runs that overlapped with another Run of the same module or     *)
(* with Deinit, and a flash Run during which another device used ./image.       *)
THEOREM TransferAlwaysTrue == DevicesSpec => []TransferTrue
<1>1. DevicesInv => TransferTrue
  BY DEF DevicesInv, FlashOK, FileOK, TransferTrue
<1> QED
  BY <1>1, DevicesInvAlways, PTL

(* The chip is left half written only by a tool that failed by itself or was   *)
(* killed after the grace period: nothing but the end of the command makes a    *)
(* flash Run leave it, and TERM lets the tool finish its write.               *)
THEOREM ChipWholeAlways == DevicesSpec => ChipWhole
<1> DEFINE Whole == kind = "flash" /\ pc = "exec" /\ pc' # "exec" /\ half =>
                      exit = "failed" \/ forced
<1>1. DevicesInv /\ [DevicesNext]_vars => [Whole]_<<pc, half>>
  <2> SUFFICES ASSUME DevicesInv, [DevicesNext]_vars, kind = "flash", pc = "exec", pc' # "exec", half
               PROVE  exit = "failed" \/ forced
    OBVIOUS
  <2>1. ~UNCHANGED pc /\ ~UNCHANGED runVars
    BY DEF runVars
  <2>2. ~UNCHANGED vars /\ ~Gone
    BY <2>1 DEF vars, Gone
  <2>3. ~Environment
    <3>1. ~(GpioEnvironment \/ IpmiEnvironment \/ FlashEnvironment \/ otherTransfers)
      BY GpioHappens, IpmiHappens, FlashHappens, FileHappens DEF DevicesInv
    <3> QED
      BY <2>1, <3>1 DEF Environment, PowerEnvironment, meddle, ExecEnvironment, Exits, RemoteEnvironment, sshHandshake,
         sshProceeds, sshFails, Cancel
  <2>4. ~Call
    BY DEF Call, GpioCall, PowerCall, IpmiCall, ShellCall, FlashCall, FileCall, RemoteCall, RunCalled
  <2>5. ~(GpioStep \/ PowerStep \/ IpmiStep \/ FileStep \/ RemoteStep)
    BY GpioSteps, PowerSteps, IpmiSteps, FileSteps, RemoteSteps DEF DevicesInv, GpioKinds, PowerKinds
  <2>6. ~ExecStep
    BY <2>1 DEF ExecStep, waitDelay, shellInit, shellRun, shellReturns, shellDeinit
  <2>7. FlashStep
    BY <2>2, <2>3, <2>4, <2>5, <2>6 DEF DevicesNext, ModuleStep
  <2>8. Waited
    BY <2>1, <2>7 DEF FlashStep, flashInit, flashRun, flashUpload, flashStart, flashSignal, flashReturns,
       flashDownload, flashDeinit, emulateInit, emulateRun, emulateCreate, emulateUpload, emulateReturns, emulateDeinit,
       InitReturns, DeinitCalled, cancelSignal
  <2> QED
    BY <2>8 DEF Waited, DevicesInv, ExecOK, FlashOK, ImageOK
<1> QED
  BY <1>1, DevicesInvAlways, PTL DEF DevicesSpec, ChipWhole
=============================================================================
