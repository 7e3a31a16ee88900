------------------------------- MODULE Devices -------------------------------
(***************************************************************************)
(* A device command of the dutagent over the life of its module, whichever   *)
(* module it is: the families of modules share the life of ModuleRun, and    *)
(* every one of them has to give way when its Run is cancelled.              *)
(***************************************************************************)
EXTENDS Gpio, Power, Ipmi, Flash, File, Remote

vars == <<runVars, gpioVars, powerVars, ipmiVars, execVars, flashVars, fileVars, remoteVars>>

GpioOnly == UNCHANGED <<powerVars, ipmiVars, execVars, flashVars, fileVars, remoteVars>>
PowerOnly == UNCHANGED <<gpioVars, ipmiVars, execVars, flashVars, fileVars, remoteVars>>
IpmiOnly == UNCHANGED <<gpioVars, powerVars, execVars, flashVars, fileVars, remoteVars>>
ExecOnly == UNCHANGED <<gpioVars, powerVars, ipmiVars, flashVars, fileVars, remoteVars>>
FlashOnly == UNCHANGED <<gpioVars, powerVars, ipmiVars, fileVars, remoteVars>>
FileOnly == UNCHANGED <<gpioVars, powerVars, ipmiVars, execVars, flashVars, remoteVars>>
RemoteOnly == UNCHANGED <<gpioVars, powerVars, ipmiVars, execVars, flashVars, fileVars>>

(* What the module does by itself, after a bounded time.                     *)
ModuleStep ==
  \/ GpioStep /\ GpioOnly
  \/ PowerStep /\ PowerOnly
  \/ IpmiStep /\ IpmiOnly
  \/ ExecStep /\ ExecOnly
  \/ FlashStep /\ FlashOnly
  \/ FileStep /\ FileOnly
  \/ RemoteStep /\ RemoteOnly

(* The agent calls Run.                                                     *)
Call ==
  /\ GpioCall \/ PowerCall \/ IpmiCall \/ ShellCall \/ FlashCall \/ FileCall \/ RemoteCall
  /\ UNCHANGED <<gpioVars, powerVars, ipmiVars, execVars, flashVars, fileVars, remoteVars>>

(* What happens to it, by other Runs of the same module too.                *)
Environment ==
  \/ GpioEnvironment /\ GpioOnly
  \/ PowerEnvironment /\ PowerOnly
  \/ IpmiEnvironment /\ IpmiOnly
  \/ ExecEnvironment /\ ExecOnly
  \/ FlashEnvironment /\ FlashOnly
  \/ otherTransfers /\ FileOnly
  \/ RemoteEnvironment /\ RemoteOnly
  \/ Cancel /\ UNCHANGED <<gpioVars, powerVars, ipmiVars, execVars, flashVars, fileVars, remoteVars>>

Gone == life = "gone" /\ UNCHANGED vars

DevicesInit == RunInit /\ GpioInit /\ PowerInit /\ IpmiInit /\ ExecInit /\ FlashInit /\ FileInit /\ RemoteInit
DevicesNext == ModuleStep \/ Call \/ Environment \/ Gone

(* Only the steps of a Run are fair, with its timers, the time limits of its  *)
(* requests and the transfers the session ends on cancellation: tools,       *)
(* servers, the BMC, other Runs and people need not do anything.            *)
RunStep == pc # "idle" /\ UNCHANGED life /\ ModuleStep
DevicesSpec == DevicesInit /\ [][DevicesNext]_vars /\ WF_vars(RunStep)

-----------------------------------------------------------------------------

(* Types; a tool is in its process group exactly while it runs, and no Run   *)
(* leaves a connection of ssh open.                                          *)
DevicesTypeOK ==
  /\ RunTypeOK
  /\ pin \in {"low", "high"} /\ state \in {"on", "off", "torn"}
  /\ presses \in 0..MaxOverlap /\ pending \in [1..MaxOverlap -> {"none", "on", "off", "toggle"}]
  /\ outlets \in [0..LastOutlet -> {"on", "off"}] /\ report \in {"none", "on", "off", "toggle"}
  /\ session \in {"none", "live", "stale"} /\ tries \in 0..trials
  /\ group \subseteq {"tool", "child"} /\ exit \in {"running", "ok", "failed", "killed"}
  /\ (pc = "exec" => ("tool" \in group <=> exit = "running"))
  /\ files \subseteq 1..(MaxRuns + 1) /\ localPath \subseteq 0..(MaxRuns + 1)
  /\ dest \in {"absent", "old", "new", "partial"}
  /\ client \in {"none", "open", "closed"} /\ (pc = "idle" => client = "none")

(* What Runs leave behind on the dutagent: no process of a cancelled Run,    *)
(* no temporary file and no part of an upload, however each Run ended.       *)
(* Excepted are files that Runs of the same module at the same time, Deinit  *)
(* under a Run and ignored errors of removal and Close leave.                *)
NothingLeft == NoOrphans /\ NoFilesLeft /\ UploadWhole

(* A transfer that succeeds has put the right bytes in the right place: the *)
(* image of this Run on the chip or with the client, the file inside the     *)
(* directory; unless another Run of the same module, or for flash another    *)
(* device's, has changed what they share while it ran.                       *)
TransferTrue == FlashTrue /\ StaysInside

(* A Run whose context is done ends by itself, whatever the tool, the server *)
(* or the device on the other side does.  The one exception is the handshake *)
(* of ssh, which nothing interrupts before the server answers.               *)
CancelEnds == cancelled ~> (pc = "idle" \/ pc = "handshake")
=============================================================================
