-------------------------------- MODULE Flash --------------------------------
(***************************************************************************)
(* The flash and flash-emulate modules (pkg/module/flash, flash-emulate):    *)
(* an image travels between the client, a file of the dutagent and the chip  *)
(* of the DUT.  flash keeps it in ./image, whichever device it serves;       *)
(* flash-emulate makes a file of its own for every Run.                      *)
(***************************************************************************)
EXTENDS Exec

CONSTANT Neighbour  \* another device of the agent is flashed at the same time

VARIABLES
  op,         \* op of the flash instance
  doing,      \* what the tool was told to do
  image,      \* the content of ./image
  chip,       \* the content of the chip, or of the emulator
  got,        \* the image the client received
  files,      \* temporary files on the dutagent
  localPath,  \* localImagePath of the instance: {} or the file (0 is ./image)
  half,       \* history: the tool of this Run has begun to write and not finished
  disturbed,  \* history: the neighbour has written ./image during this Run
  exposed     \* history: files that came between two Runs, or that could not be removed

flashVars == <<op, doing, image, chip, got, files, localPath, half, disturbed, exposed>>
chipVars == <<op, doing, image, chip, got, half, disturbed>>
fileVarsOfFlash == <<files, localPath, exposed>>

(* The image of the client differs from Run to Run.                         *)
Sent == <<"image", runs>>
Partial == <<"partial", 0>>
(* Whatever somebody else has put there, whole or in part.                  *)
Other == <<"other", 0>>

-----------------------------------------------------------------------------
(* flash *)

(* A supported tool that is installed, and a programmer unless it finds it   *)
(* by itself.                                                               *)
flashInit ==
  /\ kind = "flash"
  /\ \E found \in BOOLEAN :
       InitReturns(found /\ mod.tool \in {"flashrom", "flashprog", "dpcmd"} /\ (mod.tool = "dpcmd" \/ mod.programmer))
  /\ UNCHANGED <<flashVars, execVars>>

flashRun ==
  /\ kind = "flash" /\ pc = "begin"
  /\ op' = IF cmd # <<>> /\ cmd[1] \in {"read", "write"} THEN cmd[1] ELSE op
  /\ IF Len(cmd) >= 2 /\ cmd[1] \in {"read", "write"}
       THEN localPath' = {0} /\ To(IF op' = "write" THEN "upload" ELSE "start")
       ELSE UNCHANGED localPath /\ Return("error")
  /\ got' = <<"none", 0>> /\ doing' = "none" /\ half' = FALSE /\ disturbed' = FALSE
  /\ UNCHANGED <<image, chip, files, exposed, execVars>>

(* Mutant: a failed transfer is not noticed.                                *)
flashUploadTrusting ==
  /\ kind = "flash" /\ pc = "upload"
  /\ image' \in {Sent, Partial} /\ To("start")
  /\ UNCHANGED <<op, doing, chip, got, half, disturbed, fileVarsOfFlash, execVars>>

(* uploadImage.  A failed transfer leaves a partial file.                   *)
flashUpload ==
  /\ kind = "flash" /\ pc = "upload"
  /\ \/ image' = Sent /\ To("start")
     \/ image' \in {image, Partial} /\ Return("error")
  /\ UNCHANGED <<op, doing, chip, got, half, disturbed, fileVarsOfFlash, execVars>>

(* cmdline tells the tool what op says by then.                             *)
flashStart ==
  /\ kind = "flash" /\ pc = "start"
  /\ \/ Starts /\ doing' = op /\ half' = FALSE
     \/ Return("error") /\ UNCHANGED <<doing, half, execVars>>
  /\ UNCHANGED <<op, image, chip, got, disturbed, fileVarsOfFlash>>

(* The tool at work (external): it writes the chip bit by bit, and the chip  *)
(* is whole again when the tool has finished or stopped on request.          *)
toolWorks ==
  /\ kind = "flash" /\ pc = "exec" /\ doing = "write" /\ "tool" \in group /\ ~half
  /\ chip' = Partial /\ half' = TRUE
  /\ UNCHANGED <<op, doing, image, got, disturbed, fileVarsOfFlash, execVars, runVars>>

toolFinishes ==
  /\ kind = "flash" /\ Exits("tool", "ok")
  /\ chip' = IF doing = "write" THEN image ELSE chip
  /\ image' = IF doing = "read" THEN chip ELSE image
  /\ half' = FALSE
  /\ UNCHANGED <<op, doing, got, disturbed, fileVarsOfFlash>>

(* The signal: a tool that stops on TERM stops between two writes.          *)
flashSignal ==
  /\ kind = "flash" /\ cancelSignal
  /\ IF exit' = "failed" /\ half THEN chip' = <<"stopped", 0>> /\ half' = FALSE ELSE UNCHANGED <<chip, half>>
  /\ UNCHANGED <<op, doing, image, got, disturbed, fileVarsOfFlash>>

(* After a success a read image is sent to the client.                       *)
flashReturns ==
  /\ kind = "flash" /\ Waited
  /\ CASE ~Succeeded -> Return("error") [] Succeeded /\ op # "read" -> Return("ok") [] OTHER -> To("download")
  /\ UNCHANGED <<flashVars, execVars>>

flashDownload ==
  /\ kind = "flash" /\ pc = "download"
  /\ \/ Return("ok") /\ got' = image
     \/ Return("error") /\ UNCHANGED got
  /\ UNCHANGED <<op, doing, image, chip, half, disturbed, fileVarsOfFlash, execVars>>

(* Deinit removes the image, if a Run has named it.                         *)
flashDeinit ==
  /\ kind = "flash" /\ DeinitCalled
  /\ image' = IF localPath # {} THEN <<"none", 0>> ELSE image
  /\ UNCHANGED <<op, doing, chip, got, half, disturbed, fileVarsOfFlash, execVars>>

(* The flash module of another device uses ./image as well.                 *)
neighbourWrites ==
  /\ kind = "flash" /\ Neighbour /\ pc # "idle" /\ ~disturbed
  /\ image' = Other /\ disturbed' = TRUE
  /\ UNCHANGED <<op, doing, chip, got, half, fileVarsOfFlash, execVars, runVars>>

(* Another Run of the instance: it sets op, which is torn if both set it at   *)
(* once, fills ./image and has its tool write the chip.                      *)
otherFlashes ==
  /\ kind = "flash" /\ pc # "idle" /\ OtherRun
  /\ \/ op' \in {"read", "write", "torn"} /\ localPath' = {0} /\ UNCHANGED <<image, chip>>
     \/ image' = Other /\ UNCHANGED <<op, localPath, chip>>
     \/ chip' = Other /\ UNCHANGED <<op, localPath, image>>
  /\ UNCHANGED <<doing, got, half, disturbed, files, exposed, execVars>>

-----------------------------------------------------------------------------
(* flash-emulate *)

emulateInit ==
  /\ kind = "emulate" /\ \E found \in BOOLEAN : InitReturns(found /\ mod.chip)
  /\ UNCHANGED <<flashVars, execVars>>

(* os.RemoveAll of localImagePath, which is then forgotten, whether or not    *)
(* it could be removed.                                                     *)
Removes == files' \in {files \ localPath, files} /\ exposed' = exposed \cup (files' \cap localPath)

(* The file of the Run before is removed ...                                *)
emulateRun ==
  /\ kind = "emulate" /\ pc = "begin"
  /\ \/ cmd = <<>> /\ Return("error") /\ UNCHANGED fileVarsOfFlash
     \/ cmd # <<>> /\ Removes /\ localPath' = {} /\ To("create")
  /\ UNCHANGED <<chipVars, execVars>>

(* ... a new one is made ...                                                *)
emulateCreate ==
  /\ kind = "emulate" /\ pc = "create"
  /\ \/ files' = files \cup {runs} /\ localPath' = {runs} /\ To("upload")
     \/ UNCHANGED <<files, localPath>> /\ Return("error")
  /\ UNCHANGED <<chipVars, exposed, execVars>>

(* ... and filled.                                                          *)
emulateUpload ==
  /\ kind = "emulate" /\ pc = "upload"
  /\ \/ Starts /\ files' = files \cup {runs} /\ UNCHANGED <<localPath, exposed>>
     \/ Removes /\ localPath' = {} /\ Return("error") /\ UNCHANGED execVars
  /\ UNCHANGED chipVars

(* The emulator runs on with the image; without it, the file goes.          *)
emulateReturns ==
  /\ kind = "emulate" /\ Waited
  /\ IF Succeeded
       THEN Return("ok") /\ chip' = (IF overlapped THEN Other ELSE Sent) /\ UNCHANGED fileVarsOfFlash
       ELSE Return("error") /\ Removes /\ localPath' = {} /\ UNCHANGED chip
  /\ UNCHANGED <<op, doing, image, got, half, disturbed, execVars>>

(* Deinit; what a Run under it makes afterwards stays.                      *)
emulateDeinit ==
  /\ kind = "emulate" /\ DeinitCalled
  /\ files' \in {files \ localPath, files}
  /\ exposed' = exposed \cup (files' \cap localPath) \cup IF pc = "idle" THEN {} ELSE {runs}
  /\ UNCHANGED <<chipVars, localPath, execVars>>

(* Another Run of the instance removes the file it finds, or makes its own.  *)
otherFile == MaxRuns + 1

otherEmulates ==
  /\ kind = "emulate" /\ OtherRun
  /\ \/ files' \in {files \ localPath, files} /\ localPath' = {}
     \/ files' = files \cup {otherFile} /\ localPath' = {otherFile}
  /\ exposed' = exposed \cup localPath \cup {runs, otherFile}
  /\ UNCHANGED <<chipVars, execVars>>

-----------------------------------------------------------------------------

FlashInit ==
  /\ op = "none" /\ doing = "none" /\ image = <<"none", 0>> /\ chip = <<"old", 0>> /\ got = <<"none", 0>>
  /\ files = {} /\ localPath = {} /\ half = FALSE /\ disturbed = FALSE /\ exposed = {}

FlashStep ==
  \/ flashInit \/ flashRun \/ flashUpload \/ flashStart \/ flashSignal \/ flashReturns \/ flashDownload \/ flashDeinit
  \/ emulateInit \/ emulateRun \/ emulateCreate \/ emulateUpload \/ emulateReturns \/ emulateDeinit
FlashEnvironment == toolWorks \/ toolFinishes \/ neighbourWrites \/ otherFlashes \/ otherEmulates
FlashCall ==
  \/ kind = "flash" /\ \E args \in {<<>>, <<"write">>, <<"verify", "img">>, <<"write", "img">>, <<"read", "img">>} : RunCalled(args)
  \/ kind = "emulate" /\ \E args \in {<<>>, <<"img">>} : RunCalled(args)

-----------------------------------------------------------------------------

(* A write that succeeds has put the image of this very Run on the chip, a   *)
(* read that succeeds has brought the chip's content to the client: no image *)
(* of an earlier or failed Run.  Except: another device used ./image         *)
(* meanwhile, or another Run of the same module, which shares ./image, op    *)
(* and the chip, or Deinit came between.                                     *)
FlashTrue ==
  kind = "flash" /\ pc = "idle" /\ outcome = "ok" /\ ~disturbed /\ ~overlapped =>
    IF cmd[1] = "write" THEN chip = Sent ELSE got = chip

(* A Run leaves the chip half written only if its tool failed by itself or   *)
(* did not stop within the grace period; it does not matter what the tool    *)
(* was told to write, or what Runs were beside it.                           *)
ChipWhole ==
  [][kind = "flash" /\ pc = "exec" /\ pc' # "exec" /\ half => exit = "failed" \/ forced]_<<pc, half>>

(* The dutagent keeps at most the file of the last Run, and none in the end, *)
(* however each Run ended.  Except the files that removal failed for, and    *)
(* those of Runs that overlapped or went on under Deinit: localImagePath     *)
(* holds only one of them.  A later Run by itself leaves nothing again.      *)
NoFilesLeft ==
  kind = "emulate" => files \subseteq localPath \cup exposed /\ (life = "gone" => files \subseteq exposed)
=============================================================================
