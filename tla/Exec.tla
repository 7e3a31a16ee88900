-------------------------------- MODULE Exec --------------------------------
(***************************************************************************)
(* External commands (internal/procexec) as the shell, flash and             *)
(* flash-emulate modules run them: a process group that is signalled when    *)
(* the Run is cancelled, and a grace period after which Run does not wait    *)
(* for it any more.                                                         *)
(***************************************************************************)
EXTENDS ModuleRun

VARIABLES
  group,      \* processes of the command that live: the tool and a child
  exit,       \* how the tool ended: "running", "ok", "failed", "killed"
  signalled,  \* Cancel was called
  forced      \* history: the grace period ran out

execVars == <<group, exit, signalled, forced>>

(* Mutant: every command is killed.                                         *)
cancelSigKill == "KILL"

(* Mutant: every command is asked to stop.                                  *)
cancelSigTerm == "TERM"

(* Flashing is asked to stop, the others are killed.                        *)
cancelSig == IF kind = "flash" THEN "TERM" ELSE "KILL"

(* The command is started, unless the context is done; its tool may start a   *)
(* child.                                                                   *)
Starts ==
  /\ ~cancelled /\ To("exec")
  /\ \E child \in {{}, {"child"}} : group' = {"tool"} \cup child
  /\ exit' = "running" /\ signalled' = FALSE /\ forced' = FALSE

(* The tool or its child ends by itself.                                    *)
Exits(p, how) ==
  /\ pc = "exec" /\ p \in group
  /\ group' = group \ {p} /\ exit' = IF p = "tool" THEN how ELSE exit
  /\ UNCHANGED <<signalled, forced, runVars>>

(* cmd.Cancel: the whole group gets the signal while the tool lives.  TERM   *)
(* may be ignored, or end the tool at a point of its choice.                *)
cancelSignal ==
  /\ pc = "exec" /\ cancelled /\ ~signalled /\ "tool" \in group
  /\ signalled' = TRUE
  /\ group' \in IF cancelSig = "KILL" THEN {{}} ELSE SUBSET group
  /\ exit' = IF "tool" \in group' THEN exit ELSE IF cancelSig = "KILL" THEN "killed" ELSE "failed"
  /\ UNCHANGED <<forced, runVars>>

(* WaitDelay is over: after a signal the tool is killed; if the tool has     *)
(* ended, its child is not waited for.                                      *)
waitDelay ==
  /\ pc = "exec" /\ ~forced /\ group # {} /\ (signalled \/ "tool" \notin group)
  /\ forced' = TRUE
  /\ IF "tool" \in group THEN group' = group \ {"tool"} /\ exit' = "killed" ELSE UNCHANGED <<group, exit>>
  /\ UNCHANGED <<signalled, runVars>>

(* CombinedOutput can return: the tool has ended and nobody holds its        *)
(* output.                                                                  *)
Waited == pc = "exec" /\ "tool" \notin group /\ (group = {} \/ forced)
(* It is a success.                                                         *)
Succeeded == exit = "ok" /\ ~signalled /\ ~forced

-----------------------------------------------------------------------------
(* The shell module. *)

shellInit ==
  /\ kind = "shell" /\ \E found \in BOOLEAN : InitReturns(found)
  /\ UNCHANGED execVars

shellRun ==
  /\ kind = "shell" /\ pc = "begin"
  /\ \/ Len(cmd) = 1 /\ Starts
     \/ Return("error") /\ UNCHANGED execVars

shellReturns ==
  /\ kind = "shell" /\ Waited
  /\ Return(IF Succeeded THEN "ok" ELSE "error") /\ UNCHANGED execVars

shellDeinit == kind = "shell" /\ DeinitCalled /\ UNCHANGED execVars

ExecInit == group = {} /\ exit = "ok" /\ signalled = FALSE /\ forced = FALSE
ExecStep == (kind # "flash" /\ cancelSignal) \/ waitDelay \/ shellInit \/ shellRun \/ shellReturns \/ shellDeinit
ExecEnvironment ==
  \/ Exits("child", "ok") \/ Exits("tool", "failed")
  \/ kind # "flash" /\ Exits("tool", "ok")
ShellCall == kind = "shell" /\ \E args \in {<<>>, <<"ls">>, <<"ls", "-l">>} : RunCalled(args)

-----------------------------------------------------------------------------

(* A Run that was cancelled while its tool ran leaves no process behind: a   *)
(* kill reaches what the tool has spawned too.  Only what ignores TERM, and  *)
(* the child of a tool that had ended before, outlive a Run.                *)
NoOrphans ==
  pc = "idle" /\ group # {} => forced /\ group = {"child"} /\ (signalled => kind = "flash")
=============================================================================
