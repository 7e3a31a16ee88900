------------------------------- MODULE Remote -------------------------------
(***************************************************************************)
(* The ssh and time-wait modules (pkg/module/ssh, time): Runs that wait for  *)
(* something outside and must notice that they are cancelled.                *)
(***************************************************************************)
EXTENDS ModuleRun

VARIABLE client  \* the SSH client of the Run: "none", "open", "closed"

remoteVars == <<client>>

(* A host, and a password or a readable key.                                *)
sshInit ==
  /\ kind = "ssh"
  /\ InitReturns(mod.host # "none" /\ mod.login \in {"password", "key"} /\ mod.hostKey # "bad")
  /\ UNCHANGED client

sshRun ==
  /\ kind = "ssh" /\ pc = "begin"
  /\ IF Len(cmd) = 1 THEN To("dial") ELSE Return("error")
  /\ UNCHANGED client

(* The dial knows the context.                                              *)
sshDial ==
  /\ kind = "ssh" /\ pc = "dial"
  /\ (~cancelled /\ To("handshake")) \/ Return("error")
  /\ UNCHANGED client

(* The handshake does not; it ends when the server answers or hangs up.      *)
sshHandshake ==
  /\ kind = "ssh" /\ pc = "handshake"
  /\ \/ To("session") /\ client' = "open"
     \/ Return("error") /\ UNCHANGED client

(* Mutant: nobody watches the context.                                      *)
sshWatchesNot == kind = "ssh" /\ client = "closed" /\ cancelled /\ UNCHANGED <<client, runVars>>

(* The watcher closes the client when the context is done; when Run returns  *)
(* the client is closed anyway.                                             *)
sshWatches ==
  /\ kind = "ssh" /\ client = "open" /\ cancelled
  /\ client' = "closed" /\ UNCHANGED runVars

(* NewSession and CombinedOutput: the server lets them go on ...            *)
sshProceeds ==
  /\ kind = "ssh" /\ client = "open"
  /\ \/ pc = "session" /\ To("command") /\ UNCHANGED client
     \/ pc = "command" /\ Return("ok") /\ client' = "none"

(* Mutant: the connection is not closed when they fail.                     *)
sshFailsOpen == kind = "ssh" /\ pc \in {"session", "command"} /\ Return("error") /\ UNCHANGED client

(* ... or they fail, on a closed client at once.                             *)
sshFails == kind = "ssh" /\ pc \in {"session", "command"} /\ Return("error") /\ client' = "none"

sshDeinit == kind = "ssh" /\ DeinitCalled /\ UNCHANGED client

waitInit == kind = "wait" /\ InitReturns(mod.duration # "bad") /\ UNCHANGED client

waitRun ==
  /\ kind = "wait" /\ pc = "begin"
  /\ IF cmd = <<"bad">> THEN Return("error") ELSE To("timer")
  /\ UNCHANGED client

waitEnds ==
  /\ kind = "wait" /\ pc = "timer"
  /\ \E interrupted \in {FALSE, cancelled} : Return(IF interrupted THEN "error" ELSE "ok")
  /\ UNCHANGED client

waitDeinit == kind = "wait" /\ DeinitCalled /\ UNCHANGED client

RemoteInit == client = "none"
(* What ends without the server.                                            *)
RemoteStep ==
  \/ sshInit \/ sshRun \/ sshDial \/ sshWatches \/ (client = "closed" /\ sshFails) \/ sshDeinit
  \/ waitInit \/ waitRun \/ waitEnds \/ waitDeinit
RemoteEnvironment == sshHandshake \/ sshProceeds \/ (client = "open" /\ sshFails)
RemoteCall ==
  \/ kind = "ssh" /\ \E args \in {<<>>, <<"ls">>, <<"ls", "-l">>} : RunCalled(args)
  \/ kind = "wait" /\ \E args \in {<<>>, <<"1s">>, <<"bad">>} : RunCalled(args)
=============================================================================
