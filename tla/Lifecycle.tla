------------------------------ MODULE Lifecycle ------------------------------
(***************************************************************************)
(* The life of dutagent processes (cmds/dutagent/dutagent.go, lifecycle.go, *)
(* internal/rpc/server.go): initialisation of the modules, registration     *)
(* with dutserver, serving, and the shutdown that drains requests and       *)
(* de-initialises the modules on every way out.                             *)
(***************************************************************************)
EXTENDS Registry

CONSTANTS
  ModulesOf,     \* the modules in each agent's configuration
  ModesOf,       \* the modes each agent may be started in
  MaxStarts      \* how many agent processes are started altogether

AllModes == {"checkConfig", "dryRun", "standalone", "registered"}

ASSUME LifecycleAssumption ==
  /\ DOMAIN ModulesOf = Agents /\ ModesOf \in [Agents -> SUBSET AllModes]
  /\ MaxStarts \in Nat

VARIABLES
  phase,      \* where start() is
  mode,       \* the flags: "checkConfig", "dryRun", "standalone", "registered"
  todo,       \* modules the running init or deinit loop has not called yet
  failed,     \* a module of that loop returned an error or panicked
  inited,     \* modules whose Init was called
  needDeinit, \* modulesNeedDeinit
  signalled,  \* the signal context is done
  request,    \* a request in flight: "none", "handler", or "detached" when the
              \* handler has returned and its module goroutine has not
  undrained,  \* the service ended with the handler still in flight
  code,       \* the exit code cleanup was called with, then the process's own
  bornIn,     \* the run of dutserver during which the process was started
  starts      \* how many agent processes were started

processVars == <<mode, failed, needDeinit, signalled, request, undrained, bornIn, starts>>
lifeVars == <<phase, todo, inited, code, processVars>>
vars == <<registryVars, lifeVars>>

(* Mutant: cleanup after a failure assumes there is nothing to undo.        *)
CleanupIfServing(a, c) ==
  /\ code' = [code EXCEPT ![a] = c]
  /\ IF needDeinit[a] /\ c = 0
       THEN phase' = [phase EXCEPT ![a] = "deinit"] /\ todo' = [todo EXCEPT ![a] = ModulesOf[a]]
       ELSE phase' = [phase EXCEPT ![a] = "exited"] /\ UNCHANGED todo

(* cleanup: de-initialise what was, perhaps only partly, initialised.        *)
cleanup(a, c) ==
  /\ code' = [code EXCEPT ![a] = c]
  /\ IF needDeinit[a]
       THEN phase' = [phase EXCEPT ![a] = "deinit"] /\ todo' = [todo EXCEPT ![a] = ModulesOf[a]]
       ELSE phase' = [phase EXCEPT ![a] = "exited"] /\ UNCHANGED todo

Enter(a, p) == phase' = [phase EXCEPT ![a] = p] /\ UNCHANGED <<todo, code>>

-----------------------------------------------------------------------------
(* start *)

start(a, m) ==
  /\ phase[a] \in {"off", "exited"} /\ starts < MaxStarts
  /\ phase' = [phase EXCEPT ![a] = "config"] /\ mode' = [mode EXCEPT ![a] = m]
  /\ starts' = starts + 1 /\ bornIn' = [bornIn EXCEPT ![a] = runs]
  /\ todo' = [todo EXCEPT ![a] = {}] /\ inited' = [inited EXCEPT ![a] = {}]
  /\ failed' = [failed EXCEPT ![a] = FALSE] /\ needDeinit' = [needDeinit EXCEPT ![a] = FALSE]
  /\ signalled' = [signalled EXCEPT ![a] = FALSE] /\ request' = [request EXCEPT ![a] = "none"]
  /\ undrained' = [undrained EXCEPT ![a] = FALSE] /\ code' = [code EXCEPT ![a] = 0]
  /\ UNCHANGED registryVars

(* With -check-config the process ends here, successfully in any case.      *)
loadConfig(a) ==
  /\ phase[a] = "config"
  /\ IF mode[a] = "checkConfig" THEN cleanup(a, 0) /\ UNCHANGED needDeinit
     ELSE \/ cleanup(a, 1) /\ UNCHANGED needDeinit
          \/ /\ phase' = [phase EXCEPT ![a] = "init"] /\ todo' = [todo EXCEPT ![a] = ModulesOf[a]]
             /\ needDeinit' = [needDeinit EXCEPT ![a] = TRUE] /\ UNCHANGED code
  /\ UNCHANGED <<inited, mode, failed, signalled, request, undrained, bornIn, starts, registryVars>>

(* One round of initModules; a failure or a panic is recorded and the loop   *)
(* goes on.                                                                 *)
initModule(a, m) ==
  /\ phase[a] = "init" /\ m \in todo[a]
  /\ todo' = [todo EXCEPT ![a] = @ \ {m}] /\ inited' = [inited EXCEPT ![a] = @ \cup {m}]
  /\ \E bad \in BOOLEAN : failed' = [failed EXCEPT ![a] = @ \/ bad]
  /\ UNCHANGED <<phase, code, mode, needDeinit, signalled, request, undrained, bornIn, starts, registryVars>>

initialised(a) ==
  /\ phase[a] = "init" /\ todo[a] = {}
  /\ \/ mode[a] = "dryRun" /\ cleanup(a, 0) /\ UNCHANGED reg
     \/ mode[a] # "dryRun" /\ failed[a] /\ cleanup(a, 1) /\ UNCHANGED reg
     \/ mode[a] = "registered" /\ ~failed[a] /\ Enter(a, "register") /\ reg' = [reg EXCEPT ![a] = "sent"]
     \/ mode[a] = "standalone" /\ ~failed[a] /\ Enter(a, "listen") /\ UNCHANGED reg
  /\ failed' = [failed EXCEPT ![a] = FALSE]
  /\ UNCHANGED <<inited, mode, needDeinit, signalled, request, undrained, bornIn, starts,
                 server, runs, agents, listing>>

(* Mutant: an agent the server has refused serves all the same.              *)
registerIgnoresRefusal(a) ==
  /\ phase[a] = "register" /\ reg[a] \in {"accepted", "refused"}
  /\ Enter(a, "listen") /\ reg' = [reg EXCEPT ![a] = "none"]
  /\ UNCHANGED <<inited, processVars, server, runs, agents, listing>>

(* registerWithServer returns: accepted, refused, or not in time, in which   *)
(* case the request may still arrive.                                       *)
registerWithServer(a) ==
  /\ phase[a] = "register"
  /\ \/ reg[a] = "accepted" /\ Enter(a, "listen") /\ reg' = [reg EXCEPT ![a] = "none"]
     \/ /\ reg[a] \in {"refused", "accepted", "sent"} /\ cleanup(a, 1)
        /\ reg' = [reg EXCEPT ![a] = IF @ = "sent" THEN "late" ELSE "none"]
  /\ UNCHANGED <<inited, processVars, server, runs, agents, listing>>

(* Binding the address.  After a signal it may fail because of the signal,   *)
(* which is then a graceful stop, or succeed: the drain follows at once.     *)
listen(a) ==
  /\ phase[a] = "listen"
  /\ \/ Enter(a, "serve")
     \/ cleanup(a, IF signalled[a] THEN 0 ELSE 1)
  /\ UNCHANGED <<inited, processVars, registryVars>>

(* A panic on the main goroutine is recovered in start().                   *)
startPanics(a) ==
  /\ phase[a] \in {"config", "register", "listen"}
  /\ cleanup(a, 1)
  /\ reg' = [reg EXCEPT ![a] = IF @ \in {"sent", "late"} THEN "late" ELSE "none"]
  /\ UNCHANGED <<inited, processVars, server, runs, agents, listing>>

-----------------------------------------------------------------------------
(* serve *)

requestBegins(a) ==
  /\ phase[a] = "serve" /\ request[a] = "none"
  /\ request' = [request EXCEPT ![a] = "handler"]
  /\ UNCHANGED <<phase, todo, inited, code, mode, failed, needDeinit, signalled, undrained, bornIn, starts, registryVars>>

(* After a disconnect the handler returns before its module does.           *)
requestEnds(a) ==
  /\ request[a] # "none" /\ phase[a] \in {"serve", "drain", "deinit"}
  /\ \E next \in {"none", "detached"} :
       /\ request[a] = "detached" => next = "none"
       /\ request' = [request EXCEPT ![a] = next]
  /\ UNCHANGED <<phase, todo, inited, code, mode, failed, needDeinit, signalled, undrained, bornIn, starts, registryVars>>

signal(a) ==
  /\ phase[a] \notin {"off", "exited"} /\ ~signalled[a]
  /\ signalled' = [signalled EXCEPT ![a] = TRUE]
  /\ UNCHANGED <<phase, todo, inited, code, mode, failed, needDeinit, request, undrained, bornIn, starts, registryVars>>

(* Shutdown stops accepting and waits for the handlers in flight.           *)
shutdown(a) ==
  /\ phase[a] = "serve" /\ signalled[a]
  /\ Enter(a, "drain")
  /\ UNCHANGED <<inited, processVars, registryVars>>

drained(a) ==
  /\ phase[a] = "drain" /\ request[a] # "handler"
  /\ cleanup(a, 0)
  /\ UNCHANGED <<inited, processVars, registryVars>>

(* Mutant: Shutdown waits for the handlers without a bound.                 *)
graceNeverElapses(a) == FALSE /\ drained(a)

(* shutdownGracePeriod is over and a handler is still in flight.            *)
graceElapses(a) ==
  /\ phase[a] = "drain" /\ request[a] = "handler"
  /\ cleanup(a, 0) /\ undrained' = [undrained EXCEPT ![a] = TRUE]
  /\ UNCHANGED <<inited, mode, failed, needDeinit, signalled, request, bornIn, starts, registryVars>>

(* The server stops on its own; a signal that came meanwhile makes it a       *)
(* graceful stop all the same.                                              *)
serviceStops(a) ==
  /\ phase[a] = "serve"
  /\ cleanup(a, IF signalled[a] THEN 0 ELSE 1) /\ undrained' = [undrained EXCEPT ![a] = (request[a] = "handler")]
  /\ UNCHANGED <<inited, mode, failed, needDeinit, signalled, request, bornIn, starts, registryVars>>

-----------------------------------------------------------------------------
(* cleanup *)

deinitModule(a, m) ==
  /\ phase[a] = "deinit" /\ m \in todo[a]
  /\ todo' = [todo EXCEPT ![a] = @ \ {m}] /\ inited' = [inited EXCEPT ![a] = @ \ {m}]
  /\ \E bad \in BOOLEAN : failed' = [failed EXCEPT ![a] = @ \/ bad]
  /\ UNCHANGED <<phase, code, mode, needDeinit, signalled, request, undrained, bornIn, starts, registryVars>>

(* The process exits, and with it every goroutine that is left.             *)
exit(a) ==
  /\ phase[a] = "deinit" /\ todo[a] = {}
  /\ phase' = [phase EXCEPT ![a] = "exited"]
  /\ code' = [code EXCEPT ![a] = IF failed[a] THEN 1 ELSE @]
  /\ request' = [request EXCEPT ![a] = "none"]
  /\ UNCHANGED <<todo, inited, mode, failed, needDeinit, signalled, undrained, bornIn, starts, registryVars>>

(* The process is killed.                                                   *)
killed(a) ==
  /\ phase[a] \notin {"off", "exited"}
  /\ Enter(a, "off") /\ request' = [request EXCEPT ![a] = "none"]
  /\ reg' = [reg EXCEPT ![a] = IF @ \in {"sent", "late"} THEN "late" ELSE "none"]
  /\ UNCHANGED <<inited, mode, failed, needDeinit, signalled, undrained, bornIn, starts, server, runs, agents, listing>>

-----------------------------------------------------------------------------

LifecycleInit ==
  /\ RegistryInit
  /\ phase = [a \in Agents |-> "off"] /\ mode = [a \in Agents |-> "standalone"]
  /\ todo = [a \in Agents |-> {}] /\ inited = [a \in Agents |-> {}]
  /\ failed = [a \in Agents |-> FALSE] /\ needDeinit = [a \in Agents |-> FALSE]
  /\ signalled = [a \in Agents |-> FALSE] /\ request = [a \in Agents |-> "none"]
  /\ undrained = [a \in Agents |-> FALSE]
  /\ code = [a \in Agents |-> 0] /\ starts = 0 /\ bornIn = [a \in Agents |-> 0]

(* What the process does by itself.                                         *)
Progress(a) ==
  \/ loadConfig(a) \/ initialised(a) \/ registerWithServer(a) \/ listen(a)
  \/ shutdown(a) \/ drained(a) \/ graceElapses(a) \/ exit(a)
  \/ \E m \in ModulesOf[a] : initModule(a, m) \/ deinitModule(a, m)

AgentStep(a) ==
  \/ \E m \in ModesOf[a] : start(a, m)
  \/ Progress(a) \/ startPanics(a) \/ requestBegins(a) \/ requestEnds(a)
  \/ signal(a) \/ serviceStops(a) \/ killed(a)

(* Every process has ended and none is started again.                       *)
AllStopped ==
  /\ server = "down" /\ runs = MaxServerRuns
  /\ \A a \in Agents : phase[a] \in {"off", "exited"}
  /\ starts = MaxStarts
  /\ UNCHANGED vars

LifecycleNext ==
  \/ AllStopped
  \/ RegistryNext /\ UNCHANGED lifeVars
  \/ \E a \in Agents : AgentStep(a)

LifecycleSpec == LifecycleInit /\ [][LifecycleNext]_vars

(* Every call start() makes returns: modules' Init and Deinit honour their   *)
(* timeouts, the registration and the drain have one.                       *)
LifecycleFairSpec == LifecycleSpec /\ \A a \in Agents : WF_vars(Progress(a))

-----------------------------------------------------------------------------
(* Properties. *)

(* Types; the exit code is 0 or 1.                                          *)
LifecycleTypeOK ==
  /\ RegistryTypeOK
  /\ phase \in [Agents -> {"off", "config", "init", "register", "listen", "serve", "drain", "deinit", "exited"}]
  /\ mode \in [Agents -> AllModes]
  /\ DOMAIN todo = Agents /\ DOMAIN inited = Agents
  /\ \A a \in Agents : todo[a] \subseteq ModulesOf[a] /\ inited[a] \subseteq ModulesOf[a]
  /\ failed \in [Agents -> BOOLEAN] /\ needDeinit \in [Agents -> BOOLEAN]
  /\ signalled \in [Agents -> BOOLEAN] /\ undrained \in [Agents -> BOOLEAN]
  /\ request \in [Agents -> {"none", "handler", "detached"}]
  /\ code \in [Agents -> {0, 1}] /\ starts \in 0..MaxStarts
  /\ bornIn \in [Agents -> 0..MaxServerRuns]

(* No way out of start() leaves a module initialised: neither a failed Init  *)
(* of another module, a refused registration, a port in use, a panic, a      *)
(* failed Deinit of another module nor a shutdown during startup.           *)
AllDeinitialised == \A a \in Agents : phase[a] = "exited" => inited[a] = {}

(* Modules are de-initialised under a running request only after the grace   *)
(* period or if the service broke down, and never under one that has been    *)
(* accepted since.                                                          *)
DrainedFirst ==
  \A a \in Agents : phase[a] = "deinit" /\ request[a] = "handler" => undrained[a]

(* An agent that serves exits with 0 only after a signal and if every module *)
(* came up and went down without an error.                                  *)
ExitHonest ==
  \A a \in Agents : phase[a] = "exited" /\ code[a] = 0 /\ mode[a] \in {"standalone", "registered"} =>
    signalled[a] /\ ~failed[a]

(* Every way out of start() drains first, undoes every Init and ends with   *)
(* an exit code that tells the truth.                                       *)
LifecycleInv == LifecycleTypeOK /\ AllDeinitialised /\ DrainedFirst /\ ExitHonest

(* How dutserver answers Commands and Details: it forwards to the agent it   *)
(* has registered for the device.                                           *)
Forward(d) ==
  IF agents[d] = NoAgent THEN "notFound"
  ELSE IF phase[agents[d]] \in {"serve", "drain"} THEN "answer" ELSE "unavailable"

(* Every device of an agent that serves and registered is reachable through  *)
(* the server, as long as the server has not been restarted since the agent  *)
(* was started.                                                             *)
ServingIsReachable ==
  \A a \in Agents :
    phase[a] = "serve" /\ mode[a] = "registered" /\ server = "up" /\ bornIn[a] = runs =>
      \A d \in DevicesOf[a] : Forward(d) = "answer"

(* A signal ends the process, whatever it is doing and however long requests *)
(* and detached modules go on.                                              *)
SignalEnds == \A a \in Agents : signalled[a] ~> phase[a] \in {"exited", "off"}
=============================================================================
