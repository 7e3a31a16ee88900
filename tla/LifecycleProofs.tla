--------------------------- MODULE LifecycleProofs ---------------------------
(***************************************************************************)
(* Proofs about dutserver's registry and the life of the agent processes,   *)
(* for any agents, devices and modules, and any number of restarts.         *)
(***************************************************************************)
EXTENDS Lifecycle, TLAPS

(* What modulesNeedDeinit and the loops over the modules guarantee at each   *)
(* place of start(): from initModules on cleanup goes through every module,  *)
(* and the loop it runs has yet to reach all that are still initialised.     *)
LoopOK(a) ==
  /\ phase[a] = "config" => inited[a] = {}
  /\ phase[a] \in {"init", "register", "listen", "serve", "drain", "deinit"} => needDeinit[a]
  /\ phase[a] = "deinit" => inited[a] \subseteq todo[a]
  /\ phase[a] = "exited" => inited[a] = {}

(* Requests exist only while the service runs or has just ended.             *)
RequestOK(a) ==
  /\ phase[a] \in {"config", "init", "register", "listen"} => request[a] = "none"
  /\ phase[a] = "deinit" /\ request[a] = "handler" => undrained[a]

(* The exit code is decided before the modules are de-initialised.           *)
CodeOK(a) ==
  /\ phase[a] = "drain" => signalled[a]
  /\ phase[a] \in {"deinit", "exited"} /\ code[a] = 0 /\ mode[a] \in {"standalone", "registered"} =>
       signalled[a]
  /\ phase[a] = "exited" /\ code[a] = 0 /\ mode[a] \in {"standalone", "registered"} => ~failed[a]

(* A registration the agent may still act on is that of the running process, *)
(* and the server that accepted it routes every device of the agent to it    *)
(* for as long as it runs.                                                   *)
Routed(a) == \A d \in DevicesOf[a] : agents[d] = a

RouteOK(a) ==
  /\ reg[a] \in {"sent", "accepted", "refused"} => phase[a] = "register"
  /\ phase[a] = "register" => mode[a] = "registered"
  /\ bornIn[a] <= runs
  /\ server = "up" /\ bornIn[a] = runs =>
       /\ reg[a] = "accepted" => Routed(a)
       /\ phase[a] \in {"listen", "serve", "drain"} /\ mode[a] = "registered" => Routed(a)

(* The inductive invariant.                                                 *)
LifeInv ==
  /\ LifecycleTypeOK /\ RegistryWhole
  /\ \A a \in Agents : LoopOK(a) /\ RequestOK(a) /\ CodeOK(a) /\ RouteOK(a)
-----------------------------------------------------------------------------
(* A step of one process leaves the others' alone, and the server's own state. *)
Same(b) ==
  /\ phase'[b] = phase[b] /\ mode'[b] = mode[b] /\ todo'[b] = todo[b] /\ inited'[b] = inited[b]
  /\ failed'[b] = failed[b] /\ needDeinit'[b] = needDeinit[b] /\ signalled'[b] = signalled[b]
  /\ request'[b] = request[b] /\ undrained'[b] = undrained[b] /\ code'[b] = code[b]
  /\ bornIn'[b] = bornIn[b] /\ reg'[b] = reg[b]

(* cleanup keeps the types of what it assigns.                               *)
Places == {"off", "config", "init", "register", "listen", "serve", "drain", "deinit", "exited"}

PlaceOK ==
  /\ phase \in [Agents -> Places] /\ code \in [Agents -> {0, 1}]
  /\ DOMAIN todo = Agents /\ \A b \in Agents : todo[b] \subseteq ModulesOf[b]

(* cleanup leaves every agent in a known place.                              *)
LEMMA CleanupTypes ==
  ASSUME NEW a \in Agents, NEW c \in {0, 1}, cleanup(a, c), PlaceOK
  PROVE  PlaceOK'
<1> USE DEF PlaceOK, Places
<1>1. CASE needDeinit[a]
  BY <1>1 DEF cleanup
<1>2. CASE ~needDeinit[a]
  BY <1>2 DEF cleanup
<1> QED
  BY <1>1, <1>2

(* Every step of a process keeps the types.                                 *)
LEMMA AgentStepTypes ==
  ASSUME NEW a \in Agents, LifecycleTypeOK, AgentStep(a)
  PROVE  LifecycleTypeOK'
<1> USE DEF LifecycleTypeOK, RegistryTypeOK, AllModes
<1>1. ASSUME NEW m \in ModesOf[a], start(a, m) PROVE LifecycleTypeOK'
  <2>1. starts' \in 0..MaxStarts /\ bornIn' \in [Agents -> 0..MaxServerRuns]
    BY <1>1, LifecycleAssumption, RegistryAssumption DEF start
  <2>2. mode' \in [Agents -> AllModes]
    BY <1>1, LifecycleAssumption DEF start
  <2> QED
    BY <1>1, <2>1, <2>2 DEF start, registryVars
<1>2. ASSUME NEW m \in ModulesOf[a], initModule(a, m) PROVE LifecycleTypeOK'
  BY <1>2 DEF initModule, registryVars
<1>3. ASSUME NEW m \in ModulesOf[a], deinitModule(a, m) PROVE LifecycleTypeOK'
  BY <1>3 DEF deinitModule, registryVars
<1>4. CASE loadConfig(a)
  <2>1. PlaceOK /\ ((cleanup(a, 0) \/ cleanup(a, 1)) => PlaceOK')
    BY CleanupTypes DEF PlaceOK, Places
  <2>2. cleanup(a, 0) \/ cleanup(a, 1) \/ (phase' = [phase EXCEPT ![a] = "init"] /\ todo' = [todo EXCEPT ![a] = ModulesOf[a]] /\ UNCHANGED code)
    BY <1>4 DEF loadConfig
  <2>3. PlaceOK'
    BY <2>1, <2>2 DEF PlaceOK, Places
  <2>4. needDeinit' \in [Agents -> BOOLEAN]
    BY <1>4 DEF loadConfig
  <2> QED
    BY <1>4, <2>3, <2>4 DEF loadConfig, registryVars, PlaceOK, Places
<1>5. CASE initialised(a)
  <2>1. reg' \in [Agents -> {"none", "sent", "accepted", "refused", "late"}]
    BY <1>5 DEF initialised
  <2>2. \/ cleanup(a, 0) \/ cleanup(a, 1) \/ Enter(a, "register") \/ Enter(a, "listen")
    BY <1>5 DEF initialised
  <2>3. PlaceOK /\ ((cleanup(a, 0) \/ cleanup(a, 1)) => PlaceOK')
    BY CleanupTypes DEF PlaceOK, Places
  <2>4. PlaceOK'
    BY <2>2, <2>3 DEF Enter, PlaceOK, Places
  <2> QED
    BY <1>5, <2>1, <2>4 DEF initialised, PlaceOK, Places
<1>6. CASE registerWithServer(a)
  BY <1>6 DEF registerWithServer, cleanup, Enter, processVars
<1>7. CASE listen(a)
  BY <1>7 DEF listen, cleanup, Enter, processVars, registryVars
<1>8. CASE shutdown(a)
  BY <1>8 DEF shutdown, Enter, processVars, registryVars
<1>9. CASE drained(a)
  BY <1>9 DEF drained, cleanup, processVars, registryVars
<1>10. CASE graceElapses(a)
  BY <1>10 DEF graceElapses, cleanup, registryVars
<1>11. CASE exit(a)
  BY <1>11 DEF exit, registryVars
<1>12. CASE startPanics(a)
  BY <1>12 DEF startPanics, cleanup, processVars
<1>13. CASE requestBegins(a)
  BY <1>13 DEF requestBegins, registryVars
<1>14. CASE requestEnds(a)
  BY <1>14 DEF requestEnds, registryVars
<1>15. CASE signal(a)
  BY <1>15 DEF signal, registryVars
<1>16. CASE serviceStops(a)
  BY <1>16 DEF serviceStops, cleanup, registryVars
<1>17. CASE killed(a)
  BY <1>17 DEF killed, Enter
<1> QED
  BY <1>1, <1>2, <1>3, <1>4, <1>5, <1>6, <1>7, <1>8, <1>9, <1>10, <1>11, <1>12, <1>13, <1>14, <1>15, <1>16, <1>17
  DEF AgentStep, Progress

(* Every step of a process is its own.                                       *)
LEMMA AgentStepFrame ==
  ASSUME NEW a \in Agents, LifecycleTypeOK, AgentStep(a)
  PROVE  (\A b \in Agents \ {a} : Same(b)) /\ UNCHANGED <<server, runs, agents, listing>>
<1> USE DEF LifecycleTypeOK, RegistryTypeOK, Same
<1>1. ASSUME NEW m \in ModesOf[a], start(a, m) PROVE (\A b \in Agents \ {a} : Same(b)) /\ UNCHANGED <<server, runs, agents, listing>>
  BY <1>1, LifecycleAssumption DEF start, registryVars
<1>2. ASSUME NEW m \in ModulesOf[a], initModule(a, m) PROVE (\A b \in Agents \ {a} : Same(b)) /\ UNCHANGED <<server, runs, agents, listing>>
  BY <1>2 DEF initModule, registryVars
<1>3. ASSUME NEW m \in ModulesOf[a], deinitModule(a, m) PROVE (\A b \in Agents \ {a} : Same(b)) /\ UNCHANGED <<server, runs, agents, listing>>
  BY <1>3 DEF deinitModule, registryVars
<1>4. CASE loadConfig(a)
  BY <1>4 DEF loadConfig, cleanup, registryVars
<1>5. CASE initialised(a)
  BY <1>5 DEF initialised, cleanup, Enter
<1>6. CASE registerWithServer(a)
  BY <1>6 DEF registerWithServer, cleanup, Enter, processVars
<1>7. CASE listen(a)
  BY <1>7 DEF listen, cleanup, Enter, processVars, registryVars
<1>8. CASE shutdown(a)
  BY <1>8 DEF shutdown, Enter, processVars, registryVars
<1>9. CASE drained(a)
  BY <1>9 DEF drained, cleanup, processVars, registryVars
<1>10. CASE graceElapses(a)
  BY <1>10 DEF graceElapses, cleanup, registryVars
<1>11. CASE exit(a)
  BY <1>11 DEF exit, registryVars
<1>12. CASE startPanics(a)
  BY <1>12 DEF startPanics, cleanup, processVars
<1>13. CASE requestBegins(a)
  BY <1>13 DEF requestBegins, registryVars
<1>14. CASE requestEnds(a)
  BY <1>14 DEF requestEnds, registryVars
<1>15. CASE signal(a)
  BY <1>15 DEF signal, registryVars
<1>16. CASE serviceStops(a)
  BY <1>16 DEF serviceStops, cleanup, registryVars
<1>17. CASE killed(a)
  BY <1>17 DEF killed, Enter
<1> QED
  BY <1>1, <1>2, <1>3, <1>4, <1>5, <1>6, <1>7, <1>8, <1>9, <1>10, <1>11, <1>12, <1>13, <1>14, <1>15, <1>16, <1>17
  DEF AgentStep, Progress

(* Every step of a process keeps what is known of it at each place of        *)
(* start(): the modules, the requests and the exit code.                     *)
LEMMA AgentStepLoop ==
  ASSUME NEW a \in Agents, LifecycleTypeOK, LoopOK(a), RequestOK(a), CodeOK(a), AgentStep(a)
  PROVE  LoopOK(a)' /\ RequestOK(a)' /\ CodeOK(a)'
<1> USE DEF LifecycleTypeOK, LoopOK, RequestOK, CodeOK
<1>1. ASSUME NEW m \in ModesOf[a], start(a, m) PROVE LoopOK(a)' /\ RequestOK(a)' /\ CodeOK(a)'
  BY <1>1, LifecycleAssumption DEF start, registryVars
<1>2. ASSUME NEW m \in ModulesOf[a], initModule(a, m) PROVE LoopOK(a)' /\ RequestOK(a)' /\ CodeOK(a)'
  BY <1>2 DEF initModule, registryVars
<1>3. ASSUME NEW m \in ModulesOf[a], deinitModule(a, m) PROVE LoopOK(a)' /\ RequestOK(a)' /\ CodeOK(a)'
  BY <1>3 DEF deinitModule, registryVars
<1>4. CASE loadConfig(a)
  BY <1>4 DEF loadConfig, cleanup, registryVars
<1>5. CASE initialised(a)
  BY <1>5 DEF initialised, cleanup, Enter
<1>6. CASE registerWithServer(a)
  BY <1>6 DEF registerWithServer, cleanup, Enter, processVars
<1>7. CASE listen(a)
  BY <1>7 DEF listen, cleanup, Enter, processVars, registryVars
<1>8. CASE shutdown(a)
  BY <1>8 DEF shutdown, Enter, processVars, registryVars
<1>9. CASE drained(a)
  BY <1>9 DEF drained, cleanup, processVars, registryVars
<1>10. CASE graceElapses(a)
  BY <1>10 DEF graceElapses, cleanup, registryVars
<1>11. CASE exit(a)
  BY <1>11 DEF exit, registryVars
<1>12. CASE startPanics(a)
  BY <1>12 DEF startPanics, cleanup, processVars
<1>13. CASE requestBegins(a)
  BY <1>13 DEF requestBegins, registryVars
<1>14. CASE requestEnds(a)
  BY <1>14 DEF requestEnds, registryVars
<1>15. CASE signal(a)
  BY <1>15 DEF signal, registryVars
<1>16. CASE serviceStops(a)
  BY <1>16 DEF serviceStops, cleanup, registryVars
<1>17. CASE killed(a)
  BY <1>17 DEF killed, Enter
<1> QED
  BY <1>1, <1>2, <1>3, <1>4, <1>5, <1>6, <1>7, <1>8, <1>9, <1>10, <1>11, <1>12, <1>13, <1>14, <1>15, <1>16, <1>17
  DEF AgentStep, Progress

(* Every step of a process keeps what is known of its registration.          *)
LEMMA AgentStepRoute ==
  ASSUME NEW a \in Agents, LifecycleTypeOK, RouteOK(a), AgentStep(a)
  PROVE  RouteOK(a)'
<1> USE DEF LifecycleTypeOK, RegistryTypeOK, RouteOK, Routed
<1>1. ASSUME NEW m \in ModesOf[a], start(a, m) PROVE RouteOK(a)'
  BY <1>1, LifecycleAssumption DEF start, registryVars
<1>2. ASSUME NEW m \in ModulesOf[a], initModule(a, m) PROVE RouteOK(a)'
  BY <1>2 DEF initModule, registryVars
<1>3. ASSUME NEW m \in ModulesOf[a], deinitModule(a, m) PROVE RouteOK(a)'
  BY <1>3 DEF deinitModule, registryVars
<1>4. CASE loadConfig(a)
  BY <1>4 DEF loadConfig, cleanup, registryVars
<1>5. CASE initialised(a)
  BY <1>5 DEF initialised, cleanup, Enter
<1>6. CASE registerWithServer(a)
  BY <1>6 DEF registerWithServer, cleanup, Enter, processVars
<1>7. CASE listen(a)
  BY <1>7 DEF listen, cleanup, Enter, processVars, registryVars
<1>8. CASE shutdown(a)
  BY <1>8 DEF shutdown, Enter, processVars, registryVars
<1>9. CASE drained(a)
  BY <1>9 DEF drained, cleanup, processVars, registryVars
<1>10. CASE graceElapses(a)
  BY <1>10 DEF graceElapses, cleanup, registryVars
<1>11. CASE exit(a)
  BY <1>11 DEF exit, registryVars
<1>12. CASE startPanics(a)
  BY <1>12 DEF startPanics, cleanup, processVars
<1>13. CASE requestBegins(a)
  BY <1>13 DEF requestBegins, registryVars
<1>14. CASE requestEnds(a)
  BY <1>14 DEF requestEnds, registryVars
<1>15. CASE signal(a)
  BY <1>15 DEF signal, registryVars
<1>16. CASE serviceStops(a)
  BY <1>16 DEF serviceStops, cleanup, registryVars
<1>17. CASE killed(a)
  BY <1>17 DEF killed, Enter
<1> QED
  BY <1>1, <1>2, <1>3, <1>4, <1>5, <1>6, <1>7, <1>8, <1>9, <1>10, <1>11, <1>12, <1>13, <1>14, <1>15, <1>16, <1>17
  DEF AgentStep, Progress

-----------------------------------------------------------------------------
(* The registry's own steps keep its types.                                  *)
LEMMA RegistryStepTypes ==
  ASSUME RegistryTypeOK, RegistryNext
  PROVE  RegistryTypeOK'
<1> USE RegistryAssumption DEF RegistryTypeOK, Down
<1>1. CASE List \/ listReturns \/ serverStops
  BY <1>1 DEF List, listReturns, serverStops
<1>2. CASE serverStarts
  BY <1>2 DEF serverStarts
<1>3. ASSUME NEW a \in Agents, Register(a) PROVE RegistryTypeOK'
  <2>1. agents' \in [Devices -> Agents \cup {NoAgent}]
    BY <1>3 DEF Register, addAgent
  <2>2. reg' \in [Agents -> {"none", "sent", "accepted", "refused", "late"}]
    BY <1>3 DEF Register
  <2> QED
    BY <1>3, <2>1, <2>2 DEF Register
<1>4. ASSUME NEW a \in Agents, registerLost(a) \/ concurrentMapWrite(a) PROVE RegistryTypeOK'
  BY <1>4 DEF registerLost, concurrentMapWrite
<1> QED
  BY <1>1, <1>2, <1>3, <1>4 DEF RegistryNext

(* addAgent enters all of an agent's devices or none, and takes no device     *)
(* from another agent.                                                       *)
LEMMA AddAgentWhole ==
  ASSUME RegistryTypeOK, RegistryWhole, NEW a \in Agents
  PROVE  /\ \A b \in Agents : {d \in Devices : addAgent(a)[d] = b} \in {{}, DevicesOf[b]}
         /\ \A d \in Devices : agents[d] # NoAgent => addAgent(a)[d] = agents[d]
         /\ ~Refused(a) => \A d \in DevicesOf[a] : addAgent(a)[d] = a
<1> USE RegistryAssumption DEF RegistryTypeOK
<1>1. \A d \in Devices : agents[d] # NoAgent => addAgent(a)[d] = agents[d]
  BY DEF addAgent
<1>2. ASSUME ~Refused(a) PROVE \A d \in DevicesOf[a] : addAgent(a)[d] = a
  BY <1>2 DEF addAgent, Refused
<1>3. ASSUME NEW b \in Agents
      PROVE  {d \in Devices : addAgent(a)[d] = b} \in {{}, DevicesOf[b]}
  <2>1. {d \in Devices : agents[d] = b} \in {{}, DevicesOf[b]}
    BY DEF RegistryWhole
  <2>2. CASE \A e \in DevicesOf[a] : agents[e] = NoAgent
    <3>1. CASE b = a
      <4>1. \A d \in Devices : agents[d] = a => FALSE
        BY <2>1, <2>2, <3>1
      <4>2. \A d \in Devices : addAgent(a)[d] = a <=> d \in DevicesOf[a]
        BY <4>1, <2>2 DEF addAgent
      <4> QED
        BY <4>2, <3>1
    <3>2. CASE b # a
      <4>1. \A d \in Devices : addAgent(a)[d] = b <=> agents[d] = b
        BY <2>2, <3>2 DEF addAgent
      <4> QED
        BY <4>1, <2>1
    <3> QED
      BY <3>1, <3>2
  <2>3. CASE ~\A e \in DevicesOf[a] : agents[e] = NoAgent
    <3>1. \A d \in Devices : addAgent(a)[d] = agents[d]
      BY <2>3 DEF addAgent
    <3> QED
      BY <3>1, <2>1
  <2> QED
    BY <2>2, <2>3
<1> QED
  BY <1>1, <1>2, <1>3

(* Registrations stay whole whatever the server does.                        *)
LEMMA RegistryStepWhole ==
  ASSUME RegistryTypeOK, RegistryWhole, RegistryNext
  PROVE  RegistryWhole'
<1>1. ASSUME NEW a \in Agents, Register(a) PROVE RegistryWhole'
  BY <1>1, AddAgentWhole DEF Register, RegistryWhole
<1>2. ASSUME Down PROVE RegistryWhole'
  BY <1>2, RegistryAssumption DEF Down, RegistryWhole
<1>3. ASSUME UNCHANGED agents PROVE RegistryWhole'
  BY <1>3 DEF RegistryWhole
<1> QED
  BY <1>1, <1>2, <1>3
  DEF RegistryNext, List, listReturns, serverStops, serverStarts, registerLost, concurrentMapWrite

(* The first registration wins, step by step.                                *)
LEMMA RegistryStepFirst ==
  ASSUME RegistryTypeOK, RegistryWhole, RegistryNext, server' = "up", NEW d \in Devices, agents[d] # NoAgent
  PROVE  agents'[d] = agents[d]
<1>1. ASSUME NEW a \in Agents, Register(a) PROVE agents'[d] = agents[d]
  BY <1>1, AddAgentWhole DEF Register
<1>2. ~Down
  BY DEF Down
<1> QED
  BY <1>1, <1>2
  DEF RegistryNext, List, listReturns, serverStops, serverStarts, registerLost, concurrentMapWrite

(* What is known of a registration survives every step of the server: a      *)
(* server that comes back is a later run than the one the agent was born in. *)
LEMMA RegistryStepRoute ==
  ASSUME LifecycleTypeOK, RegistryWhole, NEW b \in Agents, RouteOK(b), RegistryNext, UNCHANGED lifeVars
  PROVE  RouteOK(b)'
<1> USE RegistryAssumption DEF LifecycleTypeOK, RegistryTypeOK, RouteOK, Routed
<1> UNCHANGED <<phase, mode, bornIn>>
  BY DEF lifeVars, processVars
<1>1. CASE List \/ listReturns
  BY <1>1 DEF List, listReturns
<1>2. CASE Down
  BY <1>2 DEF Down
<1>3. CASE serverStarts
  BY <1>3 DEF serverStarts
<1>4. ASSUME NEW a \in Agents, Register(a) PROVE RouteOK(b)'
  <2>1. \A d \in Devices : agents[d] # NoAgent => agents'[d] = agents[d]
    BY <1>4, AddAgentWhole DEF Register
  <2>2. Routed(b) => Routed(b)'
    BY <2>1
  <2>3. CASE a = b
    <3>1. reg'[b] \in {"none", "refused"} \/ (~Refused(b) /\ reg[b] = "sent")
      BY <1>4, <2>3 DEF Register
    <3>2. ~Refused(b) => Routed(b)'
      BY <1>4, <2>3, AddAgentWhole DEF Register
    <3>3. reg[b] \in {"sent", "late"} /\ UNCHANGED <<server, runs>>
      BY <1>4, <2>3 DEF Register
    <3>4. reg'[b] \in {"sent", "accepted", "refused"} => reg[b] = "sent"
      BY <1>4, <2>3 DEF Register
    <3>5. reg'[b] = "accepted" => Routed(b)'
      BY <3>1, <3>2
    <3>6. server' = "up" /\ bornIn[b] = runs /\ phase[b] \in {"listen", "serve", "drain"} /\ mode[b] = "registered"
             => Routed(b)'
      BY <2>2, <3>3
    <3>7. reg'[b] \in {"sent", "accepted", "refused"} => phase[b] = "register"
      BY <3>4
    <3> QED
      BY <3>3, <3>5, <3>6, <3>7
  <2>4. CASE a # b
    <3>1. reg'[b] = reg[b] /\ UNCHANGED <<server, runs>>
      BY <1>4, <2>4 DEF Register
    <3> QED
      BY <2>2, <3>1
  <2> QED
    BY <2>3, <2>4
<1>5. ASSUME NEW a \in Agents, registerLost(a) PROVE RouteOK(b)'
  BY <1>5 DEF registerLost
<1> QED
  BY <1>1, <1>2, <1>3, <1>4, <1>5
  DEF RegistryNext, serverStops, concurrentMapWrite

-----------------------------------------------------------------------------
(* The invariant holds at the start.                                         *)
LEMMA LifeInitInv == LifecycleInit => LifeInv
<1> SUFFICES ASSUME LifecycleInit PROVE LifeInv
  OBVIOUS
<1>0. 0 \in 0..MaxServerRuns /\ 1 \in 1..MaxServerRuns /\ 0 \in 0..MaxStarts
  BY LifecycleAssumption, RegistryAssumption
<1> USE LifecycleAssumption, RegistryAssumption DEF LifecycleInit, RegistryInit
<1>1. LifecycleTypeOK
  <2>1. RegistryTypeOK
    BY <1>0 DEF RegistryTypeOK
  <2> QED
    BY <1>0, <2>1 DEF LifecycleTypeOK, AllModes
<1>2. RegistryWhole
  BY DEF RegistryWhole
<1>3. ASSUME NEW a \in Agents PROVE LoopOK(a) /\ RequestOK(a) /\ CodeOK(a) /\ RouteOK(a)
  BY DEF LoopOK, RequestOK, CodeOK, RouteOK
<1> QED
  BY <1>1, <1>2, <1>3 DEF LifeInv

(* The inductive step: a step is the server's, that of one process, or none.  *)
LEMMA LifeStepInv == LifeInv /\ [LifecycleNext]_vars => LifeInv'
<1> SUFFICES ASSUME LifeInv, [LifecycleNext]_vars PROVE LifeInv'
  OBVIOUS
<1>1. ASSUME NEW a \in Agents, AgentStep(a) PROVE LifeInv'
  <2>1. LifecycleTypeOK'
    BY <1>1, AgentStepTypes DEF LifeInv
  <2>2. (\A b \in Agents \ {a} : Same(b)) /\ UNCHANGED <<server, runs, agents, listing>>
    BY <1>1, AgentStepFrame DEF LifeInv
  <2>3. RegistryWhole'
    BY <2>2 DEF LifeInv, RegistryWhole
  <2>4. LoopOK(a)' /\ RequestOK(a)' /\ CodeOK(a)' /\ RouteOK(a)'
    BY <1>1, AgentStepLoop, AgentStepRoute DEF LifeInv
  <2>5. ASSUME NEW b \in Agents \ {a} PROVE LoopOK(b)' /\ RequestOK(b)' /\ CodeOK(b)' /\ RouteOK(b)'
    <3>1. LoopOK(b) /\ RequestOK(b) /\ CodeOK(b) /\ RouteOK(b) /\ Same(b)
      BY <2>2 DEF LifeInv
    <3>2. LoopOK(b)' /\ RequestOK(b)' /\ CodeOK(b)'
      BY <3>1 DEF LoopOK, RequestOK, CodeOK, Same
    <3>3. RouteOK(b)'
      BY <2>2, <3>1 DEF RouteOK, Routed, Same
    <3> QED
      BY <3>2, <3>3
  <2> QED
    BY <2>1, <2>3, <2>4, <2>5 DEF LifeInv
<1>2. CASE RegistryNext /\ UNCHANGED lifeVars
  <2>1. LifecycleTypeOK'
    BY <1>2, RegistryStepTypes DEF LifeInv, LifecycleTypeOK, lifeVars, processVars
  <2>2. RegistryWhole'
    BY <1>2, RegistryStepWhole DEF LifeInv, LifecycleTypeOK
  <2>3. ASSUME NEW b \in Agents PROVE LoopOK(b)' /\ RequestOK(b)' /\ CodeOK(b)'
    BY <1>2 DEF LifeInv, LoopOK, RequestOK, CodeOK, lifeVars, processVars
  <2>4. ASSUME NEW b \in Agents PROVE RouteOK(b)'
    BY <1>2, RegistryStepRoute DEF LifeInv
  <2> QED
    BY <2>1, <2>2, <2>3, <2>4 DEF LifeInv
<1>3. CASE UNCHANGED vars
  BY <1>3 DEF LifeInv, LifecycleTypeOK, RegistryTypeOK, RegistryWhole, LoopOK, RequestOK, CodeOK, RouteOK,
              Routed, vars, lifeVars, processVars, registryVars
<1> QED
  BY <1>1, <1>2, <1>3 DEF LifecycleNext, AllStopped

(* So it holds always.                                                       *)
LEMMA LifeInvAlways == LifecycleSpec => []LifeInv
<1> QED
  BY LifeInitInv, LifeStepInv, PTL DEF LifecycleSpec

-----------------------------------------------------------------------------
(* Every way out of start(): a failed Init or Deinit, a refused or late       *)
(* registration, a port in use, a panic, a signal at any moment, leaves no    *)
(* module initialised, de-initialises none under a request it could have      *)
(* drained, and exits with a code that tells the truth.                       *)
THEOREM LifecycleCorrect == LifecycleSpec => []LifecycleInv
<1>1. LifeInv => LifecycleInv
  BY DEF LifeInv, LifecycleInv, LoopOK, RequestOK, CodeOK, AllDeinitialised, DrainedFirst, ExitHonest
<1> QED
  BY <1>1, LifeInvAlways, PTL

(* addAgent's registration is all or nothing, whoever claims the same device. *)
THEOREM RegistrationWhole == LifecycleSpec => []RegistryWhole
<1>1. LifeInv => RegistryWhole
  BY DEF LifeInv
<1> QED
  BY <1>1, LifeInvAlways, PTL

(* An agent that serves is reachable through the server that accepted it,     *)
(* for every device of its configuration.                                    *)
THEOREM ServingReachable == LifecycleSpec => []ServingIsReachable
<1>1. LifeInv => ServingIsReachable
  BY RegistryAssumption DEF LifeInv, RouteOK, Routed, ServingIsReachable, Forward
<1> QED
  BY <1>1, LifeInvAlways, PTL

(* No later registration, and no step of any agent, takes a device from the   *)
(* agent it is routed to while the server runs.                              *)
THEOREM FirstRegistrationWins == LifecycleSpec => FirstWins
<1> DEFINE Keep == \A d \in Devices : agents[d] # NoAgent /\ server' = "up" => agents'[d] = agents[d]
<1>1. LifeInv /\ [LifecycleNext]_vars => [Keep]_registryVars
  <2> SUFFICES ASSUME LifeInv, [LifecycleNext]_vars PROVE [Keep]_registryVars
    OBVIOUS
  <2>1. ASSUME NEW a \in Agents, AgentStep(a) PROVE Keep
    BY <2>1, AgentStepFrame DEF LifeInv
  <2>2. CASE RegistryNext
    BY <2>2, RegistryStepFirst DEF LifeInv, LifecycleTypeOK
  <2>3. CASE UNCHANGED vars
    BY <2>3 DEF vars
  <2> QED
    BY <2>1, <2>2, <2>3 DEF LifecycleNext, AllStopped
<1> QED
  BY <1>1, LifeInvAlways, PTL DEF LifecycleSpec, FirstWins
=============================================================================
