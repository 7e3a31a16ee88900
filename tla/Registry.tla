------------------------------ MODULE Registry ------------------------------
(***************************************************************************)
(* dutserver's registry of agents (cmds/exp/dutserver): which agent serves  *)
(* which device.  It lives in memory only and nothing is ever taken out.    *)
(***************************************************************************)
EXTENDS Naturals, FiniteSets

CONSTANTS
  Agents, Devices,
  DevicesOf,     \* the devices in each agent's configuration
  NoAgent,
  MaxServerRuns  \* how often dutserver is started

ASSUME RegistryAssumption ==
  /\ DevicesOf \in [Agents -> SUBSET Devices]
  /\ NoAgent \notin Agents /\ MaxServerRuns \in Nat \ {0}

VARIABLES
  server,     \* "up" or "down"
  runs,       \* how often it was started
  agents,     \* device -> agent
  listing,    \* a List request is iterating over the map
  reg         \* per agent: its Register request

registryVars == <<server, runs, agents, listing, reg>>

(* Mutant: devices are entered one by one until one is taken.               *)
addAgentPartly(a) == [d \in Devices |-> IF d \in DevicesOf[a] /\ agents[d] = NoAgent THEN a ELSE agents[d]]

(* Mutant: a later registration replaces an earlier one.                    *)
addAgentReplaces(a) == [d \in Devices |-> IF d \in DevicesOf[a] THEN a ELSE agents[d]]

(* All devices are entered, or none if one of them is already there.        *)
addAgent(a) == [d \in Devices |->
  IF d \in DevicesOf[a] /\ (\A e \in DevicesOf[a] : agents[e] = NoAgent) THEN a ELSE agents[d]]

Refused(a) == DevicesOf[a] = {} \/ \E d \in DevicesOf[a] : agents[d] # NoAgent

(* The server processes the request of an agent, perhaps after that agent    *)
(* has given up waiting.                                                    *)
Register(a) ==
  /\ server = "up" /\ reg[a] \in {"sent", "late"}
  /\ agents' = addAgent(a)
  /\ reg' = [reg EXCEPT ![a] = IF @ = "late" THEN "none" ELSE IF Refused(a) THEN "refused" ELSE "accepted"]
  /\ UNCHANGED <<server, runs, listing>>

(* A lost request or a connection to a server that is down.                 *)
registerLost(a) ==
  /\ reg[a] = "late" /\ reg' = [reg EXCEPT ![a] = "none"]
  /\ UNCHANGED <<server, runs, agents, listing>>

Down ==
  /\ server' = "down" /\ listing' = FALSE
  /\ agents' = [d \in Devices |-> NoAgent]
  /\ UNCHANGED <<runs, reg>>

(* List iterates over the map without the lock.  The runtime stops the       *)
(* process when it notices a write meanwhile, and it need not notice.       *)
List ==
  /\ server = "up" /\ ~listing
  /\ listing' = TRUE /\ UNCHANGED <<server, runs, agents, reg>>

listReturns ==
  /\ listing
  /\ listing' = FALSE /\ UNCHANGED <<server, runs, agents, reg>>

concurrentMapWrite(a) ==
  /\ server = "up" /\ listing /\ reg[a] \in {"sent", "late"} /\ ~Refused(a)
  /\ Down

(* A signal, or a crash.                                                    *)
serverStops == server = "up" /\ Down

serverStarts ==
  /\ server = "down" /\ runs < MaxServerRuns
  /\ server' = "up" /\ runs' = runs + 1
  /\ UNCHANGED <<agents, listing, reg>>

RegistryInit ==
  /\ server = "up" /\ runs = 1 /\ listing = FALSE
  /\ agents = [d \in Devices |-> NoAgent]
  /\ reg = [a \in Agents |-> "none"]

RegistryNext ==
  \/ List \/ listReturns \/ serverStops \/ serverStarts
  \/ \E a \in Agents : Register(a) \/ registerLost(a) \/ concurrentMapWrite(a)

RegistryTypeOK ==
  /\ server \in {"up", "down"} /\ runs \in 1..MaxServerRuns
  /\ agents \in [Devices -> Agents \cup {NoAgent}]
  /\ listing \in BOOLEAN
  /\ reg \in [Agents -> {"none", "sent", "accepted", "refused", "late"}]

(* Registration is all or nothing, and a device is only ever routed to an    *)
(* agent that has it in its configuration: whatever the order of two agents  *)
(* that claim the same device, requests that arrive late, and restarts of    *)
(* the server.                                                              *)
RegistryWhole ==
  \A a \in Agents : {d \in Devices : agents[d] = a} \in {{}, DevicesOf[a]}

(* The first registration wins: while the server runs no device changes its  *)
(* agent.                                                                   *)
FirstWins ==
  [][\A d \in Devices : agents[d] # NoAgent /\ server' = "up" => agents'[d] = agents[d]]_registryVars
=============================================================================
