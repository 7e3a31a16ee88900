-------------------------------- MODULE Relay --------------------------------
(***************************************************************************)
(* A Run over dutserver (cmds/exp/dutserver/rpc.go): the handler that finds *)
(* the agent, and its two forwarding goroutines, between the client of      *)
(* module Client and an agent.  Without the relay the agent is at the other *)
(* end of the client's leg.                                                 *)
(***************************************************************************)
EXTENDS Client

CONSTANTS MaxResponses   \* responses the agent sends

ASSUME MaxResponsesAssumption == MaxResponses \in Nat

VARIABLES
  viaServer,        \* the client talks to dutserver, not to an agent
  relay,            \* where the Run handler is
  fwdDown, fwdUp,   \* where the two forwarding goroutines are
  relayCancelled,   \* the handler's runCtx is done
  relayErr,         \* errors of the goroutines nobody has taken
  agentVersion,     \* "unknown" until the first response, then "relayed"
  agentSent,        \* what the agent has sent
  agent,            \* "idle" until it has its command, "running", or "awaiting"
                    \* the file its module asked for
  fault             \* the leg whose connection failed, a turned down "request",
                    \* or "closed" if the client closed its direction

relayVars == <<relay, fwdDown, fwdUp, relayCancelled, relayErr, agentVersion>>
agentVars == <<agentSent, agent>>
vars == <<streamVars, clientVars, relayVars, agentVars, viaServer, fault>>

AgentLeg == IF viaServer THEN "agent" ELSE "client"

(* The client side of a leg has reset the stream: its context is cancelled.  *)
Gone(leg) == fault = leg \/ (IF leg = "client" THEN runCancelled ELSE relayCancelled)

(* The handler returns: its status ends the client's leg, the deferred       *)
(* cancel ends its context and with it the request to the agent.            *)
Finish(status) ==
  /\ relay' = "returned" /\ relayCancelled' = TRUE
  /\ end' = [end EXCEPT !["client"] = IF @ = "open" THEN status ELSE @]

(* cancel(cause): the parked select of the handler wakes.                   *)
CancelRelay ==
  /\ IF relay = "parked" THEN Finish("ok") ELSE relayCancelled' = TRUE /\ UNCHANGED <<relay, end>>
  /\ UNCHANGED relayErr

(* errChan <- err and the deferred cancel of the goroutine.                 *)
PostRelay(status) ==
  /\ IF relay = "parked"
       THEN Finish(status) /\ UNCHANGED relayErr
       ELSE relayErr' = Append(relayErr, status) /\ relayCancelled' = TRUE /\ UNCHANGED <<relay, end>>

-----------------------------------------------------------------------------
(* The Run handler. *)

relayRoutes ==
  /\ viaServer /\ relay = "idle" /\ up["client"] # <<>> /\ Head(up["client"]) = "command"
  /\ up' = [up EXCEPT !["client"] = Tail(@), !["agent"] = Append(@, "command")]
  /\ relay' = "starting" /\ fwdDown' = "forward" /\ fwdUp' = "forward"
  /\ UNCHANGED <<down, end, relayCancelled, relayErr, agentVersion,
                 clientVars, agentVars, viaServer, fault>>

(* The client is gone, the device is unknown, the client's major version is  *)
(* another one, or the agent cannot be reached.                             *)
relayRejects ==
  /\ viaServer /\ relay = "idle" /\ (up["client"] # <<>> \/ Gone("client"))
  /\ Finish("failed") /\ fault' = IF fault = "none" THEN "request" ELSE fault
  /\ UNCHANGED <<up, down, fwdDown, fwdUp, relayErr, agentVersion,
                 clientVars, agentVars, viaServer>>

(* The final select; a done context may win over a waiting error.           *)
selectRelay ==
  /\ relay = "starting"
  /\ \/ /\ relayCancelled /\ Finish("ok")
        /\ raced' = (raced \/ relayErr # <<>>) /\ UNCHANGED relayErr
     \/ /\ relayErr # <<>> /\ Finish(Head(relayErr)) /\ relayErr' = Tail(relayErr)
        /\ UNCHANGED raced
     \/ /\ ~relayCancelled /\ relayErr = <<>>
        /\ relay' = "parked" /\ UNCHANGED <<relayCancelled, relayErr, end, raced>>
  /\ UNCHANGED <<up, down, main, runCancelled, signalled, errChan, result, rcv, snd, shown,
                 typed, fwdDown, fwdUp, agentVersion, agentVars, viaServer, fault>>

-----------------------------------------------------------------------------
(* Agent to client.  Each round looks at the context, receives and sends.   *)

forwardSame == UNCHANGED <<clientVars, agentVars, viaServer>>

(* The agent's version is relayed once, before the first response.          *)
downForwards ==
  /\ fwdDown = "forward" /\ down["agent"] # <<>> /\ relay # "returned"
  /\ down' = [down EXCEPT !["agent"] = Tail(@), !["client"] = Append(@, Head(down["agent"]))]
  /\ agentVersion' = "relayed"
  /\ UNCHANGED <<up, end, relay, fwdDown, fwdUp, relayCancelled, relayErr, fault>> /\ forwardSame

(* Or its major version differs from dutserver's and the run is given up.   *)
downRefuses ==
  /\ fwdDown = "forward" /\ down["agent"] # <<>> /\ agentVersion = "unknown"
  /\ fwdDown' = "ended" /\ PostRelay("failed") /\ fault' = IF fault = "none" THEN "request" ELSE fault
  /\ UNCHANGED <<up, down, fwdUp, agentVersion>> /\ forwardSame

(* The client is gone, or the handler has returned: then net/http panics,    *)
(* which ends the process, or gives an error.                               *)
downSendFails ==
  /\ fwdDown = "forward" /\ down["agent"] # <<>>
  /\ Gone("client") \/ relay = "returned"
  /\ down' = [down EXCEPT !["agent"] = Tail(@)]
  /\ fwdDown' = "ended" /\ PostRelay("failed")
  /\ UNCHANGED <<up, fwdUp, agentVersion, fault>> /\ forwardSame

(* io.EOF, or the context is found cancelled.                               *)
downEnds ==
  /\ fwdDown = "forward"
  /\ relayCancelled \/ (down["agent"] = <<>> /\ end["agent"] = "ok")
  /\ fwdDown' = "ended" /\ CancelRelay
  /\ UNCHANGED <<up, down, fwdUp, agentVersion, fault>> /\ forwardSame

(* The agent's status, or the cancellation as seen by a waiting Receive.    *)
downFails ==
  /\ fwdDown = "forward"
  /\ \/ relayCancelled /\ PostRelay("canceled")
     \/ down["agent"] = <<>> /\ end["agent"] \in {"failed", "canceled"} /\ PostRelay(end["agent"])
  /\ fwdDown' = "ended"
  /\ UNCHANGED <<up, down, fwdUp, agentVersion, fault>> /\ forwardSame

-----------------------------------------------------------------------------
(* Client to agent. *)

upForwards ==
  /\ fwdUp = "forward" /\ relay # "returned" /\ up["client"] # <<>> /\ Head(up["client"]) # "garbled"
  /\ up' = [up EXCEPT !["client"] = Tail(@),
                      !["agent"] = IF end["agent"] = "open" THEN Append(@, Head(up["client"])) ELSE @]
  /\ UNCHANGED <<down, end, relay, fwdDown, fwdUp, relayCancelled, relayErr, agentVersion, fault>> /\ forwardSame

upSendFails ==
  /\ fwdUp = "forward" /\ up["client"] # <<>> /\ SendMayFail("agent", relayCancelled)
  /\ up' = [up EXCEPT !["client"] = Tail(@)]
  /\ fwdUp' = "ended" /\ PostRelay("failed")
  /\ UNCHANGED <<down, fwdDown, agentVersion, fault>> /\ forwardSame

(* The client closed its direction, or the context is found cancelled.      *)
upEnds ==
  /\ fwdUp = "forward"
  /\ relayCancelled \/ (up["client"] = <<>> /\ fault = "closed" /\ ~Gone("client"))
  /\ fwdUp' = "ended" /\ CancelRelay
  /\ UNCHANGED <<up, down, fwdDown, agentVersion, fault>> /\ forwardSame

(* Mutant: a client that is gone ends the goroutine and nothing else.       *)
upFailsQuietly ==
  /\ fwdUp = "forward"
  /\ \/ Gone("client") \/ relay = "returned"
     \/ up["client"] # <<>> /\ Head(up["client"]) = "garbled"
  /\ fwdUp' = "ended"
  /\ UNCHANGED <<streamVars, relay, relayCancelled, relayErr, fwdDown, agentVersion, fault>> /\ forwardSame

(* The client is gone, sent what cannot be decoded, or the handler returned. *)
upFails ==
  /\ fwdUp = "forward"
  /\ \/ Gone("client") \/ relay = "returned"
     \/ up["client"] # <<>> /\ Head(up["client"]) = "garbled"
  /\ fwdUp' = "ended" /\ PostRelay(IF Gone("client") THEN "canceled" ELSE "failed")
  /\ UNCHANGED <<up, down, fwdDown, agentVersion, fault>> /\ forwardSame

-----------------------------------------------------------------------------
(* The agent, the network and other clients of dutserver. *)

sameRelay == UNCHANGED <<relayVars, clientVars, viaServer>>

agentReceives ==
  /\ up[AgentLeg] # <<>> /\ end[AgentLeg] = "open"
  /\ up' = [up EXCEPT ![AgentLeg] = Tail(@)]
  /\ agent' = IF Head(up[AgentLeg]) \in {"command", "file"} THEN "running" ELSE agent
  /\ end' = [end EXCEPT ![AgentLeg] = IF Head(up[AgentLeg]) = "garbled" THEN "failed" ELSE @]
  /\ UNCHANGED <<down, agentSent, fault>> /\ sameRelay

(* RequestFile blocks its module until the file is there.                   *)
agentSends(m) ==
  /\ agent # "idle" /\ end[AgentLeg] = "open" /\ Len(agentSent) < MaxResponses
  /\ m = "fileRequest" => agent = "running"
  /\ down' = [down EXCEPT ![AgentLeg] = Append(@, m)] /\ agentSent' = Append(agentSent, m)
  /\ agent' = IF m = "fileRequest" THEN "awaiting" ELSE agent
  /\ UNCHANGED <<up, end, fault>> /\ sameRelay

(* A module that requested a file does not succeed without it.  waitModules  *)
(* answers "canceled" when the request is cancelled, and moduleError for any *)
(* module error that wraps context.Canceled; the modules under pkg/module    *)
(* return such an error only when their request is cancelled, which a        *)
(* shutdown of the agent does not do.                                       *)
agentEnds(status) ==
  /\ agent # "idle" /\ end[AgentLeg] = "open"
  /\ status = "ok" => agent = "running"
  /\ status = "canceled" => Gone(AgentLeg)
  /\ end' = [end EXCEPT ![AgentLeg] = status]
  /\ UNCHANGED <<up, down, agentVars, fault>> /\ sameRelay

(* A connection fails with what was under way on it.                        *)
connectionBreaks(leg) ==
  /\ fault = "none" /\ end[leg] = "open" /\ (leg = "client" \/ relay \notin {"idle", "returned"})
  /\ main \notin {"idle", "returned"}
  /\ end' = [end EXCEPT ![leg] = "failed"]
  /\ down' = [down EXCEPT ![leg] = <<>>] /\ fault' = leg
  /\ UNCHANGED <<up, agentVars>> /\ sameRelay

(* Not dutctl, but other clients may close their direction when they have no *)
(* more input.                                                              *)
clientCloses ==
  /\ viaServer /\ snd = "ended" /\ Running /\ fault = "none"
  /\ fault' = "closed"
  /\ UNCHANGED <<streamVars, agentVars>> /\ sameRelay

-----------------------------------------------------------------------------

RelayInit ==
  /\ ClientInit
  /\ viaServer \in BOOLEAN
  /\ relay = "idle" /\ fwdDown = "none" /\ fwdUp = "none"
  /\ relayCancelled = FALSE /\ relayErr = <<>> /\ agentVersion = "unknown"
  /\ agentSent = <<>> /\ agent = "idle" /\ fault = "none"

Client == (ClientMain \/ ReceiveRoutine \/ SendRoutine \/ signal)
          /\ UNCHANGED <<relayVars, agentVars, viaServer, fault>>
ForwardDown == downForwards \/ downRefuses \/ downSendFails \/ downEnds \/ downFails
ForwardUp == upForwards \/ upSendFails \/ upEnds \/ upFails
Relay == relayRoutes \/ relayRejects \/ selectRelay \/ ForwardDown \/ ForwardUp
Environment ==
  \/ agentReceives \/ clientCloses
  \/ \E m \in Responses : agentSends(m)
  \/ \E status \in {"ok", "failed", "canceled"} : agentEnds(status)
  \/ \E leg \in Legs : connectionBreaks(leg)

(* dutctl has returned; what is left of the stream has nobody to wait for.  *)
Over == ~Running /\ UNCHANGED vars

RelayNext == Client \/ Relay \/ Environment \/ Over
RelaySpec == RelayInit /\ [][RelayNext]_vars

(* The Go scheduler runs every goroutine that can go on.  Users and agents   *)
(* owe nothing, nor does the send routine, which may wait on stdin for ever. *)
RelayFairness ==
  /\ WF_vars(Client /\ ClientMain) /\ WF_vars(Client /\ ReceiveRoutine)
  /\ WF_vars(relayRoutes \/ relayRejects \/ selectRelay)
  /\ WF_vars(ForwardDown) /\ WF_vars(ForwardUp)

RelayFairSpec == RelaySpec /\ RelayFairness

-----------------------------------------------------------------------------
(* Properties. *)

(* Types of the stream, of both ends and of the relay; neither error channel *)
(* ever holds more than the one error per goroutine it has room for.        *)
RelayTypeOK ==
  /\ ClientTypeOK
  /\ viaServer \in BOOLEAN /\ relayCancelled \in BOOLEAN
  /\ relay \in {"idle", "starting", "parked", "returned"}
  /\ fwdDown \in {"none", "forward", "ended"} /\ fwdUp \in {"none", "forward", "ended"}
  /\ relayErr \in Seq({"failed", "canceled"}) /\ Len(relayErr) <= 2
  /\ agentVersion \in {"unknown", "relayed"}
  /\ fault \in Legs \cup {"none", "request", "closed"}
  /\ agentSent \in Seq(Responses) /\ agent \in {"idle", "running", "awaiting"}

(* When runRPC returns nil the agent has ended the run successfully and      *)
(* every response it sent was shown, in order, over the relay too: neither   *)
(* the end of stdin nor the order in which goroutines finish cuts a run      *)
(* short.  Excepted are a select that found both its cases ready, which      *)
(* needs an error before runRPC or the relay reached it, and a client of the *)
(* relay that closed its direction.                                         *)
OkMeansDone ==
  result = "ok" /\ ~raced /\ fault # "closed" => end[AgentLeg] = "ok" /\ shown = agentSent

(* A run the agent ended successfully is reported as failed only if a local  *)
(* file or stdin failed, a connection broke, the relay turned the request or *)
(* the agent's version down, or the user interrupted it or was typing.      *)
FailureExplained ==
  result \in {"receive", "send"} /\ end[AgentLeg] = "ok" =>
    fault # "none" \/ signalled \/ typed > 0

(* What dutctl run reports is what happened: success only for a run that    *)
(* succeeded and was shown whole, failure only with a reason.               *)
RelayInv == RelayTypeOK /\ OkMeansDone /\ FailureExplained

(* runRPC returns once the agent has ended the run or the user interrupts    *)
(* it, whatever its routines and the relay's are blocked on.                *)
ClientReturns ==
  (main # "idle" /\ (signalled \/ end["client"] # "open" \/ end[AgentLeg] # "open")) ~> main = "returned"

(* The agent is never left running for a client that is gone: its stream is  *)
(* reset, through the relay too, unless it has ended already.               *)
AgentLearns ==
  (main = "returned" /\ agent # "idle") ~> (Gone(AgentLeg) \/ end[AgentLeg] # "open")

(* Neither forwarding goroutine outlives its request for ever.              *)
ForwardersEnd ==
  (relay = "returned") ~> (fwdDown \in {"none", "ended"} /\ fwdUp \in {"none", "ended"})

(* Whoever ends first, the client, the relay or the agent, the others learn *)
(* of it and stop.                                                          *)
EveryoneLearns == ClientReturns /\ AgentLearns /\ ForwardersEnd
==============================================================================
