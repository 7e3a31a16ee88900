----------------------------- MODULE RelayProofs -----------------------------
(***************************************************************************)
(* Proofs about a Run of dutctl, directly or over dutserver, for any number *)
(* of responses and typed lines.                                            *)
(***************************************************************************)
EXTENDS Relay, SequenceTheorems, TLAPS

(* Each routine posts one error at most, when it leaves.                     *)
One(b) == IF b THEN 1 ELSE 0
RoomOK ==
  /\ Len(errChan) <= One(rcv = "ended") + One(snd = "ended")
  /\ Len(relayErr) <= One(fwdDown = "ended") + One(fwdUp = "ended")

(* Where runRPC and its routines can be.  Only a signal cancels the run      *)
(* before the receive routine has left.                                      *)
ClientPlaces ==
  /\ main = "idle" => rcv = "none" /\ snd = "none" /\ ~signalled /\ errChan = <<>>
  /\ main = "parked" => ~runCancelled /\ errChan = <<>>
  /\ main = "done" => runCancelled
  /\ main = "returned" => rcv = "ended"
  /\ result # "none" => main = "returned"
  /\ rcv = "ended" => runCancelled
  /\ runCancelled => rcv = "ended" \/ signalled
  /\ snd = "sending" => typed > 0

(* Where the relay can be, and what it has done to the client's leg.         *)
RelayPlaces ==
  /\ relay = "idle" => fwdDown = "none" /\ fwdUp = "none" /\ ~relayCancelled /\ relayErr = <<>>
  /\ relay = "parked" => ~relayCancelled /\ relayErr = <<>>
  /\ relay = "returned" => viaServer /\ end["client"] # "open"
  /\ viaServer /\ relay # "returned" => end["client"] \in {"open", "failed"}
  /\ ~viaServer => /\ relay = "idle" /\ end["agent"] = "open"
                   /\ up["agent"] = <<>> /\ down["agent"] = <<>>
  /\ fault \in Legs => end[fault] = "failed"

(* The agent's stream ended well and its last response was forwarded.        *)
Forwarded == fwdDown = "ended" /\ end["agent"] = "ok" /\ down["agent"] = <<>>

(* Nobody is told of a cancellation that did not happen.                     *)
CancelsOK ==
  /\ relay = "starting" /\ relayCancelled /\ relayErr = <<>> => fault = "closed" \/ Forwarded
  /\ viaServer /\ end["agent"] = "canceled" => relayCancelled
  /\ relay = "starting" /\ relayErr # <<>> /\ Head(relayErr) = "canceled" =>
       runCancelled \/ fault = "closed" \/ end["client"] # "open"
  /\ end["client"] = "canceled" => runCancelled \/ fault = "closed"

-----------------------------------------------------------------------------
(* Nothing is lost on the way to the user. *)

Excused == signalled \/ raced \/ fault = "closed"
Cat(a, b) == a \o b
Unit(x) == <<x>>
hand == IF rcv = "sending" THEN Unit("fileRequest") ELSE <<>>
Flow(a, h, b, c) == Cat(Cat(Cat(a, h), b), c)
Done == end[AgentLeg] = "ok" /\ shown = agentSent

(* While the receive routine goes on, what the agent has sent has been shown *)
(* or is on its way; once the relay has ended the client's stream well, on   *)
(* the last part of it.                                                      *)
FlowOK ==
  rcv # "ended" /\ ~Excused =>
    /\ fault \notin Legs /\ relay # "returned" =>
         agentSent = Flow(shown, hand, down["client"], down["agent"])
    /\ viaServer /\ end["client"] = "ok" =>
         end["agent"] = "ok" /\ agentSent = Flow(shown, hand, down["client"], <<>>)

(* When the receive routine has left without an error, everything was shown. *)
DoneOK ==
  /\ rcv = "ended" /\ main # "returned" => errChan # <<>> \/ Excused \/ Done
  /\ main = "done" => Excused \/ Done
  /\ result = "ok" => raced \/ fault = "closed" \/ Done

-----------------------------------------------------------------------------
(* The command and the file. *)

Has(s, x) == \E i \in DOMAIN s : s[i] = x
Once(s, x) == \A i, j \in DOMAIN s : s[i] = x /\ s[j] = x => i = j

(* The command is in one place: not sent, on one of the legs, or received.   *)
CommandOK ==
  /\ main = "idle" => /\ agent = "idle" /\ relay = "idle" /\ fault = "none"
                      /\ up["client"] = <<>> /\ up["agent"] = <<>>
  /\ Has(up["client"], "command") =>
       agent = "idle" /\ relay \in {"idle", "returned"} /\ ~Has(up["agent"], "command")
  /\ Has(up["agent"], "command") => agent = "idle" /\ relay # "idle"
  /\ \A l \in Legs : Once(up[l], "command")

(* The file that the agent awaits is in one place: requested on one of the   *)
(* legs, in the hands of the receive routine, or on its way back.            *)
FileOK ==
  /\ Has(down["agent"], "fileRequest") \/ Has(down["client"], "fileRequest") \/ rcv = "sending"
       \/ Has(up["client"], "file") \/ Has(up["agent"], "file") => agent = "awaiting"
  /\ Has(down["agent"], "fileRequest") =>
       /\ ~Has(down["client"], "fileRequest") /\ rcv # "sending"
       /\ ~Has(up["client"], "file") /\ ~Has(up["agent"], "file")
  /\ Has(down["client"], "fileRequest") =>
       rcv # "sending" /\ ~Has(up["client"], "file") /\ ~Has(up["agent"], "file")
  /\ rcv = "sending" => ~Has(up["client"], "file") /\ ~Has(up["agent"], "file")
  /\ Has(up["client"], "file") => ~Has(up["agent"], "file")
  /\ \A l \in Legs : Once(down[l], "fileRequest") /\ Once(up[l], "file")
  /\ end[AgentLeg] = "ok" => agent = "running"

-----------------------------------------------------------------------------
(* Failures have a reason. *)

Calm == fault = "none" /\ ~signalled /\ typed = 0
Bad == {"failed", "canceled"}

(* The command was never sent.                                               *)
NeverStarted ==
  agent = "idle" /\ main = "returned" /\ up["client"] = <<>> /\ up["agent"] = <<>>

(* In an undisturbed run errors come from the agent.                         *)
ReasonOK ==
  Calm =>
    /\ \A l \in Legs : ~Has(up[l], "stdin") /\ ~Has(up[l], "garbled")
    /\ viaServer /\ ~runCancelled =>
         /\ end["client"] # "open" => end["agent"] # "open"
         /\ end["client"] \in Bad => end["agent"] \in Bad
         /\ relay = "starting" /\ relayErr # <<>> => end["agent"] \in Bad
    /\ result \in {"receive", "send"} \/ Has(errChan, "receive") \/ Has(errChan, "send") =>
         end[AgentLeg] \in Bad \/ NeverStarted

(* The inductive invariant.                                                  *)
RelayIInv ==
  /\ RelayTypeOK /\ RoomOK /\ ClientPlaces /\ RelayPlaces /\ CancelsOK
  /\ FlowOK /\ DoneOK
  /\ CommandOK /\ FileOK /\ ReasonOK

-----------------------------------------------------------------------------
(* Types and places of the client. *)

Errors == {"receive", "file", "send", "stdin"}

(* The part of the types that the client's variables have.                   *)
RunTyped ==
  /\ main \in {"idle", "starting", "parked", "done", "returned"}
  /\ rcv \in {"none", "receive", "sending", "ended"}
  /\ snd \in {"none", "read", "sending", "ended"}
  /\ runCancelled \in BOOLEAN /\ signalled \in BOOLEAN /\ raced \in BOOLEAN
  /\ errChan \in Seq(Errors) /\ Len(errChan) <= One(rcv = "ended") + One(snd = "ended")
  /\ result \in {"none", "ok", "interrupted"} \cup Errors
  /\ typed \in 0..MaxStdin
  /\ ClientPlaces

(* The part that the legs and what was shown have.                           *)
LegsTyped ==
  /\ up \in [Legs -> Seq(Requests)] /\ down \in [Legs -> Seq(Responses)]
  /\ end \in [Legs -> {"open", "ok", "canceled", "failed"}]
  /\ shown \in Seq(Responses)

(* A routine that posts its error leaves.                                    *)
LEMMA PostTyped ==
  ASSUME RunTyped, NEW who \in {"rcv", "snd"}, NEW e \in Errors, Post(who, e), UNCHANGED typed,
         Running, main # "idle",
         who = "rcv" => rcv \in {"receive", "sending"}, who = "snd" => snd \in {"read", "sending"}
  PROVE  RunTyped'
<1> USE DEF RunTyped, ClientPlaces, Post, Return, One, Errors, Running
<1>1. CASE main = "parked"
  BY <1>1
<1>2. CASE main # "parked" /\ who = "rcv"
  BY <1>2
<1>3. CASE main # "parked" /\ who = "snd"
  BY <1>3
<1> QED
  BY <1>1, <1>2, <1>3

(* Every step of the client keeps its variables in order.                    *)
LEMMA ClientRunTyped ==
  ASSUME RunTyped, Client
  PROVE  RunTyped'
<1> USE DEF RunTyped, ClientPlaces, One, Errors, Running
<1>1. CASE runRPC
  <2>1. CASE main' = "starting" /\ rcv' = "receive" /\ snd' = "read"
               /\ UNCHANGED <<result, runCancelled, errChan>>
    BY <1>1, <2>1 DEF runRPC
  <2>2. CASE Return("send")
    BY <1>1, <2>2 DEF runRPC, Return
  <2> QED
    BY <1>1, <2>1, <2>2 DEF runRPC
<1>2. CASE selectDone
  <2>1. raced' \in BOOLEAN
    BY <1>2, Zenon DEF selectDone
  <2> QED
    BY <1>2, <2>1 DEF selectDone
<1>3. CASE selectError
  BY <1>3 DEF selectError, Return
<1>4. CASE selectParks
  BY <1>4 DEF selectParks
<1>5. CASE runDone
  BY <1>5 DEF runDone, Return
<1>6. CASE signal
  BY <1>6 DEF signal, CancelRun
<1>7. CASE rcvShows \/ rcvFileRequest
  BY <1>7 DEF rcvShows, rcvFileRequest, Receives, runVars
<1>8. CASE rcvFileFails
  BY <1>8, PostTyped DEF rcvFileFails, Receives
<1>9. CASE rcvSendsFile
  BY <1>9 DEF rcvSendsFile, runVars
<1>10. CASE rcvSendFails
  BY <1>10, PostTyped DEF rcvSendFails
<1>11. CASE rcvEnds
  BY <1>11 DEF rcvEnds, CancelRun
<1>12. CASE rcvFails
  BY <1>12, PostTyped DEF rcvFails
<1>13. CASE sndReads
  BY <1>13, MaxStdinAssumption DEF sndReads, runVars
<1>14. CASE sndEnds
  BY <1>14 DEF sndEnds, runVars
<1>15. CASE sndReadFails
  BY <1>15, PostTyped DEF sndReadFails
<1>16. CASE sndSends
  BY <1>16 DEF sndSends, runVars
<1>17. CASE sndFails
  BY <1>17, PostTyped DEF sndFails
<1> QED
  BY <1>1, <1>2, <1>3, <1>4, <1>5, <1>6, <1>7, <1>8, <1>9, <1>10, <1>11, <1>12, <1>13, <1>14,
     <1>15, <1>16, <1>17
  DEF Client, ClientMain, ReceiveRoutine, SendRoutine

(* A message that is put on a leg, or lost, leaves the legs typed.           *)
LEMMA PutTyped ==
  ASSUME LegsTyped, NEW l \in Legs, NEW msg \in Requests, Put(l, msg)
  PROVE  up' \in [Legs -> Seq(Requests)]
BY DEF LegsTyped, Put

(* What is taken from a queue is one of its messages, as are the others.     *)
LEMMA TakeTyped ==
  ASSUME NEW S, NEW s \in Seq(S), s # <<>>
  PROVE  Head(s) \in S /\ Tail(s) \in Seq(S)
OBVIOUS

(* A queue takes messages of its kind.                                       *)
LEMMA AppendTyped ==
  ASSUME NEW S, NEW s \in Seq(S), NEW x \in S
  PROVE  Append(s, x) \in Seq(S)
OBVIOUS

(* Every step of the client keeps the legs typed.                            *)
LEMMA ClientLegsTyped ==
  ASSUME LegsTyped, Client
  PROVE  LegsTyped'
<1> USE DEF LegsTyped, streamVars, Legs, Requests, Responses
<1>1. CASE UNCHANGED <<streamVars, shown>>
  BY <1>1
<1>2. CASE runRPC
  BY <1>2, PutTyped DEF runRPC
<1>3. CASE rcvShows \/ rcvFileRequest \/ rcvFileFails
  <2>1. down["client"] # <<>> /\ Take /\ UNCHANGED <<up, end>>
    BY <1>3 DEF rcvShows, rcvFileRequest, rcvFileFails, Receives
  <2>2. down["client"] \in Seq(Responses)
    OBVIOUS
  <2>3. Head(down["client"]) \in Responses /\ Tail(down["client"]) \in Seq(Responses)
    BY <2>1, <2>2, TakeTyped
  <2>4. down' \in [Legs -> Seq(Responses)]
    BY <2>1, <2>3 DEF Take
  <2>5. shown' = shown \/ shown' = Append(shown, Head(down["client"]))
    BY <1>3 DEF rcvShows, rcvFileRequest, rcvFileFails
  <2>6. shown' \in Seq(Responses)
    BY <2>3, <2>5, AppendTyped
  <2> QED
    BY <2>1, <2>4, <2>6
<1>4. CASE rcvSendsFile
  BY <1>4, PutTyped DEF rcvSendsFile, Sent
<1>5. CASE sndSends
  BY <1>5, PutTyped DEF sndSends, Sent
<1> QED
  BY <1>1, <1>2, <1>3, <1>4, <1>5
  DEF Client, ClientMain, ReceiveRoutine, SendRoutine, selectDone, selectError, selectParks, runDone,
      signal, rcvSendFails, rcvEnds, rcvFails, sndReads, sndEnds, sndReadFails, sndFails

-----------------------------------------------------------------------------
(* Types and places of the relay and the agent. *)

RelayTyped ==
  /\ viaServer \in BOOLEAN /\ relayCancelled \in BOOLEAN
  /\ relay \in {"idle", "starting", "parked", "returned"}
  /\ fwdDown \in {"none", "forward", "ended"} /\ fwdUp \in {"none", "forward", "ended"}
  /\ relayErr \in Seq(Bad) /\ Len(relayErr) <= One(fwdDown = "ended") + One(fwdUp = "ended")
  /\ agentVersion \in {"unknown", "relayed"}
  /\ fault \in Legs \cup {"none", "request", "closed"}
  /\ agentSent \in Seq(Responses) /\ agent \in {"idle", "running", "awaiting"}
  /\ RelayPlaces

(* A forwarding goroutine ends.                                              *)
ForwarderEnds ==
  \/ fwdDown = "forward" /\ fwdDown' = "ended" /\ fwdUp' = fwdUp
  \/ fwdUp = "forward" /\ fwdUp' = "ended" /\ fwdDown' = fwdDown

(* What a forwarding goroutine does to the handler when it ends.             *)
LEMMA ForwarderEndTyped ==
  ASSUME RelayTyped, LegsTyped, NEW status \in Bad, PostRelay(status) \/ CancelRelay, ForwarderEnds,
         UNCHANGED <<viaServer, agentVersion, agentSent, agent>>,
         fault' = fault \/ fault' = "request"
  PROVE  RelayTyped' /\ end' \in [Legs -> {"open", "ok", "canceled", "failed"}] /\ end'["agent"] = end["agent"]
<1>1. relay # "idle" /\ viaServer /\ viaServer'
  BY DEF RelayTyped, RelayPlaces, ForwarderEnds
<1>2. end' \in [Legs -> {"open", "ok", "canceled", "failed"}] /\ end'["agent"] = end["agent"]
  BY DEF PostRelay, CancelRelay, Finish, LegsTyped, Legs, Bad
<1>3. CASE relay = "parked"
  <2>1. relay' = "returned" /\ relayCancelled' = TRUE /\ relayErr' = relayErr /\ relayErr = <<>>
    BY <1>3 DEF PostRelay, CancelRelay, Finish, RelayTyped, RelayPlaces
  <2>2. end'["client"] # "open" /\ (end["client"] # "open" => end'["client"] = end["client"])
    BY <1>3 DEF PostRelay, CancelRelay, Finish, LegsTyped, Legs, Bad
  <2>3. Len(relayErr') = 0
    BY <2>1
  <2> QED
    BY <1>1, <1>2, <2>1, <2>2, <2>3 DEF RelayTyped, RelayPlaces, ForwarderEnds, One, Legs
<1>4. CASE relay # "parked"
  <2>1. UNCHANGED <<relay, end>> /\ relayCancelled' = TRUE
    BY <1>4 DEF PostRelay, CancelRelay
  <2>2. relayErr' = relayErr \/ relayErr' = Append(relayErr, status)
    BY <1>4 DEF PostRelay, CancelRelay
  <2>3. relayErr' \in Seq(Bad) /\ Len(relayErr') <= Len(relayErr) + 1
    BY <2>2 DEF RelayTyped
  <2>4. Len(relayErr') <= One(fwdDown' = "ended") + One(fwdUp' = "ended")
    BY <2>2, <2>3 DEF RelayTyped, One, ForwarderEnds
  <2>5. relay \in {"starting", "returned"}
    BY <1>1, <1>4 DEF RelayTyped
  <2> QED
    BY <1>1, <1>2, <2>1, <2>3, <2>4, <2>5 DEF RelayTyped, RelayPlaces, ForwarderEnds, Legs
<1> QED
  BY <1>2, <1>3, <1>4

(* The steps of the relay that end a forwarding goroutine.                   *)
LEMMA RelayEndsTyped ==
  ASSUME RelayTyped, LegsTyped,
         downRefuses \/ downSendFails \/ downEnds \/ downFails \/ upSendFails \/ upEnds \/ upFails
  PROVE  /\ RelayTyped' /\ end' \in [Legs -> {"open", "ok", "canceled", "failed"}]
         /\ end'["agent"] = end["agent"]
<1> USE DEF ForwarderEnds, forwardSame, agentVars, Bad
<1>1. CASE downRefuses
  BY <1>1, ForwarderEndTyped DEF downRefuses
<1>2. CASE downSendFails
  BY <1>2, ForwarderEndTyped DEF downSendFails
<1>3. CASE downEnds
  BY <1>3, ForwarderEndTyped DEF downEnds
<1>4. CASE downFails
  BY <1>4, ForwarderEndTyped DEF downFails
<1>5. CASE upSendFails
  BY <1>5, ForwarderEndTyped DEF upSendFails
<1>6. CASE upEnds
  BY <1>6, ForwarderEndTyped DEF upEnds
<1>7. CASE upFails
  BY <1>7, ForwarderEndTyped DEF upFails
<1> QED
  BY <1>1, <1>2, <1>3, <1>4, <1>5, <1>6, <1>7

(* The steps of the relay keep everything typed.                             *)
LEMMA RelayStepTyped ==
  ASSUME RelayTyped, LegsTyped, Relay
  PROVE  RelayTyped' /\ end' \in [Legs -> {"open", "ok", "canceled", "failed"}]
<1>1. CASE relayRoutes
  <2>1. relayErr = <<>> /\ Len(relayErr) = 0
    BY <1>1 DEF relayRoutes, RelayTyped, RelayPlaces
  <2> QED
    BY <1>1, <2>1 DEF relayRoutes, RelayTyped, RelayPlaces, LegsTyped, agentVars, One
<1>2. CASE relayRejects
  <2>1. end' \in [Legs -> {"open", "ok", "canceled", "failed"}] /\ end'["client"] # "open"
        /\ end'["agent"] = end["agent"] /\ (end["client"] # "open" => end'["client"] = end["client"])
    BY <1>2 DEF relayRejects, Finish, LegsTyped, Legs
  <2>2. fault' = fault \/ fault' = "request"
    BY <1>2 DEF relayRejects
  <2> QED
    BY <1>2, <2>1, <2>2 DEF relayRejects, Finish, RelayTyped, RelayPlaces, agentVars, Legs
<1>3. CASE selectRelay
  <2>0. viaServer /\ viaServer' /\ relay # "idle"
    BY <1>3 DEF selectRelay, RelayTyped, RelayPlaces
  <2>1. CASE relay' = "parked"
    BY <1>3, <2>0, <2>1 DEF selectRelay, Finish, RelayTyped, RelayPlaces, agentVars, LegsTyped
  <2>2. CASE relay' = "returned"
    <3>1. PICK st \in Bad \cup {"ok"} : Finish(st)
      BY <1>3, <2>2, TakeTyped DEF selectRelay, RelayTyped
    <3>2. relayErr' = relayErr \/ (relayErr # <<>> /\ relayErr' = Tail(relayErr))
      BY <1>3, <2>2 DEF selectRelay
    <3>3. relayErr' \in Seq(Bad) /\ Len(relayErr') <= Len(relayErr)
      BY <3>2 DEF RelayTyped
    <3>4. end' \in [Legs -> {"open", "ok", "canceled", "failed"}] /\ end'["client"] # "open"
          /\ end'["agent"] = end["agent"] /\ (end["client"] # "open" => end'["client"] = end["client"])
      BY <3>1 DEF Finish, LegsTyped, Legs, Bad
    <3>5. UNCHANGED <<fwdDown, fwdUp, agentVersion, agentSent, agent, fault>>
      BY <1>3 DEF selectRelay, agentVars
    <3>6. Len(relayErr') <= One(fwdDown' = "ended") + One(fwdUp' = "ended")
      BY <3>2, <3>3, <3>5 DEF RelayTyped, One
    <3> QED
      BY <2>0, <2>2, <3>1, <3>3, <3>4, <3>5, <3>6 DEF Finish, RelayTyped, RelayPlaces, Legs
  <2> QED
    BY <1>3, <2>1, <2>2 DEF selectRelay, Finish
<1>4. CASE downForwards \/ upForwards
  <2>1. fwdDown # "none" \/ fwdUp # "none"
    BY <1>4 DEF downForwards, upForwards
  <2>2. viaServer
    BY <2>1 DEF RelayTyped, RelayPlaces
  <2>3. UNCHANGED <<end, relay, fwdDown, fwdUp, relayCancelled, relayErr, fault, viaServer, agentSent, agent>>
        /\ agentVersion' \in {"unknown", "relayed"}
    BY <1>4 DEF downForwards, upForwards, RelayTyped, forwardSame, agentVars
  <2> QED
    BY <2>2, <2>3 DEF RelayTyped, RelayPlaces, LegsTyped
<1> QED
  BY <1>1, <1>2, <1>3, <1>4, RelayEndsTyped DEF Relay, ForwardDown, ForwardUp

(* The relay moves messages from one leg to the other, or drops them.        *)
LEMMA RelayLegsTyped ==
  ASSUME RelayTyped, LegsTyped, Relay
  PROVE  LegsTyped'
<1>1. end' \in [Legs -> {"open", "ok", "canceled", "failed"}]
  BY RelayStepTyped
<1>2. shown' = shown
  BY DEF Relay, ForwardDown, ForwardUp, relayRoutes, relayRejects, selectRelay, downForwards, downRefuses,
         downSendFails, downEnds, downFails, upForwards, upSendFails, upEnds, upFails, forwardSame, clientVars
<1>3. up["client"] \in Seq(Requests) /\ down["agent"] \in Seq(Responses)
  BY DEF LegsTyped, Legs
<1>4. up["client"] # <<>> => Head(up["client"]) \in Requests /\ Tail(up["client"]) \in Seq(Requests)
  BY <1>3, TakeTyped
<1>5. down["agent"] # <<>> => Head(down["agent"]) \in Responses /\ Tail(down["agent"]) \in Seq(Responses)
  BY <1>3, TakeTyped
<1>6. up["agent"] \in Seq(Requests) /\ down["client"] \in Seq(Responses)
  BY DEF LegsTyped, Legs
<1>7. "command" \in Requests
  BY DEF Requests
<1>8. Append(up["agent"], "command") \in Seq(Requests)
  BY <1>6, <1>7, AppendTyped
<1>9. up["client"] # <<>> => Append(up["agent"], Head(up["client"])) \in Seq(Requests)
  BY <1>4, <1>6, AppendTyped
<1>10. down["agent"] # <<>> => Append(down["client"], Head(down["agent"])) \in Seq(Responses)
  BY <1>5, <1>6, AppendTyped
<1>11. CASE UNCHANGED <<up, down>>
  BY <1>1, <1>2, <1>11 DEF LegsTyped
<1>12. CASE relayRoutes
  BY <1>1, <1>2, <1>4, <1>8, <1>12 DEF LegsTyped, relayRoutes, Legs
<1>13. CASE downForwards
  BY <1>1, <1>2, <1>5, <1>10, <1>13 DEF LegsTyped, downForwards, Legs
<1>14. CASE downSendFails
  BY <1>1, <1>2, <1>5, <1>14 DEF LegsTyped, downSendFails, Legs
<1>15. CASE upForwards
  BY <1>1, <1>2, <1>4, <1>9, <1>15 DEF LegsTyped, upForwards, Legs
<1>16. CASE upSendFails
  BY <1>1, <1>2, <1>4, <1>16 DEF LegsTyped, upSendFails, Legs
<1> QED
  BY <1>11, <1>12, <1>13, <1>14, <1>15, <1>16
  DEF Relay, ForwardDown, ForwardUp, relayRejects, selectRelay, downRefuses, downEnds, downFails, upEnds, upFails

(* Of the client's variables the relay moves raced, and only when it is      *)
(* settled.                                                                  *)
LEMMA RelayRunTyped ==
  ASSUME RunTyped, Relay
  PROVE  RunTyped' /\ (relay # "starting" => raced' = raced)
<1>1. UNCHANGED <<main, rcv, snd, runCancelled, signalled, errChan, result, typed>>
  BY DEF Relay, ForwardDown, ForwardUp, relayRoutes, relayRejects, selectRelay, downForwards, downRefuses,
         downSendFails, downEnds, downFails, upForwards, upSendFails, upEnds, upFails, forwardSame, clientVars,
         runVars
<1>2. raced' = raced \/ (selectRelay /\ raced' = (raced \/ relayErr # <<>>))
  BY DEF Relay, ForwardDown, ForwardUp, relayRoutes, relayRejects, selectRelay, downForwards, downRefuses,
         downSendFails, downEnds, downFails, upForwards, upSendFails, upEnds, upFails, forwardSame, clientVars,
         runVars
<1>3. raced' \in BOOLEAN
  BY <1>2, Zenon DEF RunTyped
<1> QED
  BY <1>1, <1>2, <1>3 DEF RunTyped, ClientPlaces, selectRelay

(* What the agent, the network and other clients do is typed too.            *)
LEMMA EnvironmentTyped ==
  ASSUME RunTyped, RelayTyped, LegsTyped, Environment
  PROVE  RunTyped' /\ RelayTyped' /\ LegsTyped'
<1> USE DEF sameRelay, relayVars, clientVars, runVars
<1>0. UNCHANGED <<main, rcv, snd, runCancelled, signalled, errChan, result, typed, raced, shown,
                  viaServer, relay, fwdDown, fwdUp, relayCancelled, relayErr, agentVersion>>
  BY DEF Environment, agentReceives, clientCloses, agentSends, agentEnds, connectionBreaks
<1>1. RunTyped'
  BY <1>0 DEF RunTyped, ClientPlaces
<1>2. AgentLeg \in Legs
  BY DEF AgentLeg, Legs
<1>3. CASE agentReceives
  <2>1. up[AgentLeg] \in Seq(Requests) /\ up[AgentLeg] # <<>> /\ end[AgentLeg] = "open"
    BY <1>2, <1>3 DEF LegsTyped, agentReceives
  <2>2. Tail(up[AgentLeg]) \in Seq(Requests)
    BY <2>1, TakeTyped
  <2>3. up' \in [Legs -> Seq(Requests)] /\ end' \in [Legs -> {"open", "ok", "canceled", "failed"}]
    BY <1>2, <1>3, <2>2 DEF LegsTyped, agentReceives
  <2>4. agent' \in {"idle", "running", "awaiting"} /\ UNCHANGED <<down, agentSent, fault>>
    BY <1>3 DEF agentReceives, RelayTyped
  <2>5. /\ \A l \in Legs : l # AgentLeg => end'[l] = end[l] /\ up'[l] = up[l]
        /\ end'[AgentLeg] \in {"open", "failed"}
    BY <1>2, <1>3, <2>1 DEF LegsTyped, agentReceives
  <2>6. RelayPlaces'
    BY <1>0, <2>1, <2>4, <2>5 DEF RelayTyped, RelayPlaces, AgentLeg, Legs
  <2> QED
    BY <1>0, <1>1, <2>3, <2>4, <2>6 DEF RelayTyped, LegsTyped
<1>4. CASE \E m \in Responses : agentSends(m)
  <2>1. PICK m \in Responses : agentSends(m)
    BY <1>4
  <2>2. down[AgentLeg] \in Seq(Responses) /\ agentSent \in Seq(Responses)
    BY <1>2 DEF LegsTyped, RelayTyped
  <2>3. Append(down[AgentLeg], m) \in Seq(Responses) /\ Append(agentSent, m) \in Seq(Responses)
    BY <2>2, AppendTyped
  <2>4. /\ down' \in [Legs -> Seq(Responses)] /\ agentSent' \in Seq(Responses) /\ UNCHANGED <<up, end, fault>>
        /\ agent' \in {"idle", "running", "awaiting"} /\ (~viaServer => down'["agent"] = down["agent"])
    BY <1>2, <2>1, <2>3 DEF LegsTyped, RelayTyped, agentSends, AgentLeg, Legs
  <2> QED
    BY <1>0, <1>1, <2>4 DEF RelayTyped, LegsTyped, RelayPlaces
<1>5. CASE \E status \in {"ok", "failed", "canceled"} : agentEnds(status)
  <2>1. PICK status \in {"ok", "failed", "canceled"} : agentEnds(status)
    BY <1>5
  <2>2. /\ end[AgentLeg] = "open" /\ end' \in [Legs -> {"open", "ok", "canceled", "failed"}]
        /\ \A l \in Legs : l # AgentLeg => end'[l] = end[l]
        /\ UNCHANGED <<up, down, agentSent, agent, fault>>
    BY <1>2, <2>1 DEF LegsTyped, agentEnds, agentVars
  <2>3. RelayPlaces'
    BY <1>0, <2>2 DEF RelayTyped, RelayPlaces, AgentLeg, Legs
  <2> QED
    BY <1>0, <1>1, <2>2, <2>3 DEF RelayTyped, LegsTyped
<1>6. CASE \E leg \in Legs : connectionBreaks(leg)
  <2>1. PICK leg \in Legs : connectionBreaks(leg)
    BY <1>6
  <2>2. /\ end[leg] = "open" /\ end' = [end EXCEPT ![leg] = "failed"]
        /\ down' = [down EXCEPT ![leg] = <<>>] /\ fault' = leg /\ UNCHANGED <<up, agentSent, agent>>
        /\ leg = "client" \/ relay \notin {"idle", "returned"}
    BY <2>1 DEF connectionBreaks, agentVars
  <2>3. down' \in [Legs -> Seq(Responses)] /\ end' \in [Legs -> {"open", "ok", "canceled", "failed"}]
    BY <2>2 DEF LegsTyped
  <2>4. end'[leg] = "failed" /\ \A l \in Legs : l # leg => end'[l] = end[l] /\ down'[l] = down[l]
    BY <2>2 DEF LegsTyped
  <2>5. RelayPlaces'
    BY <1>0, <2>2, <2>4 DEF RelayTyped, RelayPlaces, Legs
  <2> QED
    BY <1>0, <1>1, <2>2, <2>3, <2>5 DEF RelayTyped, LegsTyped
<1>7. CASE clientCloses
  BY <1>0, <1>1, <1>7 DEF clientCloses, RelayTyped, LegsTyped, RelayPlaces, streamVars, agentVars, Legs
<1> QED
  BY <1>3, <1>4, <1>5, <1>6, <1>7 DEF Environment

-----------------------------------------------------------------------------
(* What the steps of each side leave alone. *)

Typed == RunTyped /\ RelayTyped /\ LegsTyped

(* The client leaves the relay, the agent and the other leg alone.           *)
LEMMA ClientFrame ==
  ASSUME Typed, Client
  PROVE  /\ UNCHANGED <<relay, fwdDown, fwdUp, relayCancelled, relayErr, agentVersion, agentSent, agent,
                        viaServer, fault, end>>
         /\ up'["agent"] = up["agent"] /\ down'["agent"] = down["agent"]
         /\ (runCancelled => runCancelled') /\ (signalled => signalled') /\ (raced => raced')
         /\ typed' >= typed
<1>1. UNCHANGED <<relay, fwdDown, fwdUp, relayCancelled, relayErr, agentVersion, agentSent, agent,
                  viaServer, fault, end>>
  BY DEF Client, relayVars, agentVars, ClientMain, ReceiveRoutine, SendRoutine, selectDone, selectError,
         selectParks, runDone, signal, rcvSendFails, rcvEnds, rcvFails, sndReads, sndEnds,
         sndReadFails, sndFails, runRPC, rcvShows, rcvFileRequest, rcvFileFails, rcvSendsFile,
         sndSends, streamVars
<1>2. up'["agent"] = up["agent"] /\ down'["agent"] = down["agent"]
  BY DEF Client, ClientMain, ReceiveRoutine, SendRoutine, selectDone, selectError,
         selectParks, runDone, signal, rcvSendFails, rcvEnds, rcvFails, sndReads, sndEnds,
         sndReadFails, sndFails, runRPC, rcvShows, rcvFileRequest, rcvFileFails, rcvSendsFile,
         sndSends, streamVars, Typed, LegsTyped, Put, Sent, Take, Legs
<1>3. \/ UNCHANGED <<runCancelled, signalled>>
      \/ runCancelled' = TRUE /\ (signalled' = signalled \/ signalled' = TRUE)
  BY DEF Client, ClientMain, ReceiveRoutine, SendRoutine, selectDone, selectError,
         selectParks, runDone, signal, rcvSendFails, rcvEnds, rcvFails, sndReads, sndEnds,
         sndReadFails, sndFails, runRPC, rcvShows, rcvFileRequest, rcvFileFails, rcvSendsFile,
         sndSends, Post, Return, CancelRun, runVars
<1>4. raced' = raced \/ raced' = (raced \/ errChan # <<>>)
  BY DEF Client, ClientMain, ReceiveRoutine, SendRoutine, selectDone, selectError,
         selectParks, runDone, signal, rcvSendFails, rcvEnds, rcvFails, sndReads, sndEnds,
         sndReadFails, sndFails, runRPC, rcvShows, rcvFileRequest, rcvFileFails, rcvSendsFile,
         sndSends, Post, Return, CancelRun, runVars
<1>5. typed' = typed \/ typed' = typed + 1
  BY DEF Client, ClientMain, ReceiveRoutine, SendRoutine, selectDone, selectError,
         selectParks, runDone, signal, rcvSendFails, rcvEnds, rcvFails, sndReads, sndEnds,
         sndReadFails, sndFails, runRPC, rcvShows, rcvFileRequest, rcvFileFails, rcvSendsFile,
         sndSends
<1>6. typed' >= typed
  BY <1>5, MaxStdinAssumption DEF Typed, RunTyped
<1>7. raced => raced'
  BY <1>4, Zenon
<1> QED
  BY <1>1, <1>2, <1>3, <1>6, <1>7

(* The client's own steps move nothing the relay's places are about.         *)
LEMMA ClientRelayTyped ==
  ASSUME Typed, Client
  PROVE  RelayTyped'
BY ClientFrame DEF Typed, RelayTyped, RelayPlaces

(* The relay leaves the client's variables, the agent and the choice of the  *)
(* route alone, and no fault is forgotten.                                   *)
LEMMA RelayFrame ==
  ASSUME Relay
  PROVE  /\ UNCHANGED <<main, rcv, snd, runCancelled, signalled, errChan, result, typed, shown,
                        agentSent, agent, viaServer>>
         /\ (raced => raced')
         /\ fault' = fault \/ (fault = "none" /\ fault' = "request")
<1>1. UNCHANGED <<main, rcv, snd, runCancelled, signalled, errChan, result, typed, shown,
                  agentSent, agent, viaServer>>
  BY DEF Relay, ForwardDown, ForwardUp, relayRoutes, relayRejects, selectRelay, downForwards, downRefuses,
         downSendFails, downEnds, downFails, upForwards, upSendFails, upEnds, upFails, forwardSame, clientVars,
         runVars, agentVars
<1>2. raced' = raced \/ raced' = (raced \/ relayErr # <<>>)
  BY DEF Relay, ForwardDown, ForwardUp, relayRoutes, relayRejects, selectRelay, downForwards, downRefuses,
         downSendFails, downEnds, downFails, upForwards, upSendFails, upEnds, upFails, forwardSame, clientVars,
         runVars
<1>3. fault' = fault \/ (fault = "none" /\ fault' = "request")
  BY DEF Relay, ForwardDown, ForwardUp, relayRoutes, relayRejects, selectRelay, downForwards, downRefuses,
         downSendFails, downEnds, downFails, upForwards, upSendFails, upEnds, upFails
<1>4. raced => raced'
  BY <1>2, Zenon
<1> QED
  BY <1>1, <1>3, <1>4

(* The environment leaves both of them alone, and no fault is forgotten.     *)
LEMMA EnvironmentFrame ==
  ASSUME Environment
  PROVE  /\ UNCHANGED <<main, rcv, snd, runCancelled, signalled, errChan, result, typed, raced, shown,
                        viaServer, relay, fwdDown, fwdUp, relayCancelled, relayErr, agentVersion>>
         /\ fault' = fault \/ (fault = "none" /\ fault' # "none")
<1>1. UNCHANGED <<main, rcv, snd, runCancelled, signalled, errChan, result, typed, raced, shown,
                  viaServer, relay, fwdDown, fwdUp, relayCancelled, relayErr, agentVersion>>
  BY DEF Environment, agentReceives, clientCloses, agentSends, agentEnds, connectionBreaks, sameRelay,
         relayVars, clientVars, runVars
<1>2. fault' = fault \/ (fault = "none" /\ fault' # "none")
  BY DEF Environment, agentReceives, clientCloses, agentSends, agentEnds, connectionBreaks, Legs
<1> QED
  BY <1>1, <1>2

(* Nothing leaves its type.                                                  *)
LEMMA StepTyped ==
  ASSUME Typed, [RelayNext]_vars
  PROVE  Typed'
<1>1. CASE Client
  BY <1>1, ClientRunTyped, ClientLegsTyped, ClientRelayTyped DEF Typed
<1>2. CASE Relay
  BY <1>2, RelayRunTyped, RelayLegsTyped, RelayStepTyped DEF Typed
<1>3. CASE Environment
  BY <1>3, EnvironmentTyped DEF Typed
<1>4. CASE UNCHANGED vars
  BY <1>4 DEF Typed, RunTyped, RelayTyped, LegsTyped, ClientPlaces, RelayPlaces, vars, streamVars, clientVars,
              runVars, relayVars, agentVars
<1> QED
  BY <1>1, <1>2, <1>3, <1>4 DEF RelayNext, Over

-----------------------------------------------------------------------------
(* Cancellations. *)

(* The client's steps can only add to the reasons.                           *)
LEMMA ClientCancels ==
  ASSUME Typed, CancelsOK, Client
  PROVE  CancelsOK'
BY ClientFrame DEF CancelsOK, Forwarded

(* A forwarding goroutine that ends: what becomes of the handler.            *)
LEMMA PostEffect ==
  ASSUME Typed, NEW status \in Bad, PostRelay(status)
  PROVE  /\ relayCancelled' = TRUE /\ end'["agent"] = end["agent"]
         /\ relay = "parked" => /\ relay' = "returned" /\ relayErr' = relayErr
                                /\ end'["client"] = IF end["client"] = "open" THEN status ELSE end["client"]
         /\ relay # "parked" => relay' = relay /\ relayErr' = Append(relayErr, status) /\ end' = end
BY DEF PostRelay, Finish, Typed, LegsTyped, Legs, Bad

(* The same for one that only cancels.                                       *)
LEMMA CancelEffect ==
  ASSUME Typed, CancelRelay
  PROVE  /\ relayCancelled' = TRUE /\ end'["agent"] = end["agent"] /\ relayErr' = relayErr
         /\ relay = "parked" => /\ relay' = "returned"
                                /\ end'["client"] = IF end["client"] = "open" THEN "ok" ELSE end["client"]
         /\ relay # "parked" => relay' = relay /\ end' = end
BY DEF CancelRelay, Finish, Typed, LegsTyped, Legs

(* Appending keeps the head of a queue.                                      *)
LEMMA AppendHead ==
  ASSUME NEW S, NEW s \in Seq(S), NEW x \in S
  PROVE  Append(s, x) # <<>> /\ Head(Append(s, x)) = (IF s = <<>> THEN x ELSE Head(s))
<1>1. Append(s, x) \in Seq(S) /\ Len(Append(s, x)) = Len(s) + 1 /\ Len(s) \in Nat
  OBVIOUS
<1>2. Append(s, x) # <<>>
  BY <1>1
<1>3. Head(Append(s, x)) = Append(s, x)[1]
  BY <1>1
<1>4. CASE s = <<>>
  BY <1>2, <1>3, <1>4
<1>5. CASE s # <<>>
  <2>1. Append(s, x)[1] = s[1] /\ Head(s) = s[1]
    BY <1>5
  <2> QED
    BY <1>2, <1>3, <1>5, <2>1
<1> QED
  BY <1>4, <1>5

(* The relay tells of a cancellation only if there was one.                  *)
LEMMA RelayCancels ==
  ASSUME Typed, CancelsOK, Relay
  PROVE  CancelsOK'
<1> USE DEF CancelsOK, Forwarded
<1>0. /\ UNCHANGED <<runCancelled, viaServer>> /\ (fault' = fault \/ (fault = "none" /\ fault' = "request"))
      /\ relayErr \in Seq(Bad)
  BY RelayFrame DEF Typed, RelayTyped
<1>1. \A s \in Bad : Append(relayErr, s) # <<>> /\ Head(Append(relayErr, s)) = (IF relayErr = <<>> THEN s ELSE Head(relayErr))
  BY <1>0, AppendHead
<1>2. CASE relayRoutes
  BY <1>0, <1>2 DEF relayRoutes, Typed, RelayTyped, RelayPlaces
<1>3. CASE relayRejects
  BY <1>0, <1>3 DEF relayRejects, Finish, Typed, LegsTyped, Legs
<1>4. CASE selectRelay
  <2>1. end'["agent"] = end["agent"] /\ UNCHANGED <<down, fwdDown, fault>> /\ relay = "starting"
    BY <1>4 DEF selectRelay, Finish, Typed, LegsTyped, Legs
  <2>2. CASE relay' = "parked"
    BY <1>0, <1>4, <2>1, <2>2 DEF selectRelay, Finish
  <2>3. CASE Finish("ok")
    BY <1>0, <1>4, <2>1, <2>3 DEF selectRelay, Finish, Typed, LegsTyped, Legs
  <2>4. CASE relayErr # <<>> /\ Finish(Head(relayErr))
    BY <1>0, <1>4, <2>1, <2>4 DEF selectRelay, Finish, Typed, LegsTyped, Legs
  <2> QED
    BY <1>4, <2>2, <2>3, <2>4 DEF selectRelay
<1>5. CASE downForwards
  BY <1>0, <1>5 DEF downForwards
<1>6. CASE upForwards
  BY <1>0, <1>6 DEF upForwards
<1>7. CASE downRefuses
  <2>1. PostRelay("failed") /\ fwdDown = "forward" /\ "failed" \in Bad
    BY <1>7 DEF downRefuses, Bad
  <2> QED
    BY <1>0, <1>1, <2>1, PostEffect DEF Typed, RelayTyped, RelayPlaces
<1>8. CASE downSendFails
  <2>1. PostRelay("failed") /\ fwdDown = "forward" /\ "failed" \in Bad
    BY <1>8 DEF downSendFails, Bad
  <2> QED
    BY <1>0, <1>1, <2>1, PostEffect DEF Typed, RelayTyped, RelayPlaces
<1>9. CASE downEnds
  <2>1. CancelRelay /\ fwdDown' = "ended" /\ fwdDown = "forward" /\ UNCHANGED <<down, fault>>
        /\ (relayCancelled \/ (down["agent"] = <<>> /\ end["agent"] = "ok"))
    BY <1>9 DEF downEnds
  <2> QED
    BY <1>0, <2>1, CancelEffect DEF Typed, RelayTyped, RelayPlaces
<1>10. CASE downFails
  <2>1. PICK s \in Bad : /\ PostRelay(s) /\ fwdDown = "forward" /\ UNCHANGED fault
                         /\ (s = "canceled" => relayCancelled \/ end["agent"] = "canceled")
    BY <1>10 DEF downFails, Bad
  <2>2. s = "canceled" => relayCancelled
    BY <2>1 DEF Typed, RelayTyped, RelayPlaces
  <2> QED
    BY <1>0, <1>1, <2>1, <2>2, PostEffect DEF Typed, RelayTyped, RelayPlaces
<1>11. CASE upSendFails
  <2>1. PostRelay("failed") /\ "failed" \in Bad /\ UNCHANGED <<fwdDown, down>>
    BY <1>11 DEF upSendFails, Bad
  <2> QED
    BY <1>0, <1>1, <2>1, PostEffect DEF Typed, RelayTyped, RelayPlaces
<1>12. CASE upEnds
  <2>1. CancelRelay /\ UNCHANGED <<fwdDown, down, fault>> /\ (relayCancelled \/ fault = "closed")
    BY <1>12 DEF upEnds
  <2> QED
    BY <1>0, <2>1, CancelEffect DEF Typed, RelayTyped, RelayPlaces
<1>13. CASE upFails
  <2>1. PICK s \in Bad : PostRelay(s) /\ UNCHANGED <<fwdDown, down, fault>> /\ (s = "canceled" => Gone("client"))
    BY <1>13 DEF upFails, Bad
  <2>2. s = "canceled" => runCancelled \/ end["client"] = "failed"
    BY <2>1 DEF Gone, Typed, RelayTyped, RelayPlaces, Legs
  <2> QED
    BY <1>0, <1>1, <2>1, <2>2, PostEffect DEF Typed, RelayTyped, RelayPlaces
<1> QED
  BY <1>2, <1>3, <1>4, <1>5, <1>6, <1>7, <1>8, <1>9, <1>10, <1>11, <1>12, <1>13
  DEF Relay, ForwardDown, ForwardUp

(* An agent that ends with a cancellation has been cancelled.                *)
LEMMA EnvironmentCancels ==
  ASSUME Typed, CancelsOK, Environment
  PROVE  CancelsOK'
<1> USE DEF CancelsOK, Forwarded
<1>0. UNCHANGED <<runCancelled, viaServer, relay, relayCancelled, relayErr, fwdDown>>
      /\ (fault' = fault \/ (fault = "none" /\ fault' # "none"))
  BY EnvironmentFrame
<1>1. CASE agentReceives
  BY <1>0, <1>1 DEF agentReceives, Typed, LegsTyped, Legs, AgentLeg
<1>2. CASE \E m \in Responses : agentSends(m)
  BY <1>0, <1>2 DEF agentSends, Typed, LegsTyped, Legs, AgentLeg
<1>3. CASE \E status \in {"ok", "failed", "canceled"} : agentEnds(status)
  <2>1. PICK status \in {"ok", "failed", "canceled"} : agentEnds(status)
    BY <1>3
  <2>2. /\ end[AgentLeg] = "open" /\ end'[AgentLeg] = status /\ UNCHANGED <<down, fault>>
        /\ \A l \in Legs : l # AgentLeg => end'[l] = end[l]
        /\ status = "canceled" => Gone(AgentLeg)
    BY <2>1 DEF agentEnds, Typed, LegsTyped, Legs, AgentLeg
  <2>3. status = "canceled" => (IF viaServer THEN relayCancelled ELSE runCancelled)
    BY <2>2 DEF Gone, AgentLeg, Typed, RelayTyped, RelayPlaces, Legs
  <2> QED
    BY <1>0, <2>2, <2>3 DEF AgentLeg, Legs, Typed, RelayTyped, RelayPlaces
<1>4. CASE \E leg \in Legs : connectionBreaks(leg)
  BY <1>0, <1>4 DEF connectionBreaks, Typed, LegsTyped, Legs
<1>5. CASE clientCloses
  BY <1>0, <1>5 DEF clientCloses, streamVars
<1> QED
  BY <1>1, <1>2, <1>3, <1>4, <1>5 DEF Environment

-----------------------------------------------------------------------------
(* Moving responses along keeps their order. *)

(* What joining queues gives, whatever is in them.                           *)
LEMMA CatTyped ==
  ASSUME NEW S, NEW a \in Seq(S), NEW b \in Seq(S)
  PROVE  Cat(a, b) \in Seq(S)
BY DEF Cat

(* A queue of one.                                                           *)
LEMMA UnitTyped ==
  ASSUME NEW S, NEW x \in S
  PROVE  Unit(x) \in Seq(S)
BY DEF Unit

(* Joining nothing.                                                          *)
LEMMA CatEmpty ==
  ASSUME NEW S, NEW a \in Seq(S)
  PROVE  Cat(a, <<>>) = a
BY DEF Cat

(* The order of joining does not matter.                                     *)
LEMMA CatAssociative ==
  ASSUME NEW S, NEW a \in Seq(S), NEW b \in Seq(S), NEW c \in Seq(S)
  PROVE  Cat(Cat(a, b), c) = Cat(a, Cat(b, c))
BY DEF Cat

(* Appending is joining a queue of one.                                      *)
LEMMA AppendIsCat ==
  ASSUME NEW S, NEW a \in Seq(S), NEW x \in S
  PROVE  Append(a, x) = Cat(a, Unit(x))
BY DEF Cat, Unit

(* A queue is its head followed by its tail.                                 *)
LEMMA HeadThenTail ==
  ASSUME NEW S, NEW s \in Seq(S), s # <<>>
  PROVE  Cat(Unit(Head(s)), Tail(s)) = s
<1>1. Head(s) = s[1] /\ Head(s) \in S /\ Tail(s) \in Seq(S) /\ Len(Tail(s)) = Len(s) - 1 /\ Len(s) \in Nat \ {0}
      /\ \A i \in 1 .. Len(s) - 1 : Tail(s)[i] = s[i + 1]
  OBVIOUS
<1>2. <<Head(s)>> \in Seq(S) /\ Len(<<Head(s)>>) = 1 /\ <<Head(s)>>[1] = s[1]
  BY <1>1
<1>3. <<Head(s)>> \o Tail(s) \in Seq(S) /\ Len(<<Head(s)>> \o Tail(s)) = Len(s)
  BY <1>1, <1>2
<1>4. \A i \in 1 .. Len(s) : (<<Head(s)>> \o Tail(s))[i] = s[i]
  BY <1>1, <1>2
<1> QED
  BY <1>3, <1>4, SeqEqual DEF Cat, Unit

(* The head of a queue goes first.                                           *)
LEMMA TakeOne ==
  ASSUME NEW S, NEW a \in Seq(S), NEW b \in Seq(S), b # <<>>
  PROVE  Cat(Cat(a, Unit(Head(b))), Tail(b)) = Cat(a, b)
<1>0. \A p, q, r \in Seq(S) : Cat(Cat(p, q), r) = Cat(p, Cat(q, r))
  BY CatAssociative
<1>1. Head(b) \in S /\ Tail(b) \in Seq(S)
  BY TakeTyped
<1>2. Unit(Head(b)) \in Seq(S)
  BY <1>1, UnitTyped
<1>3. Cat(Cat(a, Unit(Head(b))), Tail(b)) = Cat(a, Cat(Unit(Head(b)), Tail(b)))
  BY <1>0, <1>1, <1>2, Zenon
<1>4. Cat(Unit(Head(b)), Tail(b)) = b
  BY HeadThenTail
<1> QED
  BY <1>3, <1>4

(* The first response on its way is shown.                                   *)
LEMMA FlowShow ==
  ASSUME NEW S, NEW a \in Seq(S), NEW b \in Seq(S), NEW c \in Seq(S), b # <<>>
  PROVE  Flow(Append(a, Head(b)), <<>>, Tail(b), c) = Flow(a, <<>>, b, c)
<1>1. Head(b) \in S
  BY TakeTyped
<1>2. Cat(Cat(a, Unit(Head(b))), Tail(b)) = Cat(a, b)
  BY TakeOne
<1>3. Append(a, Head(b)) = Cat(a, Unit(Head(b)))
  BY <1>1, AppendIsCat
<1>4. Cat(Append(a, Head(b)), <<>>) = Append(a, Head(b)) /\ Cat(a, <<>>) = a
  BY <1>1, AppendTyped, CatEmpty
<1> QED
  BY <1>2, <1>3, <1>4 DEF Flow

(* Or the receive routine has it in its hands,                               *)
LEMMA FlowHand ==
  ASSUME NEW S, NEW a \in Seq(S), NEW b \in Seq(S), NEW c \in Seq(S), b # <<>>
  PROVE  Flow(a, Unit(Head(b)), Tail(b), c) = Flow(a, <<>>, b, c)
<1>1. Cat(Cat(a, Unit(Head(b))), Tail(b)) = Cat(a, b)
  BY TakeOne
<1>2. Cat(a, <<>>) = a
  BY CatEmpty
<1> QED
  BY <1>1, <1>2 DEF Flow

(* and is done with it later.                                                *)
LEMMA FlowReply ==
  ASSUME NEW S, NEW a \in Seq(S), NEW b \in Seq(S), NEW c \in Seq(S), NEW x \in S
  PROVE  Flow(Append(a, x), <<>>, b, c) = Flow(a, Unit(x), b, c)
<1>1. Append(a, x) = Cat(a, Unit(x))
  BY AppendIsCat
<1>2. Cat(Append(a, x), <<>>) = Append(a, x)
  BY AppendTyped, CatEmpty
<1> QED
  BY <1>1, <1>2 DEF Flow

(* The relay forwards a response.                                            *)
LEMMA FlowForward ==
  ASSUME NEW S, NEW a \in Seq(S), NEW h \in Seq(S), NEW b \in Seq(S), NEW c \in Seq(S), c # <<>>
  PROVE  Flow(a, h, Append(b, Head(c)), Tail(c)) = Flow(a, h, b, c)
<1>1. Cat(a, h) \in Seq(S) /\ Cat(Cat(a, h), b) \in Seq(S)
  BY CatTyped
<1>2. Head(c) \in S
  BY TakeTyped
<1>3. Unit(Head(c)) \in Seq(S)
  BY <1>2, UnitTyped
<1>4. Append(b, Head(c)) = Cat(b, Unit(Head(c)))
  BY <1>2, AppendIsCat
<1>5. Cat(Cat(Cat(a, h), b), Unit(Head(c))) = Cat(Cat(a, h), Cat(b, Unit(Head(c))))
  BY <1>1, <1>3, CatAssociative
<1>6. Cat(Cat(Cat(Cat(a, h), b), Unit(Head(c))), Tail(c)) = Cat(Cat(Cat(a, h), b), c)
  BY <1>1, TakeOne
<1> QED
  BY <1>4, <1>5, <1>6 DEF Flow

(* The agent sends a response, over the relay                                *)
LEMMA FlowSend ==
  ASSUME NEW S, NEW a \in Seq(S), NEW h \in Seq(S), NEW b \in Seq(S), NEW c \in Seq(S), NEW x \in S
  PROVE  Cat(Flow(a, h, b, c), Unit(x)) = Flow(a, h, b, Cat(c, Unit(x)))
<1>1. Cat(a, h) \in Seq(S) /\ Cat(Cat(a, h), b) \in Seq(S) /\ Unit(x) \in Seq(S)
  BY CatTyped, UnitTyped
<1> QED
  BY <1>1, CatAssociative DEF Flow

(* or directly.                                                              *)
LEMMA FlowSendDirect ==
  ASSUME NEW S, NEW a \in Seq(S), NEW h \in Seq(S), NEW b \in Seq(S), NEW x \in S
  PROVE  Append(Flow(a, h, b, <<>>), x) = Flow(a, h, Append(b, x), <<>>)
<1>1. Cat(a, h) \in Seq(S) /\ Cat(Cat(a, h), b) \in Seq(S) /\ Unit(x) \in Seq(S)
  BY CatTyped, UnitTyped
<1>2. Append(b, x) = Cat(b, Unit(x)) /\ Append(Cat(Cat(a, h), b), x) = Cat(Cat(Cat(a, h), b), Unit(x))
  BY <1>1, AppendIsCat
<1>3. Cat(Cat(Cat(a, h), b), Unit(x)) = Cat(Cat(a, h), Cat(b, Unit(x)))
  BY <1>1, CatAssociative
<1>4. Cat(Cat(a, h), Append(b, x)) \in Seq(S)
  BY <1>1, AppendTyped, CatTyped
<1>5. Flow(a, h, b, <<>>) = Cat(Cat(a, h), b) /\ Flow(a, h, Append(b, x), <<>>) = Cat(Cat(a, h), Append(b, x))
  BY <1>1, <1>4, CatEmpty DEF Flow
<1> QED
  BY <1>2, <1>3, <1>5

(* With nothing on its way, all of it was shown.                             *)
LEMMA FlowAll ==
  ASSUME NEW S, NEW a \in Seq(S)
  PROVE  Flow(a, <<>>, <<>>, <<>>) = a
BY CatEmpty DEF Flow

-----------------------------------------------------------------------------
(* Nothing is lost. *)

(* What the queues hold.                                                     *)
LEMMA QueuesTyped ==
  ASSUME Typed
  PROVE  /\ shown \in Seq(Responses) /\ down["client"] \in Seq(Responses) /\ down["agent"] \in Seq(Responses)
         /\ <<>> \in Seq(Responses) /\ Unit("fileRequest") \in Seq(Responses) /\ hand \in Seq(Responses)
         /\ agentSent \in Seq(Responses)
<1>1. shown \in Seq(Responses) /\ down["client"] \in Seq(Responses) /\ down["agent"] \in Seq(Responses)
      /\ agentSent \in Seq(Responses) /\ <<>> \in Seq(Responses)
  BY DEF Typed, LegsTyped, RelayTyped, Legs
<1>2. "fileRequest" \in Responses
  BY DEF Responses
<1>3. Unit("fileRequest") \in Seq(Responses)
  BY <1>2, UnitTyped
<1> QED
  BY <1>1, <1>3 DEF hand

(* The client's steps that do not move a response.                           *)
LEMMA ClientFlowSame ==
  ASSUME Typed, FlowOK, Client, UNCHANGED <<down, shown>>, rcv' = "ended" \/ (hand' = hand /\ rcv # "ended")
  PROVE  FlowOK'
BY ClientFrame DEF FlowOK, Excused

(* The receive routine shows what came first.                                *)
LEMMA ClientFlow ==
  ASSUME Typed, FlowOK, Client
  PROVE  FlowOK'
<1>0. /\ shown \in Seq(Responses) /\ down["client"] \in Seq(Responses) /\ down["agent"] \in Seq(Responses)
      /\ <<>> \in Seq(Responses) /\ Unit("fileRequest") \in Seq(Responses) /\ "fileRequest" \in Responses
      /\ Legs = {"client", "agent"} /\ down \in [Legs -> Seq(Responses)]
  BY QueuesTyped DEF Responses, Legs, Typed, LegsTyped
<1>1. CASE rcvShows
  <2>1. /\ rcv = "receive" /\ rcv' = "receive" /\ down["client"] # <<>> /\ down' = [down EXCEPT !["client"] = Tail(@)]
        /\ shown' = Append(shown, Head(down["client"]))
    BY <1>1 DEF rcvShows, Receives, Take
  <2>2. hand = <<>> /\ hand' = <<>> /\ down'["client"] = Tail(down["client"])
    BY <1>0, <2>1 DEF hand
  <2>3. \A c \in Seq(Responses) :
          Flow(shown', hand', down'["client"], c) = Flow(shown, hand, down["client"], c)
    BY <1>0, <2>1, <2>2, FlowShow
  <2> QED
    BY <1>0, <2>1, <2>3, ClientFrame DEF FlowOK, Excused
<1>2. CASE rcvFileRequest
  <2>1. /\ rcv = "receive" /\ rcv' = "sending" /\ down["client"] # <<>> /\ down' = [down EXCEPT !["client"] = Tail(@)]
        /\ shown' = shown
    BY <1>2 DEF rcvFileRequest, Receives, Take
  <2>4. Head(down["client"]) = "fileRequest"
    BY <1>2 DEF rcvFileRequest, Receives
  <2>2. hand = <<>> /\ hand' = Unit(Head(down["client"])) /\ down'["client"] = Tail(down["client"])
    BY <1>0, <2>1, <2>4 DEF hand
  <2>5. \A c \in Seq(Responses) :
          Flow(shown, Unit(Head(down["client"])), Tail(down["client"]), c) = Flow(shown, <<>>, down["client"], c)
    BY <1>0, <2>1, FlowHand
  <2>3. \A c \in Seq(Responses) :
          Flow(shown', hand', down'["client"], c) = Flow(shown, hand, down["client"], c)
    BY <2>1, <2>2, <2>5
  <2> QED
    BY <1>0, <2>1, <2>3, ClientFrame DEF FlowOK, Excused
<1>3. CASE rcvSendsFile
  <2>1. /\ rcv = "sending" /\ rcv' = "receive" /\ down' = down /\ shown' = Append(shown, "fileRequest")
        /\ hand = Unit("fileRequest") /\ hand' = <<>>
    BY <1>3 DEF rcvSendsFile, hand
  <2>2. \A c \in Seq(Responses) :
          Flow(shown', hand', down'["client"], c) = Flow(shown, hand, down["client"], c)
    BY <1>0, <2>1, FlowReply
  <2> QED
    BY <1>0, <2>1, <2>2, ClientFrame DEF FlowOK, Excused
<1>4. CASE rcvFileFails
  <2>1. rcv' = "ended"
    BY <1>4 DEF rcvFileFails, Post, Return
  <2> QED
    BY <2>1 DEF FlowOK
<1>5. CASE runRPC
  <2>1. UNCHANGED <<down, shown>> /\ main = "idle" /\ rcv' \in {"receive", "ended"}
    BY <1>5 DEF runRPC, Return
  <2>2. rcv = "none"
    BY <2>1 DEF Typed, RunTyped, ClientPlaces
  <2> QED
    BY <2>1, <2>2, ClientFlowSame DEF hand
<1>6. CASE selectDone \/ selectError \/ selectParks \/ runDone \/ signal \/ rcvSendFails \/ rcvEnds \/ rcvFails
           \/ SendRoutine
  <2>1. UNCHANGED <<down, shown>> /\ (rcv' = "ended" \/ rcv' = rcv)
    BY <1>6 DEF selectDone, selectError, selectParks, runDone, signal, rcvSendFails, rcvEnds, rcvFails,
                SendRoutine, sndReads, sndEnds, sndReadFails, sndSends, sndFails, Post, Return, streamVars
  <2>2. rcv' = rcv => hand' = hand
    BY Zenon DEF hand
  <2>3. rcv' = "ended" \/ (hand' = hand /\ rcv # "ended")
    BY <2>1, <2>2
  <2> QED
    BY <2>1, <2>3, ClientFlowSame
<1> QED
  BY <1>1, <1>2, <1>3, <1>4, <1>5, <1>6 DEF Client, ClientMain, ReceiveRoutine

(* The relay keeps the order, and ends the client's stream well only when it *)
(* has forwarded all of it.                                                  *)
LEMMA RelayFlow ==
  ASSUME Typed, CancelsOK, FlowOK, Relay
  PROVE  FlowOK'
<1>0. /\ UNCHANGED <<rcv, shown, agentSent, signalled, viaServer, runCancelled>> /\ (raced => raced')
      /\ (fault' = fault \/ (fault = "none" /\ fault' = "request"))
  BY RelayFrame
<1>1. hand' = hand
  BY <1>0, Zenon DEF hand
<1>2. SUFFICES ASSUME rcv # "ended", ~Excused'
               PROVE  /\ (fault \notin Legs /\ relay # "returned")' =>
                           agentSent = Flow(shown, hand, down'["client"], down'["agent"])
                      /\ viaServer /\ end'["client"] = "ok" =>
                           end'["agent"] = "ok" /\ agentSent = Flow(shown, hand, down'["client"], <<>>)
  BY <1>0, <1>1 DEF FlowOK
<1>3. /\ ~Excused /\ ~runCancelled
      /\ fault \notin Legs /\ relay # "returned" =>
           agentSent = Flow(shown, hand, down["client"], down["agent"])
      /\ viaServer /\ end["client"] = "ok" =>
           end["agent"] = "ok" /\ agentSent = Flow(shown, hand, down["client"], <<>>)
  BY <1>0, <1>2 DEF Excused, FlowOK, Typed, RunTyped, ClientPlaces
<1>4. fault' \notin Legs => fault \notin Legs
  BY <1>0 DEF Legs
<1>5. /\ relay = "returned" => end["client"] # "open"
      /\ viaServer /\ relay # "returned" => end["client"] \in {"open", "failed"}
      /\ fault \in Legs => end[fault] = "failed"
      /\ relay = "parked" => ~relayCancelled
  BY DEF Typed, RelayTyped, RelayPlaces
<1>6. CASE relayRoutes
  BY <1>3, <1>4, <1>6 DEF relayRoutes
<1>7. CASE relayRejects
  <2>1. down' = down /\ end'["agent"] = end["agent"] /\ relay' = "returned"
        /\ (end'["client"] = "ok" => end["client"] = "ok")
    BY <1>7 DEF relayRejects, Finish, Typed, LegsTyped, Legs
  <2> QED
    BY <1>3, <2>1
<1>8. CASE selectRelay
  <2>1. down' = down /\ end'["agent"] = end["agent"] /\ fault' = fault /\ relay = "starting" /\ fwdDown' = fwdDown
    BY <1>8 DEF selectRelay, Finish, Typed, LegsTyped, Legs
  <2>2. CASE relay' = "parked"
    BY <1>3, <1>4, <1>8, <2>1, <2>2 DEF selectRelay, Finish
  <2>3. CASE relayCancelled /\ Finish("ok") /\ raced' = (raced \/ relayErr # <<>>)
    <3>1. relayErr = <<>>
      BY <1>2, <2>3, Zenon DEF Excused
    <3>2. Forwarded
      BY <1>3, <2>1, <2>3, <3>1 DEF CancelsOK, Excused
    <3>3. relay' = "returned" /\ (end'["client"] = "ok" => end["client"] # "failed")
      BY <2>3 DEF Finish, Typed, LegsTyped, Legs
    <3>4. fault \in Legs => end["client"] = "failed"
      BY <1>5, <3>2 DEF Forwarded, Legs
    <3> QED
      BY <1>3, <2>1, <3>2, <3>3, <3>4 DEF Forwarded
  <2>4. CASE relayErr # <<>> /\ Finish(Head(relayErr))
    <3>1. Head(relayErr) \in Bad
      BY <2>4, TakeTyped DEF Typed, RelayTyped
    <3>2. relay' = "returned" /\ (end'["client"] = "ok" => end["client"] = "ok")
      BY <2>4, <3>1 DEF Finish, Typed, LegsTyped, Legs, Bad
    <3> QED
      BY <1>3, <2>1, <3>2
  <2> QED
    BY <1>8, <2>2, <2>3, <2>4 DEF selectRelay
<1>9. CASE downForwards
  <2>1. /\ relay # "returned" /\ fwdDown = "forward" /\ down["agent"] # <<>> /\ UNCHANGED <<end, relay, fault>>
        /\ down'["agent"] = Tail(down["agent"])
        /\ down'["client"] = Append(down["client"], Head(down["agent"]))
    BY <1>9 DEF downForwards, Typed, LegsTyped, Legs
  <2>2. Flow(shown, hand, down'["client"], down'["agent"]) = Flow(shown, hand, down["client"], down["agent"])
    BY <2>1, QueuesTyped, FlowForward
  <2> QED
    BY <1>3, <1>5, <2>1, <2>2
<1>10. CASE downSendFails
  <2>1. /\ PostRelay("failed") /\ fault' = fault /\ "failed" \in Bad /\ (Gone("client") \/ relay = "returned")
        /\ down'["client"] = down["client"]
    BY <1>10 DEF downSendFails, Bad, Typed, LegsTyped, Legs
  <2>2. fault = "client" \/ relay = "returned"
    BY <1>3, <2>1 DEF Gone
  <2>3. CASE relay = "returned"
    BY <1>3, <2>1, <2>3, PostEffect
  <2>4. CASE fault = "client"
    BY <1>3, <1>5, <2>1, <2>4, PostEffect DEF Legs
  <2> QED
    BY <2>2, <2>3, <2>4
<1>11. CASE downEnds
  <2>1. /\ CancelRelay /\ UNCHANGED <<down, fault>>
        /\ relayCancelled \/ (down["agent"] = <<>> /\ end["agent"] = "ok")
    BY <1>11 DEF downEnds
  <2>2. CASE relay = "parked"
    BY <1>3, <1>5, <2>1, <2>2, CancelEffect DEF Legs
  <2>3. CASE relay # "parked"
    BY <1>3, <2>1, <2>3, CancelEffect
  <2> QED
    BY <2>2, <2>3
<1>12. CASE upEnds
  <2>1. CancelRelay /\ UNCHANGED <<down, fault>> /\ (relayCancelled \/ fault = "closed")
    BY <1>12 DEF upEnds
  <2>2. relay # "parked"
    BY <1>3, <1>5, <2>1 DEF Excused
  <2> QED
    BY <1>3, <2>1, <2>2, CancelEffect
<1>13. CASE downRefuses \/ downFails \/ upSendFails \/ upFails
  <2>1. PICK s \in Bad : PostRelay(s) /\ down' = down
    BY <1>13 DEF downRefuses, downFails, upSendFails, upFails, Bad
  <2>2. /\ end'["agent"] = end["agent"] /\ (end'["client"] = "ok" => end["client"] = "ok")
        /\ relay' # "returned" => relay # "returned"
    BY <2>1, PostEffect DEF Bad
  <2> QED
    BY <1>3, <1>4, <2>1, <2>2
<1>14. CASE upForwards
  BY <1>3, <1>14 DEF upForwards
<1> QED
  BY <1>6, <1>7, <1>8, <1>9, <1>10, <1>11, <1>12, <1>13, <1>14 DEF Relay, ForwardDown, ForwardUp

(* The agent's responses come last.                                          *)
LEMMA EnvironmentFlow ==
  ASSUME Typed, FlowOK, Environment
  PROVE  FlowOK'
<1>0. /\ UNCHANGED <<rcv, shown, signalled, raced, viaServer, relay>>
      /\ (fault' = fault \/ (fault = "none" /\ fault' # "none"))
  BY EnvironmentFrame
<1>1. hand' = hand
  BY <1>0, Zenon DEF hand
<1>2. SUFFICES ASSUME rcv # "ended", ~Excused'
               PROVE  /\ fault' \notin Legs /\ relay # "returned" =>
                           agentSent' = Flow(shown, hand, down'["client"], down'["agent"])
                      /\ viaServer /\ end'["client"] = "ok" =>
                           end'["agent"] = "ok" /\ agentSent' = Flow(shown, hand, down'["client"], <<>>)
  BY <1>0, <1>1 DEF FlowOK
<1>3. /\ ~Excused
      /\ fault \notin Legs /\ relay # "returned" =>
           agentSent = Flow(shown, hand, down["client"], down["agent"])
      /\ viaServer /\ end["client"] = "ok" =>
           end["agent"] = "ok" /\ agentSent = Flow(shown, hand, down["client"], <<>>)
  BY <1>0, <1>2 DEF Excused, FlowOK
<1>4. fault' \notin Legs => fault \notin Legs
  BY <1>0 DEF Legs
<1>5. CASE agentReceives
  BY <1>3, <1>5 DEF agentReceives, Typed, LegsTyped, AgentLeg, Legs
<1>6. CASE \E m \in Responses : agentSends(m)
  <2>1. PICK m \in Responses : agentSends(m)
    BY <1>6
  <2>2. agentSent' = Append(agentSent, m) /\ UNCHANGED <<end, fault>> /\ end[AgentLeg] = "open"
    BY <2>1 DEF agentSends
  <2>3. CASE viaServer
    <3>1. down'["client"] = down["client"] /\ down'["agent"] = Append(down["agent"], m)
      BY <2>1, <2>3 DEF agentSends, AgentLeg, Typed, LegsTyped, Legs
    <3>2. Cat(Flow(shown, hand, down["client"], down["agent"]), Unit(m))
            = Flow(shown, hand, down["client"], Cat(down["agent"], Unit(m)))
      BY QueuesTyped, FlowSend
    <3>3. Append(down["agent"], m) = Cat(down["agent"], Unit(m)) /\ Append(agentSent, m) = Cat(agentSent, Unit(m))
      BY QueuesTyped, AppendIsCat
    <3> QED
      BY <1>3, <2>2, <2>3, <3>1, <3>2, <3>3 DEF AgentLeg
  <2>4. CASE ~viaServer
    <3>1. down'["client"] = Append(down["client"], m) /\ down'["agent"] = <<>> /\ down["agent"] = <<>>
      BY <2>1, <2>4 DEF agentSends, AgentLeg, Typed, LegsTyped, Legs, RelayTyped, RelayPlaces
    <3>2. Append(Flow(shown, hand, down["client"], <<>>), m)
            = Flow(shown, hand, Append(down["client"], m), <<>>)
      <4>1. \A a, h, b \in Seq(Responses) : Append(Flow(a, h, b, <<>>), m) = Flow(a, h, Append(b, m), <<>>)
        BY FlowSendDirect
      <4> QED
        BY <4>1, QueuesTyped
    <3> QED
      BY <1>3, <2>2, <2>4, <3>1, <3>2
  <2> QED
    BY <2>3, <2>4
<1>7. CASE \E status \in {"ok", "failed", "canceled"} : agentEnds(status)
  <2>1. /\ UNCHANGED <<down, agentSent, fault>> /\ end[AgentLeg] = "open"
        /\ \A l \in Legs : l # AgentLeg => end'[l] = end[l]
    BY <1>7 DEF agentEnds, agentVars, AgentLeg, Typed, LegsTyped, Legs
  <2> QED
    BY <1>3, <2>1 DEF AgentLeg, Legs
<1>8. CASE \E leg \in Legs : connectionBreaks(leg)
  <2>1. PICK leg \in Legs : connectionBreaks(leg)
    BY <1>8
  <2>2. /\ fault' \in Legs /\ agentSent' = agentSent
        /\ leg = "client" \/ relay \notin {"idle", "returned"}
        /\ end'[leg] = "failed" /\ \A l \in Legs : l # leg => end'[l] = end[l]
    BY <2>1 DEF connectionBreaks, agentVars, Typed, LegsTyped
  <2>3. viaServer => end'["client"] # "ok" \/ leg = "client"
    BY <2>2 DEF Typed, RelayTyped, RelayPlaces, Legs
  <2> QED
    BY <2>2, <2>3
<1>9. CASE clientCloses
  BY <1>3, <1>4, <1>9 DEF clientCloses, streamVars, agentVars
<1> QED
  BY <1>5, <1>6, <1>7, <1>8, <1>9 DEF Environment

-----------------------------------------------------------------------------
(* Success means that all is done. *)

(* When the receive routine ends by itself, the agent has succeeded and all  *)
(* of its responses were shown, or the run was cut short.                    *)
LEMMA EndsDone ==
  ASSUME Typed, CancelsOK, FlowOK, rcvEnds
  PROVE  Excused \/ Done
<1>1. rcv = "receive" /\ (runCancelled \/ (down["client"] = <<>> /\ end["client"] \in {"ok", "canceled"}))
  BY DEF rcvEnds
<1>2. SUFFICES ASSUME ~Excused PROVE Done
  OBVIOUS
<1>3. ~runCancelled
  BY <1>1, <1>2 DEF Excused, Typed, RunTyped, ClientPlaces
<1>4. end["client"] = "ok" /\ down["client"] = <<>> /\ hand = <<>>
  BY <1>1, <1>2, <1>3 DEF CancelsOK, Excused, hand
<1>5. Flow(shown, <<>>, <<>>, <<>>) = shown
  BY QueuesTyped, FlowAll
<1>6. CASE viaServer
  BY <1>1, <1>2, <1>4, <1>5, <1>6 DEF FlowOK, Done, AgentLeg
<1>7. CASE ~viaServer
  <2>1. relay = "idle" /\ down["agent"] = <<>> /\ end["agent"] = "open" /\ (fault \in Legs => end[fault] = "failed")
    BY <1>7 DEF Typed, RelayTyped, RelayPlaces
  <2>2. fault \notin Legs
    BY <1>4, <2>1 DEF Legs
  <2> QED
    BY <1>1, <1>2, <1>4, <1>5, <1>7, <2>1, <2>2 DEF FlowOK, Done, AgentLeg
<1> QED
  BY <1>6, <1>7

(* A routine that posts its error.                                           *)
LEMMA PostDone ==
  ASSUME Typed, DoneOK, Client, NEW who \in {"rcv", "snd"}, NEW e \in Errors, Post(who, e), UNCHANGED shown, Running
  PROVE  DoneOK'
<1>1. UNCHANGED <<end, agentSent, viaServer, fault, signalled, raced>> /\ result = "none"
  BY ClientFrame DEF Post, Running, Typed, RunTyped, ClientPlaces
<1>2. (Done' <=> Done) /\ (Excused' <=> Excused)
  BY <1>1 DEF Done, Excused, AgentLeg
<1>3. CASE main = "parked"
  BY <1>1, <1>3 DEF Post, Return, DoneOK, Errors
<1>4. CASE main # "parked"
  <2>1. errChan' = Append(errChan, e) /\ UNCHANGED <<main, result>>
    BY <1>4 DEF Post
  <2>2. errChan' # <<>>
    BY <2>1, AppendHead DEF Typed, RunTyped
  <2> QED
    BY <1>1, <1>2, <2>1, <2>2 DEF DoneOK
<1> QED
  BY <1>3, <1>4

(* The client's steps.                                                       *)
LEMMA ClientDone ==
  ASSUME Typed, CancelsOK, FlowOK, DoneOK, Client
  PROVE  DoneOK'
<1>0. /\ UNCHANGED <<end, agentSent, viaServer, fault>> /\ (signalled => signalled') /\ (raced => raced')
      /\ (Excused => Excused')
  BY ClientFrame DEF Excused
<1>1. shown' = shown => (Done' <=> Done)
  BY <1>0 DEF Done, AgentLeg
<1> USE DEF DoneOK
<1>2. CASE runRPC
  BY <1>2 DEF runRPC, Return, Typed, RunTyped, ClientPlaces
<1>3. CASE selectDone
  <2>1. UNCHANGED <<rcv, errChan, result, shown, signalled>> /\ main = "starting" /\ main' = "done" /\ runCancelled
        /\ raced' = (raced \/ errChan # <<>>)
    BY <1>3 DEF selectDone
  <2>2. rcv = "ended" \/ signalled
    BY <2>1 DEF Typed, RunTyped, ClientPlaces
  <2>3. errChan # <<>> => raced'
    BY <2>1, Zenon
  <2>4. Excused' \/ Done
    BY <1>0, <2>1, <2>2, <2>3 DEF Excused
  <2> QED
    BY <1>1, <2>1, <2>4 DEF Typed, RunTyped, ClientPlaces
<1>4. CASE selectError
  <2>1. errChan # <<>> /\ main' = "returned" /\ result' = Head(errChan)
    BY <1>4 DEF selectError, Return
  <2>2. Head(errChan) \in Errors
    BY <2>1, TakeTyped DEF Typed, RunTyped
  <2> QED
    BY <2>1, <2>2 DEF Errors
<1>5. CASE selectParks
  BY <1>0, <1>1, <1>5 DEF selectParks, Typed, RunTyped, ClientPlaces
<1>6. CASE runDone
  BY <1>0, <1>1, <1>6 DEF runDone, Return, Excused
<1>7. CASE signal
  <2>1. signalled' /\ UNCHANGED <<rcv, errChan, result, shown>> /\ main # "returned" /\ main' # "returned"
    BY <1>7 DEF signal, CancelRun
  <2>2. result = "none"
    BY <2>1 DEF Typed, RunTyped, ClientPlaces
  <2> QED
    BY <2>1, <2>2 DEF Excused
<1>8. CASE rcvShows \/ rcvFileRequest \/ rcvSendsFile
  <2>1. UNCHANGED <<main, errChan, result>> /\ rcv # "ended" /\ rcv' # "ended" /\ main # "returned"
    BY <1>8 DEF rcvShows, rcvFileRequest, rcvSendsFile, Receives, Running, runVars
  <2>2. main = "done" => Excused
    BY <2>1 DEF Typed, RunTyped, ClientPlaces, Excused
  <2>3. result = "none"
    BY <2>1 DEF Typed, RunTyped, ClientPlaces
  <2> QED
    BY <1>0, <2>1, <2>2, <2>3
<1>9. CASE rcvFileFails
  BY <1>9, PostDone DEF rcvFileFails, Receives, Errors
<1>10. CASE rcvSendFails
  BY <1>10, PostDone DEF rcvSendFails, Errors
<1>11. CASE rcvFails
  BY <1>11, PostDone DEF rcvFails, Errors
<1>12. CASE rcvEnds
  <2>1. UNCHANGED <<errChan, result, shown>> /\ main # "returned"
    BY <1>12 DEF rcvEnds, CancelRun, Running
  <2>2. result = "none"
    BY <2>1 DEF Typed, RunTyped, ClientPlaces
  <2>3. Excused' \/ Done'
    BY <1>0, <1>1, <1>12, <2>1, EndsDone
  <2> QED
    BY <2>1, <2>2, <2>3
<1>13. CASE sndReads \/ sndEnds \/ sndSends
  <2>1. UNCHANGED <<main, errChan, result, rcv, shown>>
    BY <1>13 DEF sndReads, sndEnds, sndSends, runVars
  <2> QED
    BY <1>0, <1>1, <2>1
<1>14. CASE sndReadFails
  BY <1>14, PostDone DEF sndReadFails, Errors
<1>15. CASE sndFails
  BY <1>15, PostDone DEF sndFails, Errors
<1> QED
  BY <1>2, <1>3, <1>4, <1>5, <1>6, <1>7, <1>8, <1>9, <1>10, <1>11, <1>12, <1>13, <1>14, <1>15
  DEF Client, ClientMain, ReceiveRoutine, SendRoutine

(* The steps of the relay end no agent's stream.                             *)
LEMMA RelayAgentEnd ==
  ASSUME Typed, Relay
  PROVE  viaServer /\ end'["agent"] = end["agent"]
<1>1. viaServer
  BY DEF Typed, RelayTyped, RelayPlaces, Relay, ForwardDown, ForwardUp, relayRoutes, relayRejects,
         selectRelay, downForwards, downRefuses, downSendFails, downEnds, downFails, upForwards,
         upSendFails, upEnds, upFails
<1>2. CASE relayRoutes \/ relayRejects \/ selectRelay \/ downForwards \/ upForwards
  BY <1>1, <1>2 DEF relayRoutes, relayRejects, selectRelay, downForwards, upForwards, Finish, Typed, LegsTyped, Legs
<1> QED
  BY <1>1, <1>2, RelayEndsTyped DEF Relay, ForwardDown, ForwardUp, Typed

(* Neither the relay nor the agent undoes it.                                *)
LEMMA OthersDone ==
  ASSUME Typed, DoneOK, Relay \/ Environment
  PROVE  DoneOK'
<1>1. /\ UNCHANGED <<main, rcv, errChan, result, shown, signalled, viaServer>> /\ (raced => raced')
      /\ fault = "closed" => fault' = "closed"
  BY RelayFrame, EnvironmentFrame
<1>2. Excused => Excused'
  BY <1>1 DEF Excused
<1>3. Done => Done'
  <2>1. SUFFICES ASSUME Done, end[AgentLeg] = "ok", shown = agentSent PROVE end'[AgentLeg] = "ok" /\ agentSent' = agentSent
    BY <1>1 DEF Done, AgentLeg
  <2>2. CASE Relay
    BY <2>1, <2>2, RelayFrame, RelayAgentEnd DEF AgentLeg
  <2>3. CASE Environment
    <3>1. AgentLeg \in Legs
      BY DEF AgentLeg, Legs
    <3>2. CASE agentReceives \/ (\E m \in Responses : agentSends(m))
               \/ (\E status \in {"ok", "failed", "canceled"} : agentEnds(status))
      BY <2>1, <3>2 DEF agentReceives, agentSends, agentEnds
    <3>3. CASE \E leg \in Legs : connectionBreaks(leg)
      BY <2>1, <3>1, <3>3 DEF connectionBreaks, agentVars, Typed, LegsTyped
    <3>4. CASE clientCloses
      BY <2>1, <3>4 DEF clientCloses, streamVars, agentVars
    <3> QED
      BY <2>3, <3>2, <3>3, <3>4 DEF Environment
  <2> QED
    BY <2>2, <2>3
<1> QED
  BY <1>1, <1>2, <1>3 DEF DoneOK

-----------------------------------------------------------------------------
(* What a queue holds. *)

(* Nothing.                                                                  *)
LEMMA EmptyHas ==
  ASSUME NEW x
  PROVE  ~Has(<<>>, x) /\ Once(<<>>, x)
BY DEF Has, Once

(* What is appended, besides what it held before.                            *)
LEMMA AppendHas ==
  ASSUME NEW S, NEW s \in Seq(S), NEW y \in S, NEW x
  PROVE  /\ Has(Append(s, y), x) <=> Has(s, x) \/ y = x
         /\ Once(s, x) /\ (y = x => ~Has(s, x)) => Once(Append(s, y), x)
<1>1. DOMAIN s = 1 .. Len(s) /\ DOMAIN Append(s, y) = 1 .. Len(s) + 1 /\ Len(s) \in Nat
      /\ Append(s, y)[Len(s) + 1] = y /\ \A i \in 1 .. Len(s) : Append(s, y)[i] = s[i]
  OBVIOUS
<1>2. Has(s, x) => Has(Append(s, y), x)
  BY <1>1 DEF Has
<1>3. y = x => Has(Append(s, y), x)
  BY <1>1 DEF Has
<1>4. Has(Append(s, y), x) => Has(s, x) \/ y = x
  BY <1>1 DEF Has
<1>5. Once(s, x) /\ (y = x => ~Has(s, x)) => Once(Append(s, y), x)
  BY <1>1 DEF Has, Once
<1> QED
  BY <1>2, <1>3, <1>4, <1>5

(* What remains when the head is taken.                                      *)
LEMMA TailHas ==
  ASSUME NEW S, NEW s \in Seq(S), s # <<>>, NEW x
  PROVE  /\ Has(Tail(s), x) => Has(s, x)
         /\ Head(s) = x => Has(s, x)
         /\ Once(s, x) => Once(Tail(s), x)
         /\ Once(s, x) /\ Head(s) = x => ~Has(Tail(s), x)
<1>1. DOMAIN s = 1 .. Len(s) /\ DOMAIN Tail(s) = 1 .. Len(s) - 1 /\ Len(s) \in Nat \ {0} /\ Head(s) = s[1]
      /\ \A i \in 1 .. Len(s) - 1 : Tail(s)[i] = s[i + 1]
  OBVIOUS
<1>2. Has(Tail(s), x) => Has(s, x)
  BY <1>1 DEF Has
<1>3. Head(s) = x => Has(s, x)
  BY <1>1 DEF Has
<1>4. Once(s, x) => Once(Tail(s), x)
  BY <1>1 DEF Once
<1>5. Once(s, x) /\ Head(s) = x => ~Has(Tail(s), x)
  BY <1>1 DEF Has, Once
<1> QED
  BY <1>2, <1>3, <1>4, <1>5

-----------------------------------------------------------------------------
(* The command is in one place. *)

(* What putting a message on a leg does to it.                               *)
LEMMA PutHas ==
  ASSUME Typed, NEW m \in Requests, Put("client", m), NEW x
  PROVE  /\ up'["agent"] = up["agent"]
         /\ Has(up'["client"], x) => Has(up["client"], x) \/ m = x
         /\ Once(up["client"], x) /\ (m = x => ~Has(up["client"], x)) => Once(up'["client"], x)
<1>1. up["client"] \in Seq(Requests) /\ up \in [Legs -> Seq(Requests)] /\ "client" \in Legs /\ "agent" \in Legs
  BY DEF Typed, LegsTyped, Legs
<1>2. up'["agent"] = up["agent"] /\ (up'["client"] = up["client"] \/ up'["client"] = Append(up["client"], m))
  BY <1>1 DEF Put
<1>3. /\ Has(Append(up["client"], m), x) => Has(up["client"], x) \/ m = x
      /\ Once(up["client"], x) /\ (m = x => ~Has(up["client"], x)) => Once(Append(up["client"], m), x)
  BY <1>1, AppendHas
<1> QED
  BY <1>2, <1>3

(* The client sends the command once.                                        *)
LEMMA ClientCommand ==
  ASSUME Typed, CommandOK, Client
  PROVE  CommandOK'
<1>0. UNCHANGED <<agent, relay, fault>> /\ up'["agent"] = up["agent"]
  BY ClientFrame
<1>1. CASE runRPC
  <2>1. main = "idle" /\ main' # "idle"
    BY <1>1 DEF runRPC, Return
  <2>2. agent = "idle" /\ relay = "idle" /\ ~Has(up["client"], "command") /\ ~Has(up["agent"], "command")
    BY <2>1, EmptyHas DEF CommandOK
  <2>3. Once(up'["client"], "command")
    <3>1. CASE Put("client", "command")
      BY <2>2, <3>1, PutHas DEF Requests, CommandOK, Legs
    <3>2. CASE up' = up
      BY <3>2 DEF CommandOK, Legs
    <3> QED
      BY <1>1, <3>1, <3>2 DEF runRPC
  <2> QED
    BY <1>0, <2>1, <2>2, <2>3 DEF CommandOK, Legs
<1>2. CASE rcvSendsFile \/ sndSends
  <2>1. PICK m \in Requests \ {"command"} : Put("client", m)
    BY <1>2 DEF rcvSendsFile, sndSends, Sent, Requests
  <2>2. main' = main /\ (rcv # "none" \/ snd # "none")
    BY <1>2 DEF rcvSendsFile, sndSends, runVars
  <2>3. main' # "idle"
    BY <2>2 DEF Typed, RunTyped, ClientPlaces
  <2>4. (Has(up'["client"], "command") => Has(up["client"], "command")) /\ Once(up'["client"], "command")
    BY <2>1, PutHas DEF CommandOK, Legs
  <2> QED
    BY <1>0, <2>3, <2>4 DEF CommandOK, Legs
<1>3. CASE up' = up /\ main # "idle"
  <2>1. main' # "idle"
    BY <1>3 DEF Client, ClientMain, ReceiveRoutine, SendRoutine, selectDone, selectError,
         selectParks, runDone, signal, rcvSendFails, rcvEnds, rcvFails, sndReads, sndEnds,
         sndReadFails, sndFails, runRPC, rcvShows, rcvFileRequest, rcvFileFails, rcvSendsFile,
         sndSends, Post, Return, CancelRun, runVars
  <2> QED
    BY <1>0, <1>3, <2>1 DEF CommandOK
<1> QED
  <2>1. (Client /\ ~runRPC /\ ~rcvSendsFile /\ ~sndSends) => up' = up /\ main # "idle"
    BY DEF Client, ClientMain, ReceiveRoutine, SendRoutine, selectDone, selectError,
         selectParks, runDone, signal, rcvSendFails, rcvEnds, rcvFails, sndReads, sndEnds,
         sndReadFails, sndFails, rcvShows, rcvFileRequest, rcvFileFails, streamVars, Receives,
         Typed, RunTyped, ClientPlaces
  <2> QED
    BY <1>1, <1>2, <1>3, <2>1

(* A handler that waits has left the command behind.                         *)
LEMMA RelayMoves ==
  ASSUME Typed, Relay, ~relayRoutes, ~relayRejects
  PROVE  /\ viaServer /\ relay # "idle" /\ relay' # "idle"
         /\ relay \notin {"idle", "returned"} \/ relay' = "returned"
<1>1. CASE selectRelay
  BY <1>1 DEF selectRelay, Finish, Typed, RelayTyped, RelayPlaces
<1>2. CASE downForwards \/ upForwards
  BY <1>2 DEF downForwards, upForwards, Typed, RelayTyped, RelayPlaces
<1>3. CASE fwdDown = "forward" \/ fwdUp = "forward"
  <2>1. viaServer /\ relay # "idle"
    BY <1>3 DEF Typed, RelayTyped, RelayPlaces
  <2>2. CASE relay' = relay \/ relay' = "returned"
    BY <2>1, <2>2
  <2>3. CASE downRefuses \/ downSendFails \/ downEnds \/ downFails \/ upSendFails \/ upEnds \/ upFails
    BY <2>2, <2>3 DEF downRefuses, downSendFails, downEnds, downFails, upSendFails, upEnds, upFails,
                      PostRelay, CancelRelay, Finish
  <2> QED
    BY <1>1, <1>2, <2>3 DEF Relay, ForwardDown, ForwardUp
<1> QED
  BY <1>1, <1>2, <1>3 DEF Relay, ForwardDown, ForwardUp, downRefuses, downSendFails, downEnds, downFails,
                          upSendFails, upEnds, upFails

(* What taking a message from a leg does to it.                              *)
LEMMA TakeHas ==
  ASSUME Typed, NEW l \in Legs, up[l] # <<>>, NEW x
  PROVE  /\ Has(Tail(up[l]), x) => Has(up[l], x)
         /\ Head(up[l]) = x => Has(up[l], x)
         /\ Once(up[l], x) => Once(Tail(up[l]), x)
         /\ Once(up[l], x) /\ Head(up[l]) = x => ~Has(Tail(up[l]), x)
<1>1. up[l] \in Seq(Requests)
  BY DEF Typed, LegsTyped
<1> QED
  BY <1>1, TailHas

(* What adding a message to a leg does to it.                                *)
LEMMA AddHas ==
  ASSUME Typed, NEW l \in Legs, NEW m \in Requests, NEW x
  PROVE  /\ Has(Append(up[l], m), x) <=> Has(up[l], x) \/ m = x
         /\ Once(up[l], x) /\ (m = x => ~Has(up[l], x)) => Once(Append(up[l], m), x)
<1>1. up[l] \in Seq(Requests)
  BY DEF Typed, LegsTyped
<1> QED
  BY <1>1, AppendHas

(* The relay takes the command from one leg to the other.                    *)
LEMMA RelayCommand ==
  ASSUME Typed, CommandOK, Relay
  PROVE  CommandOK'
<1>0. UNCHANGED <<main, agent, rcv, runCancelled>> /\ fault' \in {fault, "request"}
  BY RelayFrame
<1>1. main # "idle"
  <2>1. SUFFICES ASSUME main = "idle" PROVE FALSE
    OBVIOUS
  <2>2. relay = "idle" /\ up["client"] = <<>> /\ fault = "none" /\ ~runCancelled
    BY <2>1 DEF CommandOK, Typed, RunTyped, ClientPlaces
  <2>3. ~relayRoutes /\ ~relayRejects
    BY <2>2 DEF relayRoutes, relayRejects, Gone
  <2> QED
    BY <2>2, <2>3, RelayMoves
<1>2. "client" \in Legs /\ "agent" \in Legs /\ Legs = {"client", "agent"} /\ "command" \in Requests
      /\ up \in [Legs -> Seq(Requests)]
  BY DEF Legs, Requests, Typed, LegsTyped
<1>3. CASE relayRoutes
  <2>1. /\ up["client"] # <<>> /\ Head(up["client"]) = "command" /\ relay' = "starting"
        /\ up'["client"] = Tail(up["client"]) /\ up'["agent"] = Append(up["agent"], "command")
    BY <1>2, <1>3 DEF relayRoutes
  <2>2. Has(up["client"], "command")
    BY <1>2, <2>1, TakeHas
  <2>3. agent = "idle" /\ ~Has(up["agent"], "command") /\ Once(up["client"], "command") /\ Once(up["agent"], "command")
    BY <1>2, <2>2 DEF CommandOK
  <2>4. ~Has(up'["client"], "command") /\ Once(up'["client"], "command")
    BY <1>2, <2>1, <2>3, TakeHas
  <2>5. Once(up'["agent"], "command")
    BY <1>2, <2>1, <2>3, AddHas
  <2> QED
    BY <1>0, <1>1, <1>2, <2>1, <2>3, <2>4, <2>5 DEF CommandOK
<1>4. CASE relayRejects
  BY <1>0, <1>1, <1>4 DEF relayRejects, Finish, CommandOK
<1>5. CASE ~relayRoutes /\ ~relayRejects /\ up' = up
  BY <1>0, <1>1, <1>5, RelayMoves DEF CommandOK
<1>6. CASE upForwards
  <2>1. /\ up["client"] # <<>> /\ up'["client"] = Tail(up["client"]) /\ relay' = relay /\ fwdUp = "forward"
        /\ up'["agent"] = up["agent"] \/ up'["agent"] = Append(up["agent"], Head(up["client"]))
        /\ relay # "returned"
    BY <1>2, <1>6 DEF upForwards
  <2>2. relay # "idle"
    BY <2>1 DEF Typed, RelayTyped, RelayPlaces
  <2>3. ~Has(up["client"], "command") /\ Once(up["client"], "command") /\ Once(up["agent"], "command")
    BY <1>2, <2>1, <2>2 DEF CommandOK
  <2>4. ~Has(up'["client"], "command") /\ Once(up'["client"], "command") /\ Head(up["client"]) # "command"
    BY <1>2, <2>1, <2>3, TakeHas
  <2>5. Head(up["client"]) \in Requests
    BY <1>2, <2>1, TakeTyped
  <2>6. Once(up'["agent"], "command") /\ (Has(up'["agent"], "command") => Has(up["agent"], "command"))
    <3>1. PICK m \in Requests : m = Head(up["client"])
      BY <2>5
    <3>2. Once(Append(up["agent"], m), "command") /\ (Has(Append(up["agent"], m), "command") => Has(up["agent"], "command"))
      BY <1>2, <2>3, <2>4, <3>1, AddHas
    <3> QED
      BY <2>1, <2>3, <3>1, <3>2
  <2> QED
    BY <1>0, <1>1, <1>2, <2>1, <2>4, <2>6 DEF CommandOK
<1>7. CASE upSendFails
  <2>1. up["client"] # <<>> /\ up'["client"] = Tail(up["client"]) /\ up'["agent"] = up["agent"]
    BY <1>2, <1>7 DEF upSendFails
  <2>2. (Has(up'["client"], "command") => Has(up["client"], "command")) /\ Once(up'["client"], "command")
    BY <1>2, <2>1, TakeHas DEF CommandOK
  <2>3. ~relayRoutes /\ ~relayRejects
    BY <1>7 DEF upSendFails, relayRoutes, relayRejects, Typed, RelayTyped, RelayPlaces
  <2> QED
    BY <1>0, <1>1, <1>2, <2>1, <2>2, <2>3, RelayMoves DEF CommandOK
<1> QED
  BY <1>3, <1>4, <1>5, <1>6, <1>7
  DEF Relay, ForwardDown, ForwardUp, selectRelay, downForwards, downRefuses, downSendFails, downEnds, downFails,
      upEnds, upFails

(* The agent takes the command once.                                         *)
LEMMA EnvironmentCommand ==
  ASSUME Typed, CommandOK, FileOK, Environment
  PROVE  CommandOK'
<1>0. UNCHANGED <<main, relay, viaServer>> /\ (fault' = fault \/ (fault = "none" /\ fault' # "none"))
  BY EnvironmentFrame
<1>1. AgentLeg \in Legs /\ Legs = {"client", "agent"} /\ up \in [Legs -> Seq(Requests)]
  BY DEF AgentLeg, Legs, Typed, LegsTyped
<1>2. CASE agentReceives
  <2>1. /\ up[AgentLeg] # <<>> /\ up'[AgentLeg] = Tail(up[AgentLeg]) /\ fault' = fault
        /\ \A l \in Legs : l # AgentLeg => up'[l] = up[l]
        /\ agent' = IF Head(up[AgentLeg]) \in {"command", "file"} THEN "running" ELSE agent
    BY <1>1, <1>2 DEF agentReceives
  <2>2. main # "idle"
    BY <1>1, <2>1 DEF CommandOK
  <2>3. \A l \in Legs : Once(up'[l], "command") /\ (Has(up'[l], "command") => Has(up[l], "command"))
    BY <1>1, <2>1, TakeHas DEF CommandOK
  <2>4. CASE Head(up[AgentLeg]) = "command"
    <3>1. Has(up[AgentLeg], "command") /\ ~Has(up'[AgentLeg], "command")
      BY <1>1, <2>1, <2>4, TakeHas DEF CommandOK
    <3>2. ~viaServer => ~Has(up["agent"], "command")
      BY EmptyHas DEF Typed, RelayTyped, RelayPlaces
    <3>3. \A l \in Legs : ~Has(up'[l], "command")
      BY <1>1, <2>3, <3>1, <3>2 DEF CommandOK, AgentLeg
    <3> QED
      BY <1>0, <1>1, <2>2, <2>3, <3>3 DEF CommandOK
  <2>5. CASE Head(up[AgentLeg]) = "file"
    <3>1. agent = "awaiting"
      BY <1>1, <2>1, <2>5, TakeHas DEF FileOK
    <3> QED
      BY <1>0, <1>1, <2>2, <2>3, <3>1 DEF CommandOK
  <2>6. CASE Head(up[AgentLeg]) \notin {"command", "file"}
    BY <1>0, <1>1, <2>1, <2>2, <2>3, <2>6 DEF CommandOK
  <2> QED
    BY <2>4, <2>5, <2>6
<1>3. CASE \E m \in Responses : agentSends(m)
  <2>1. agent # "idle" /\ agent' # "idle" /\ UNCHANGED <<up, fault>>
    BY <1>3 DEF agentSends
  <2> QED
    BY <1>0, <2>1 DEF CommandOK
<1>4. CASE UNCHANGED <<up, agent>> /\ main # "idle"
  BY <1>0, <1>4 DEF CommandOK
<1>5. CASE UNCHANGED <<up, agent, fault>>
  BY <1>0, <1>5 DEF CommandOK
<1> QED
  BY <1>2, <1>3, <1>4, <1>5
  DEF Environment, agentEnds, connectionBreaks, clientCloses, streamVars, agentVars, Typed, RunTyped, ClientPlaces

-----------------------------------------------------------------------------
(* The awaited file is in one place. *)

(* What taking a response from a leg, or adding one, does to it.             *)
LEMMA DownHas ==
  ASSUME Typed, NEW l \in Legs, NEW x
  PROVE  /\ down[l] # <<>> =>
              /\ Has(Tail(down[l]), x) => Has(down[l], x)
              /\ Head(down[l]) = x => Has(down[l], x)
              /\ Once(down[l], x) => Once(Tail(down[l]), x)
              /\ Once(down[l], x) /\ Head(down[l]) = x => ~Has(Tail(down[l]), x)
         /\ \A m \in Responses :
              /\ Has(Append(down[l], m), x) <=> Has(down[l], x) \/ m = x
              /\ Once(down[l], x) /\ (m = x => ~Has(down[l], x)) => Once(Append(down[l], m), x)
<1>1. down[l] \in Seq(Responses)
  BY DEF Typed, LegsTyped
<1>2. down[l] # <<>> =>
              /\ Has(Tail(down[l]), x) => Has(down[l], x)
              /\ Head(down[l]) = x => Has(down[l], x)
              /\ Once(down[l], x) => Once(Tail(down[l]), x)
              /\ Once(down[l], x) /\ Head(down[l]) = x => ~Has(Tail(down[l]), x)
  BY <1>1, TailHas
<1>3. \A m \in Responses :
              /\ Has(Append(down[l], m), x) <=> Has(down[l], x) \/ m = x
              /\ Once(down[l], x) /\ (m = x => ~Has(down[l], x)) => Once(Append(down[l], m), x)
  BY <1>1, AppendHas
<1> QED
  BY <1>2, <1>3

(* Neither a request for the file nor the file came up anywhere.             *)
LessFiles ==
  /\ \A l \in Legs : /\ Has(down'[l], "fileRequest") => Has(down[l], "fileRequest")
                     /\ Has(up'[l], "file") => Has(up[l], "file")
                     /\ Once(down'[l], "fileRequest") /\ Once(up'[l], "file")
  /\ rcv' = "sending" => rcv = "sending"
  /\ end'[AgentLeg'] = "ok" => agent' = "running"

(* Then it is still in one place at most.                                    *)
LEMMA FilesLess ==
  ASSUME FileOK, LessFiles, agent' = agent
  PROVE  FileOK'
<1>1. /\ Has(down'["agent"], "fileRequest") => Has(down["agent"], "fileRequest")
      /\ Has(down'["client"], "fileRequest") => Has(down["client"], "fileRequest")
      /\ Has(up'["agent"], "file") => Has(up["agent"], "file")
      /\ Has(up'["client"], "file") => Has(up["client"], "file")
      /\ rcv' = "sending" => rcv = "sending"
  BY DEF LessFiles, Legs
<1>2. /\ \A l \in Legs : Once(down'[l], "fileRequest") /\ Once(up'[l], "file")
      /\ end'[AgentLeg'] = "ok" => agent' = "running"
  BY DEF LessFiles
<1> QED
  BY <1>1, <1>2 DEF FileOK

(* The receive routine answers a request with the file.                      *)
LEMMA ClientFile ==
  ASSUME Typed, FileOK, Client
  PROVE  FileOK'
<1>0. /\ UNCHANGED <<agent, end, viaServer>> /\ up'["agent"] = up["agent"] /\ down'["agent"] = down["agent"]
      /\ AgentLeg' = AgentLeg
  BY ClientFrame DEF AgentLeg
<1>1. /\ "client" \in Legs /\ "agent" \in Legs /\ Legs = {"client", "agent"}
      /\ down \in [Legs -> Seq(Responses)] /\ up \in [Legs -> Seq(Requests)]
  BY DEF Legs, Typed, LegsTyped
<1>2. CASE rcvShows \/ rcvFileFails
  <2>1. /\ down["client"] # <<>> /\ down'["client"] = Tail(down["client"]) /\ up' = up /\ rcv' # "sending"
    BY <1>1, <1>2 DEF rcvShows, rcvFileFails, Receives, Take, Post, Return
  <2>3. Once(down["client"], "fileRequest")
    BY <1>1 DEF FileOK
  <2>4. (Has(down'["client"], "fileRequest") => Has(down["client"], "fileRequest")) /\ Once(down'["client"], "fileRequest")
    BY <1>1, <2>1, <2>3, DownHas
  <2>2. LessFiles
    BY <1>0, <1>1, <2>1, <2>4 DEF LessFiles, FileOK
  <2> QED
    BY <1>0, <2>2, FilesLess
<1>3. CASE rcvFileRequest
  <2>1. /\ down["client"] # <<>> /\ Head(down["client"]) = "fileRequest" /\ down'["client"] = Tail(down["client"])
        /\ up' = up /\ rcv = "receive" /\ rcv' = "sending"
    BY <1>1, <1>3 DEF rcvFileRequest, Receives, Take
  <2>2. Once(down["client"], "fileRequest")
    BY <1>1 DEF FileOK
  <2>3. /\ Has(down["client"], "fileRequest") /\ ~Has(down'["client"], "fileRequest")
        /\ Once(down'["client"], "fileRequest")
    BY <1>1, <2>1, <2>2, DownHas
  <2> QED
    BY <1>0, <1>1, <2>1, <2>3 DEF FileOK
<1>4. CASE rcvSendsFile
  <2>1. PICK m \in Requests : Put("client", m) /\ rcv = "sending" /\ rcv' = "receive" /\ down' = down
    BY <1>4 DEF rcvSendsFile, Sent, Requests
  <2>2. /\ agent = "awaiting" /\ ~Has(up["client"], "file") /\ ~Has(up["agent"], "file")
        /\ ~Has(down["client"], "fileRequest") /\ ~Has(down["agent"], "fileRequest")
        /\ Once(up["client"], "file")
    BY <1>1, <2>1 DEF FileOK
  <2>3. Once(up'["client"], "file")
    BY <2>1, <2>2, PutHas
  <2> QED
    BY <1>0, <1>1, <2>1, <2>2, <2>3 DEF FileOK
<1>5. CASE runRPC \/ sndSends
  <2>1. /\ \/ up' = up
           \/ \E m \in Requests \ {"file"} : Put("client", m)
        /\ rcv' = "sending" => rcv = "sending"
        /\ down' = down
    BY <1>5 DEF runRPC, Return, sndSends, Sent, Requests
  <2>2. (Has(up'["client"], "file") => Has(up["client"], "file")) /\ Once(up'["client"], "file")
    <3>1. CASE up' = up
      BY <1>1, <3>1 DEF FileOK
    <3>2. CASE \E m \in Requests \ {"file"} : Put("client", m)
      BY <1>1, <3>2, PutHas DEF FileOK
    <3> QED
      BY <2>1, <3>1, <3>2
  <2>3. LessFiles
    BY <1>0, <1>1, <2>1, <2>2 DEF LessFiles, FileOK
  <2> QED
    BY <1>0, <2>3, FilesLess
<1>6. CASE selectDone \/ selectError \/ selectParks \/ runDone \/ signal \/ rcvSendFails \/ rcvEnds \/ rcvFails
           \/ sndReads \/ sndEnds \/ sndReadFails \/ sndFails
  <2>1. UNCHANGED <<up, down>> /\ (rcv' = "ended" \/ rcv' = rcv)
    BY <1>6 DEF selectDone, selectError, selectParks, runDone, signal, rcvSendFails, rcvEnds, rcvFails,
                sndReads, sndEnds, sndReadFails, sndFails, Post, Return, streamVars
  <2>2. LessFiles
    BY <1>0, <2>1 DEF LessFiles, FileOK
  <2> QED
    BY <1>0, <2>2, FilesLess
<1> QED
  BY <1>2, <1>3, <1>4, <1>5, <1>6 DEF Client, ClientMain, ReceiveRoutine, SendRoutine

(* The relay takes requests for the file, and the file, to the other leg.    *)
LEMMA RelayFile ==
  ASSUME Typed, FileOK, Relay
  PROVE  FileOK'
<1>0. UNCHANGED <<rcv, agent, viaServer>> /\ AgentLeg = "agent" /\ AgentLeg' = "agent" /\ end'["agent"] = end["agent"]
  BY RelayFrame, RelayAgentEnd DEF AgentLeg
<1>1. /\ "client" \in Legs /\ "agent" \in Legs /\ Legs = {"client", "agent"} /\ "command" \in Requests
      /\ down \in [Legs -> Seq(Responses)] /\ up \in [Legs -> Seq(Requests)]
  BY DEF Legs, Requests, Typed, LegsTyped
<1>2. /\ \A l \in Legs : Once(down[l], "fileRequest") /\ Once(up[l], "file")
      /\ end[AgentLeg] = "ok" => agent = "running"
  BY DEF FileOK
<1>3. CASE UNCHANGED <<up, down>>
  <2>1. LessFiles
    BY <1>0, <1>2, <1>3 DEF LessFiles
  <2> QED
    BY <1>0, <2>1, FilesLess
<1>4. CASE relayRoutes
  <2>1. /\ up["client"] # <<>> /\ down' = down
        /\ up'["client"] = Tail(up["client"]) /\ up'["agent"] = Append(up["agent"], "command")
    BY <1>1, <1>4 DEF relayRoutes
  <2>2. (Has(up'["client"], "file") => Has(up["client"], "file")) /\ Once(up'["client"], "file")
    BY <1>1, <1>2, <2>1, TakeHas
  <2>3. (Has(up'["agent"], "file") => Has(up["agent"], "file")) /\ Once(up'["agent"], "file")
    BY <1>1, <1>2, <2>1, AddHas
  <2>4. LessFiles
    BY <1>0, <1>1, <1>2, <2>1, <2>2, <2>3 DEF LessFiles
  <2> QED
    BY <1>0, <2>4, FilesLess
<1>5. CASE upSendFails
  <2>1. up["client"] # <<>> /\ down' = down /\ up'["client"] = Tail(up["client"]) /\ up'["agent"] = up["agent"]
    BY <1>1, <1>5 DEF upSendFails
  <2>2. (Has(up'["client"], "file") => Has(up["client"], "file")) /\ Once(up'["client"], "file")
    BY <1>1, <1>2, <2>1, TakeHas
  <2>3. LessFiles
    BY <1>0, <1>1, <1>2, <2>1, <2>2 DEF LessFiles
  <2> QED
    BY <1>0, <2>3, FilesLess
<1>6. CASE downSendFails
  <2>1. down["agent"] # <<>> /\ up' = up /\ down'["agent"] = Tail(down["agent"]) /\ down'["client"] = down["client"]
    BY <1>1, <1>6 DEF downSendFails
  <2>2. (Has(down'["agent"], "fileRequest") => Has(down["agent"], "fileRequest")) /\ Once(down'["agent"], "fileRequest")
    BY <1>1, <1>2, <2>1, DownHas
  <2>3. LessFiles
    BY <1>0, <1>1, <1>2, <2>1, <2>2 DEF LessFiles
  <2> QED
    BY <1>0, <2>3, FilesLess
<1>7. CASE downForwards
  <2>1. /\ down["agent"] # <<>> /\ up' = up /\ down'["agent"] = Tail(down["agent"])
        /\ down'["client"] = Append(down["client"], Head(down["agent"]))
    BY <1>1, <1>7 DEF downForwards
  <2>2. PICK m \in Responses : m = Head(down["agent"])
    BY <1>1, <2>1, TakeTyped
  <2>3. /\ Has(down'["agent"], "fileRequest") => Has(down["agent"], "fileRequest")
        /\ Once(down'["agent"], "fileRequest")
        /\ m = "fileRequest" => Has(down["agent"], "fileRequest") /\ ~Has(down'["agent"], "fileRequest")
    BY <1>1, <1>2, <2>1, <2>2, DownHas
  <2>4. m = "fileRequest" => ~Has(down["client"], "fileRequest")
    BY <2>3 DEF FileOK
  <2>5. /\ Has(Append(down["client"], m), "fileRequest") <=> Has(down["client"], "fileRequest") \/ m = "fileRequest"
        /\ Once(Append(down["client"], m), "fileRequest")
    BY <1>1, <1>2, <2>4, DownHas
  <2>6. /\ Has(down'["client"], "fileRequest") => Has(down["client"], "fileRequest") \/ m = "fileRequest"
        /\ Once(down'["client"], "fileRequest")
    BY <2>1, <2>2, <2>5
  <2>7. CASE m = "fileRequest"
    BY <1>0, <1>1, <1>2, <2>1, <2>3, <2>6, <2>7 DEF FileOK
  <2>8. CASE m # "fileRequest"
    <3>1. LessFiles
      BY <1>0, <1>1, <1>2, <2>1, <2>3, <2>6, <2>8 DEF LessFiles
    <3> QED
      BY <1>0, <3>1, FilesLess
  <2> QED
    BY <2>7, <2>8
<1>8. CASE upForwards
  <2>1. /\ up["client"] # <<>> /\ down' = down /\ up'["client"] = Tail(up["client"])
        /\ up'["agent"] = up["agent"] \/ up'["agent"] = Append(up["agent"], Head(up["client"]))
    BY <1>1, <1>8 DEF upForwards
  <2>2. PICK m \in Requests : m = Head(up["client"])
    BY <1>1, <2>1, TakeTyped
  <2>3. /\ Has(up'["client"], "file") => Has(up["client"], "file")
        /\ Once(up'["client"], "file")
        /\ m = "file" => Has(up["client"], "file") /\ ~Has(up'["client"], "file")
    BY <1>1, <1>2, <2>1, <2>2, TakeHas
  <2>4. m = "file" => ~Has(up["agent"], "file")
    BY <2>3 DEF FileOK
  <2>5. /\ Has(Append(up["agent"], m), "file") <=> Has(up["agent"], "file") \/ m = "file"
        /\ Once(Append(up["agent"], m), "file")
    BY <1>1, <1>2, <2>4, AddHas
  <2>6. /\ Has(up'["agent"], "file") => Has(up["agent"], "file") \/ m = "file"
        /\ Once(up'["agent"], "file")
    BY <1>1, <1>2, <2>1, <2>2, <2>5
  <2>7. CASE m = "file"
    BY <1>0, <1>1, <1>2, <2>1, <2>3, <2>6, <2>7 DEF FileOK
  <2>8. CASE m # "file"
    <3>1. LessFiles
      BY <1>0, <1>1, <1>2, <2>1, <2>3, <2>6, <2>8 DEF LessFiles
    <3> QED
      BY <1>0, <3>1, FilesLess
  <2> QED
    BY <2>7, <2>8
<1> QED
  BY <1>3, <1>4, <1>5, <1>6, <1>7, <1>8
  DEF Relay, ForwardDown, ForwardUp, relayRejects, selectRelay, downRefuses, downEnds, downFails, upEnds, upFails

(* The agent asks for a file only when it awaits none.                       *)
LEMMA EnvironmentFile ==
  ASSUME Typed, CommandOK, FileOK, Environment
  PROVE  FileOK'
<1>0. UNCHANGED <<rcv, viaServer>> /\ AgentLeg' = AgentLeg /\ AgentLeg \in {"client", "agent"}
  BY EnvironmentFrame DEF AgentLeg
<1>1. /\ AgentLeg \in Legs /\ Legs = {"client", "agent"} /\ down \in [Legs -> Seq(Responses)]
      /\ up \in [Legs -> Seq(Requests)]
      /\ end \in [Legs -> {"open", "ok", "canceled", "failed"}]
  BY DEF AgentLeg, Legs, Typed, LegsTyped
<1>2. /\ \A l \in Legs : Once(down[l], "fileRequest") /\ Once(up[l], "file")
      /\ end[AgentLeg] = "ok" => agent = "running"
  BY DEF FileOK
<1>3. CASE agentReceives
  <2>1. /\ up[AgentLeg] # <<>> /\ end[AgentLeg] = "open" /\ end'[AgentLeg] \in {"open", "failed"} /\ down' = down
        /\ up'[AgentLeg] = Tail(up[AgentLeg]) /\ (\A l \in Legs : l # AgentLeg => up'[l] = up[l])
        /\ agent' = IF Head(up[AgentLeg]) \in {"command", "file"} THEN "running" ELSE agent
    BY <1>1, <1>3 DEF agentReceives
  <2>2. \A l \in Legs : (Has(up'[l], "file") => Has(up[l], "file")) /\ Once(up'[l], "file")
    BY <1>1, <1>2, <2>1, TakeHas
  <2>3. LessFiles
    BY <1>0, <1>1, <1>2, <2>1, <2>2 DEF LessFiles
  <2>4. CASE Head(up[AgentLeg]) = "command"
    <3>1. agent = "idle"
      BY <1>0, <1>1, <2>1, <2>4, TakeHas DEF CommandOK
    <3> QED
      BY <1>0, <1>1, <2>1, <2>2, <3>1 DEF FileOK, LessFiles
  <2>5. CASE Head(up[AgentLeg]) = "file"
    <3>1. Has(up[AgentLeg], "file") /\ ~Has(up'[AgentLeg], "file")
      BY <1>1, <1>2, <2>1, <2>5, TakeHas
    <3>2. ~viaServer => ~Has(up["agent"], "file")
      BY EmptyHas DEF Typed, RelayTyped, RelayPlaces
    <3>3. ~Has(up'["client"], "file") /\ ~Has(up'["agent"], "file")
      BY <1>0, <1>1, <2>2, <3>1, <3>2 DEF FileOK, AgentLeg
    <3>4. ~Has(down["client"], "fileRequest") /\ ~Has(down["agent"], "fileRequest") /\ rcv # "sending"
      BY <1>0, <3>1 DEF FileOK
    <3> QED
      BY <1>0, <1>1, <1>2, <2>1, <2>2, <3>3, <3>4 DEF FileOK
  <2>6. CASE Head(up[AgentLeg]) \notin {"command", "file"}
    BY <2>1, <2>3, <2>6, FilesLess
  <2> QED
    BY <2>4, <2>5, <2>6
<1>4. CASE \E m \in Responses : agentSends(m)
  <2>1. PICK m \in Responses : agentSends(m)
    BY <1>4
  <2>2. /\ end[AgentLeg] = "open" /\ UNCHANGED <<up, end>>
        /\ down'[AgentLeg] = Append(down[AgentLeg], m) /\ (\A l \in Legs : l # AgentLeg => down'[l] = down[l])
        /\ m = "fileRequest" => agent = "running" /\ agent' = "awaiting"
        /\ m # "fileRequest" => agent' = agent
    BY <1>1, <2>1 DEF agentSends
  <2>3. CASE m = "fileRequest"
    <3>1. /\ \A l \in Legs : ~Has(down[l], "fileRequest") /\ ~Has(up[l], "file")
          /\ rcv # "sending"
      BY <1>1, <2>2, <2>3 DEF FileOK
    <3>2. Once(down'[AgentLeg], "fileRequest")
      BY <1>1, <1>2, <2>2, <3>1, DownHas
    <3>3. \A l \in Legs : Once(down'[l], "fileRequest") /\ (l # AgentLeg => ~Has(down'[l], "fileRequest"))
      BY <1>2, <2>2, <3>1, <3>2
    <3>4. ~(Has(down'["client"], "fileRequest") /\ Has(down'["agent"], "fileRequest"))
      BY <1>0, <1>1, <3>3
    <3> QED
      BY <1>0, <1>1, <1>2, <2>2, <2>3, <3>1, <3>3, <3>4 DEF FileOK
  <2>4. CASE m # "fileRequest"
    <3>1. (Has(down'[AgentLeg], "fileRequest") => Has(down[AgentLeg], "fileRequest")) /\ Once(down'[AgentLeg], "fileRequest")
      BY <1>1, <1>2, <2>2, <2>4, DownHas
    <3>2. LessFiles
      BY <1>0, <1>1, <1>2, <2>2, <3>1 DEF LessFiles
    <3> QED
      BY <2>2, <2>4, <3>2, FilesLess
  <2> QED
    BY <2>3, <2>4
<1>5. CASE \E status \in {"ok", "failed", "canceled"} : agentEnds(status)
  <2>1. UNCHANGED <<up, down, agent>> /\ (end'[AgentLeg] = "ok" => agent = "running")
    BY <1>1, <1>5 DEF agentEnds, agentVars
  <2>2. LessFiles
    BY <1>0, <1>2, <2>1 DEF LessFiles
  <2> QED
    BY <2>1, <2>2, FilesLess
<1>6. CASE \E leg \in Legs : connectionBreaks(leg)
  <2>1. PICK leg \in Legs : connectionBreaks(leg)
    BY <1>6
  <2>2. /\ UNCHANGED <<up, agent>> /\ (end'[AgentLeg] = "ok" => end[AgentLeg] = "ok")
        /\ \A l \in Legs : down'[l] = down[l] \/ down'[l] = <<>>
    BY <1>1, <2>1 DEF connectionBreaks, agentVars
  <2>3. LessFiles
    BY <1>0, <1>2, <2>2, EmptyHas DEF LessFiles
  <2> QED
    BY <2>2, <2>3, FilesLess
<1>7. CASE clientCloses
  <2>1. LessFiles /\ agent' = agent
    BY <1>0, <1>2, <1>7 DEF LessFiles, clientCloses, streamVars, agentVars
  <2> QED
    BY <2>1, FilesLess
<1> QED
  BY <1>3, <1>4, <1>5, <1>6, <1>7 DEF Environment

-----------------------------------------------------------------------------
(* Failures have a reason. *)

(* The three parts of ReasonOK.                                              *)
NothingTyped == \A l \in Legs : ~Has(up[l], "stdin") /\ ~Has(up[l], "garbled")
LegsAgree ==
  viaServer /\ ~runCancelled =>
    /\ end["client"] # "open" => end["agent"] # "open"
    /\ end["client"] \in Bad => end["agent"] \in Bad
    /\ relay = "starting" /\ relayErr # <<>> => end["agent"] \in Bad
Failing == result \in {"receive", "send"} \/ Has(errChan, "receive") \/ Has(errChan, "send")

(* ReasonOK is made of them.                                                 *)
LEMMA ReasonParts ==
  ReasonOK <=> (Calm => NothingTyped /\ LegsAgree /\ (Failing => end[AgentLeg] \in Bad \/ NeverStarted))
BY DEF ReasonOK, NothingTyped, LegsAgree, Failing

(* A routine posts an error that has a reason.                               *)
LEMMA PostReason ==
  ASSUME Typed, NEW who \in {"rcv", "snd"}, NEW e \in Errors, Post(who, e), Running,
         Failing => end[AgentLeg] \in Bad, e \in {"receive", "send"} => end[AgentLeg] \in Bad
  PROVE  Failing' => end[AgentLeg] \in Bad
<1>1. result = "none" /\ errChan \in Seq(Errors)
  BY DEF Running, Typed, RunTyped, ClientPlaces
<1>2. CASE main = "parked"
  <2>1. result' = e /\ errChan' = <<>>
    BY <1>2 DEF Post, Return
  <2> QED
    BY <2>1, EmptyHas DEF Failing
<1>3. CASE main # "parked"
  <2>1. result' = "none" /\ errChan' = Append(errChan, e)
    BY <1>1, <1>3 DEF Post
  <2>2. \A x : Has(errChan', x) <=> Has(errChan, x) \/ e = x
    BY <1>1, <2>1, AppendHas
  <2> QED
    BY <2>1, <2>2 DEF Failing
<1> QED
  BY <1>2, <1>3

(* The client's own failures have a reason.                                  *)
LEMMA ClientReason ==
  ASSUME Typed, FileOK, CommandOK, ReasonOK, Client
  PROVE  ReasonOK'
<1>0. /\ UNCHANGED <<end, relay, relayErr, viaServer, fault, agent>> /\ up'["agent"] = up["agent"]
      /\ (runCancelled => runCancelled') /\ (signalled => signalled') /\ typed' >= typed /\ typed \in Nat
      /\ AgentLeg' = AgentLeg
  BY ClientFrame, MaxStdinAssumption DEF Typed, RunTyped, AgentLeg
<1>1. SUFFICES ASSUME Calm'
               PROVE  NothingTyped' /\ LegsAgree' /\ (Failing' => end[AgentLeg] \in Bad \/ NeverStarted')
  <2>1. ReasonOK' <=> (Calm' => NothingTyped' /\ LegsAgree' /\ (Failing' => end'[AgentLeg'] \in Bad \/ NeverStarted'))
    BY <1>0 DEF ReasonOK, NothingTyped, LegsAgree, Failing
  <2> QED
    BY <1>0, <1>1, <2>1
<1>2. Calm /\ fault = "none" /\ ~signalled /\ typed = 0
  BY <1>0, <1>1 DEF Calm, Typed, RunTyped
<1>3. NothingTyped /\ LegsAgree /\ (Failing => end[AgentLeg] \in Bad \/ NeverStarted)
  BY <1>2, ReasonParts
<1>4. LegsAgree'
  BY <1>0, <1>3 DEF LegsAgree
<1>5. main # "returned" /\ snd # "sending" /\ result = "none"
  <2>1. main # "returned"
    BY DEF Client, ClientMain, ReceiveRoutine, SendRoutine, selectDone, selectError,
         selectParks, runDone, signal, rcvSendFails, rcvEnds, rcvFails, sndReads, sndEnds,
         sndReadFails, sndFails, runRPC, rcvShows, rcvFileRequest, rcvFileFails, rcvSendsFile,
         sndSends, Receives, Running
  <2> QED
    BY <1>2, <2>1 DEF Typed, RunTyped, ClientPlaces
<1>6. Failing => end[AgentLeg] \in Bad
  BY <1>3, <1>5 DEF NeverStarted
<1>7. NothingTyped'
  <2>1. CASE up' = up
    BY <1>3, <2>1 DEF NothingTyped
  <2>2. CASE \E m \in {"command", "file"} : Put("client", m)
    <3>1. ~Has(up'["client"], "stdin") /\ ~Has(up'["client"], "garbled")
      BY <1>3, <2>2, PutHas DEF NothingTyped, Legs, Requests
    <3> QED
      BY <1>0, <1>3, <3>1 DEF NothingTyped, Legs
  <2> QED
    BY <1>5, <2>1, <2>2
    DEF Client, ClientMain, ReceiveRoutine, SendRoutine, selectDone, selectError,
         selectParks, runDone, signal, rcvSendFails, rcvEnds, rcvFails, sndReads, sndEnds,
         sndReadFails, sndFails, runRPC, rcvShows, rcvFileRequest, rcvFileFails, rcvSendsFile,
         sndSends, Sent, streamVars
<1>8. rcv # "ended" => ~runCancelled
  BY <1>2 DEF Typed, RunTyped, ClientPlaces
<1>9. Failing' => end[AgentLeg] \in Bad \/ NeverStarted'
  <2>1. CASE runRPC
    <3>1. main = "idle" /\ (up' = up \/ UNCHANGED <<result, errChan>>)
      BY <2>1 DEF runRPC
    <3>2. agent = "idle" /\ up["client"] = <<>> /\ up["agent"] = <<>> /\ errChan = <<>>
      BY <3>1 DEF CommandOK, Typed, RunTyped, ClientPlaces
    <3>3. CASE UNCHANGED <<result, errChan>>
      BY <1>6, <3>3 DEF Failing
    <3>4. CASE Return("send") /\ up' = up
      BY <1>0, <3>2, <3>4 DEF Return, NeverStarted
    <3> QED
      BY <2>1, <3>3, <3>4 DEF runRPC
  <2>2. CASE selectError
    <3>1. errChan # <<>> /\ result' = Head(errChan) /\ errChan' = <<>>
      BY <2>2 DEF selectError, Return
    <3>2. Has(errChan, Head(errChan))
      BY <3>1, TailHas DEF Typed, RunTyped
    <3>3. result' \in {"receive", "send"} => Failing
      BY <3>1, <3>2 DEF Failing
    <3> QED
      BY <1>6, <3>1, <3>3, EmptyHas DEF Failing
  <2>3. CASE runDone
    <3>1. result' \in {"ok", "interrupted"} /\ errChan' = <<>>
      BY <2>3 DEF runDone, Return
    <3> QED
      BY <3>1, EmptyHas DEF Failing
  <2>4. CASE UNCHANGED <<result, errChan>>
    BY <1>6, <2>4 DEF Failing
  <2>5. CASE rcvFileFails
    BY <1>6, <2>5, PostReason DEF rcvFileFails, Receives, Errors
  <2>6. CASE rcvSendFails
    <3>1. rcv = "sending" /\ SendMayFail("client", runCancelled) /\ Post("rcv", "send") /\ Running
      BY <2>6 DEF rcvSendFails
    <3>2. end["client"] # "open" /\ agent = "awaiting"
      BY <1>8, <3>1 DEF SendMayFail, FileOK
    <3>3. end[AgentLeg] \notin {"open", "ok"}
      BY <1>3, <1>8, <3>1, <3>2 DEF LegsAgree, FileOK, AgentLeg
    <3>4. end[AgentLeg] \in Bad
      BY <3>3 DEF AgentLeg, Typed, LegsTyped, Legs, Bad
    <3> QED
      BY <1>6, <3>1, <3>4, PostReason DEF Errors
  <2>7. CASE rcvFails
    <3>1. rcv = "receive" /\ end["client"] = "failed" /\ Post("rcv", "receive") /\ Running
      BY <2>7 DEF rcvFails
    <3>2. end[AgentLeg] \in Bad
      BY <1>3, <1>8, <3>1 DEF LegsAgree, AgentLeg, Bad
    <3> QED
      BY <1>6, <3>1, <3>2, PostReason DEF Errors
  <2>8. CASE sndReadFails
    BY <1>6, <2>8, PostReason DEF sndReadFails, Errors
  <2>9. CASE sndFails
    BY <1>5, <2>9 DEF sndFails
  <2> QED
    BY <2>1, <2>2, <2>3, <2>4, <2>5, <2>6, <2>7, <2>8, <2>9
    DEF Client, ClientMain, ReceiveRoutine, SendRoutine, selectDone, selectParks, signal, CancelRun, rcvEnds,
        sndReads, sndEnds, rcvShows, rcvFileRequest, rcvSendsFile, sndSends, runVars
<1> QED
  BY <1>4, <1>7, <1>9

(* While the handler waits, what the client still sends is the file.         *)
LEMMA UpIsFile ==
  ASSUME Typed, CommandOK, FileOK, NothingTyped, up["client"] # <<>>, relay \in {"starting", "parked"}, viaServer
  PROVE  end["agent"] # "ok" /\ Head(up["client"]) # "garbled"
<1>1. "client" \in Legs /\ up["client"] \in Seq(Requests)
  BY DEF Legs, Typed, LegsTyped
<1>2. Head(up["client"]) \in Requests /\ Has(up["client"], Head(up["client"]))
  BY <1>1, TakeTyped, TakeHas
<1>3. Head(up["client"]) = "file"
  BY <1>1, <1>2 DEF Requests, NothingTyped, CommandOK
<1>4. Has(up["client"], "file")
  BY <1>2, <1>3
<1> QED
  BY <1>3, <1>4 DEF FileOK, AgentLeg

(* The relay passes on only what the agent's leg says.                       *)
LEMMA RelayLegsAgree ==
  ASSUME Typed, CancelsOK, CommandOK, FileOK, NothingTyped, LegsAgree, Relay, fault = "none", fault' = "none"
  PROVE  LegsAgree'
<1>0. UNCHANGED <<runCancelled>> /\ viaServer /\ viaServer' /\ end'["agent"] = end["agent"]
  BY RelayFrame, RelayAgentEnd
<1>1. SUFFICES ASSUME ~runCancelled
               PROVE  /\ end'["client"] # "open" => end["agent"] # "open"
                      /\ end'["client"] \in Bad => end["agent"] \in Bad
                      /\ relay' = "starting" /\ relayErr' # <<>> => end["agent"] \in Bad
  BY <1>0 DEF LegsAgree
<1>2. /\ end["client"] # "open" => end["agent"] # "open"
      /\ end["client"] \in Bad => end["agent"] \in Bad
      /\ relay = "starting" /\ relayErr # <<>> => end["agent"] \in Bad
  BY <1>0, <1>1 DEF LegsAgree
<1>3. /\ relay = "idle" => relayErr = <<>>
      /\ relay = "parked" => ~relayCancelled
      /\ relay # "returned" => end["client"] \in {"open", "failed"}
      /\ relay = "starting" /\ relayCancelled /\ relayErr = <<>> => Forwarded
      /\ relay \in {"idle", "starting", "parked", "returned"}
      /\ fwdDown = "forward" \/ fwdUp = "forward" => relay # "idle"
  BY <1>0 DEF Typed, RelayTyped, RelayPlaces, CancelsOK
<1>4. "ok" \notin Bad /\ "open" \notin Bad /\ end["agent"] \in {"open", "ok"} \cup Bad
  BY DEF Bad, Typed, LegsTyped, Legs
<1>5. ~Gone("client")
  BY <1>1 DEF Gone
<1>6. CASE relayRoutes
  BY <1>2, <1>3, <1>6 DEF relayRoutes
<1>7. CASE relayRejects \/ downRefuses
  BY <1>7 DEF relayRejects, downRefuses
<1>8. CASE selectRelay
  <2>1. CASE relay' = "parked"
    BY <1>2, <1>8, <2>1 DEF selectRelay, Finish
  <2>2. CASE relay' = "returned"
    <3>1. \/ relayCancelled /\ Finish("ok")
          \/ relayErr # <<>> /\ Finish(Head(relayErr))
      BY <1>8, <2>2 DEF selectRelay
    <3>2. CASE relayErr # <<>>
      BY <1>2, <1>4, <1>8, <2>2, <3>2 DEF selectRelay
    <3>3. CASE relayErr = <<>>
      <4>1. relayCancelled /\ Finish("ok") /\ relay = "starting"
        BY <1>8, <3>1, <3>3 DEF selectRelay
      <4>2. end["agent"] = "ok"
        BY <1>3, <3>3, <4>1 DEF Forwarded
      <4>3. end'["client"] \in {"ok", end["client"]}
        BY <4>1 DEF Finish, Typed, LegsTyped, Legs
      <4> QED
        BY <1>2, <1>4, <2>2, <4>2, <4>3
    <3> QED
      BY <3>2, <3>3
  <2> QED
    BY <1>8, <2>1, <2>2 DEF selectRelay, Finish
<1>9. CASE downForwards \/ upForwards
  BY <1>2, <1>9 DEF downForwards, upForwards
<1>10. CASE downSendFails
  <2>1. PostRelay("failed") /\ "failed" \in Bad /\ relay = "returned"
    BY <1>5, <1>10 DEF downSendFails, Bad
  <2> QED
    BY <1>2, <2>1, PostEffect
<1>11. CASE upFails
  <2>1. PICK s \in Bad : PostRelay(s)
    BY <1>11 DEF upFails, Bad
  <2>2. relay = "returned"
    BY <1>0, <1>3, <1>5, <1>11, UpIsFile DEF upFails
  <2> QED
    BY <1>2, <2>1, <2>2, PostEffect
<1>12. CASE downEnds
  <2>1. CancelRelay /\ (relayCancelled \/ end["agent"] = "ok")
    BY <1>12 DEF downEnds
  <2> QED
    BY <1>2, <1>3, <1>4, <2>1, CancelEffect
<1>13. CASE upEnds
  <2>1. CancelRelay /\ relayCancelled
    BY <1>13 DEF upEnds
  <2> QED
    BY <1>2, <1>3, <2>1, CancelEffect
<1>14. CASE downFails
  <2>1. PICK s \in Bad : PostRelay(s) /\ fwdDown = "forward" /\ (relayCancelled \/ end["agent"] \in Bad)
    BY <1>14 DEF downFails, Bad
  <2>2. relay \in {"starting", "parked"} => end["agent"] \in Bad
    BY <1>2, <1>3, <2>1 DEF Forwarded
  <2> QED
    BY <1>2, <1>3, <1>4, <2>1, <2>2, PostEffect
<1>15. CASE upSendFails
  <2>1. PostRelay("failed") /\ "failed" \in Bad /\ up["client"] # <<>> /\ (end["agent"] # "open" \/ relayCancelled)
        /\ fwdUp = "forward"
    BY <1>15 DEF upSendFails, SendMayFail, Bad
  <2>2. relay \in {"starting", "parked"} => end["agent"] # "ok"
    BY <1>0, <2>1, UpIsFile
  <2>3. relay \in {"starting", "parked"} => end["agent"] \in Bad
    BY <1>2, <1>3, <1>4, <2>1, <2>2 DEF Forwarded
  <2> QED
    BY <1>2, <1>3, <1>4, <2>1, <2>3, PostEffect
<1> QED
  BY <1>6, <1>7, <1>8, <1>9, <1>10, <1>11, <1>12, <1>13, <1>14, <1>15 DEF Relay, ForwardDown, ForwardUp

(* The relay's failures have a reason.                                       *)
LEMMA RelayReason ==
  ASSUME Typed, CancelsOK, CommandOK, FileOK, ReasonOK, Relay
  PROVE  ReasonOK'
<1>0. /\ UNCHANGED <<main, result, errChan, signalled, typed, agent, viaServer>> /\ AgentLeg = "agent" /\ AgentLeg' = "agent"
      /\ (fault' = fault \/ (fault = "none" /\ fault' = "request")) /\ end'["agent"] = end["agent"]
  BY RelayFrame, RelayAgentEnd DEF AgentLeg
<1>1. SUFFICES ASSUME Calm'
               PROVE  NothingTyped' /\ LegsAgree' /\ (Failing' => end["agent"] \in Bad \/ NeverStarted')
  <2>1. ReasonOK' <=> (Calm' => NothingTyped' /\ LegsAgree' /\ (Failing' => end'[AgentLeg'] \in Bad \/ NeverStarted'))
    BY DEF ReasonOK, NothingTyped, LegsAgree, Failing
  <2> QED
    BY <1>0, <1>1, <2>1
<1>2. Calm /\ fault = "none" /\ fault' = "none"
  BY <1>0, <1>1 DEF Calm
<1>3. NothingTyped /\ LegsAgree /\ (Failing => end["agent"] \in Bad \/ NeverStarted)
  BY <1>0, <1>2, ReasonParts
<1>4. LegsAgree'
  BY <1>2, <1>3, RelayLegsAgree
<1>5. /\ "client" \in Legs /\ "agent" \in Legs /\ Legs = {"client", "agent"} /\ "command" \in Requests
      /\ up \in [Legs -> Seq(Requests)]
  BY DEF Legs, Requests, Typed, LegsTyped
<1>6. /\ up'["client"] = up["client"] \/ (up["client"] # <<>> /\ up'["client"] = Tail(up["client"]))
      /\ \/ up'["agent"] = up["agent"]
         \/ up["client"] # <<>> /\ up'["agent"] = Append(up["agent"], Head(up["client"]))
  BY <1>5 DEF Relay, ForwardDown, ForwardUp, relayRoutes, relayRejects, selectRelay, downForwards, downRefuses,
         downSendFails, downEnds, downFails, upForwards, upSendFails, upEnds, upFails
<1>7. \A x \in {"stdin", "garbled"} : ~Has(up["client"], x) /\ ~Has(up["agent"], x)
  BY <1>3, <1>5 DEF NothingTyped
<1>8. ASSUME NEW x \in {"stdin", "garbled"} PROVE ~Has(up'["client"], x) /\ ~Has(up'["agent"], x)
  <2>1. ~Has(up'["client"], x)
    BY <1>5, <1>6, <1>7, TakeHas
  <2>2. CASE up["client"] # <<>>
    <3>1. PICK m \in Requests : m = Head(up["client"])
      BY <1>5, <2>2, TakeTyped
    <3>2. m # x
      BY <1>5, <1>7, <2>2, <3>1, TakeHas
    <3>3. ~Has(Append(up["agent"], m), x)
      BY <1>5, <1>7, <3>2, AddHas
    <3> QED
      BY <1>6, <1>7, <2>1, <3>1, <3>3
  <2> QED
    BY <1>6, <1>7, <2>1, <2>2
<1>9. NothingTyped'
  BY <1>5, <1>8 DEF NothingTyped
<1>10. NeverStarted => NeverStarted'
  BY <1>0, <1>6 DEF NeverStarted
<1> QED
  BY <1>0, <1>3, <1>4, <1>9, <1>10 DEF Failing

(* The agent's end is a reason that stays.                                   *)
LEMMA EnvironmentReason ==
  ASSUME Typed, ReasonOK, Environment
  PROVE  ReasonOK'
<1>0. /\ UNCHANGED <<main, result, errChan, signalled, typed, viaServer, runCancelled, relay, relayErr>>
      /\ AgentLeg' = AgentLeg /\ AgentLeg \in Legs
      /\ (fault' = fault \/ (fault = "none" /\ fault' # "none"))
  BY EnvironmentFrame DEF AgentLeg, Legs
<1>1. SUFFICES ASSUME Calm'
               PROVE  NothingTyped' /\ LegsAgree' /\ (Failing' => end'[AgentLeg] \in Bad \/ NeverStarted')
  <2>1. ReasonOK' <=> (Calm' => NothingTyped' /\ LegsAgree' /\ (Failing' => end'[AgentLeg'] \in Bad \/ NeverStarted'))
    BY DEF ReasonOK, NothingTyped, LegsAgree, Failing
  <2> QED
    BY <1>0, <1>1, <2>1
<1>2. Calm /\ fault = "none" /\ fault' = "none"
  BY <1>0, <1>1 DEF Calm
<1>3. NothingTyped /\ LegsAgree /\ (Failing => end[AgentLeg] \in Bad \/ NeverStarted)
  BY <1>2, ReasonParts
<1>4. Failing' <=> Failing
  BY <1>0 DEF Failing
<1>5. Legs = {"client", "agent"} /\ up \in [Legs -> Seq(Requests)]
      /\ end \in [Legs -> {"open", "ok", "canceled", "failed"}]
  BY DEF Legs, Typed, LegsTyped
<1>6. CASE agentReceives
  <2>1. /\ up[AgentLeg] # <<>> /\ end[AgentLeg] = "open" /\ up'[AgentLeg] = Tail(up[AgentLeg])
        /\ \A l \in Legs : l # AgentLeg => up'[l] = up[l] /\ end'[l] = end[l]
    BY <1>0, <1>5, <1>6 DEF agentReceives
  <2>2. NothingTyped'
    BY <1>0, <1>3, <2>1, TakeHas DEF NothingTyped
  <2>3. ~NeverStarted /\ ~Failing
    BY <1>3, <2>1 DEF NeverStarted, AgentLeg, Bad
  <2>4. LegsAgree'
    BY <1>0, <1>3, <1>5, <2>1 DEF LegsAgree, AgentLeg, Bad
  <2> QED
    BY <1>4, <2>2, <2>3, <2>4
<1>7. CASE \E m \in Responses : agentSends(m)
  <2>1. UNCHANGED <<up, end>> /\ agent # "idle"
    BY <1>7 DEF agentSends
  <2> QED
    BY <1>0, <1>3, <1>4, <2>1 DEF NothingTyped, LegsAgree, NeverStarted
<1>8. CASE \E status \in {"ok", "failed", "canceled"} : agentEnds(status)
  <2>1. /\ UNCHANGED <<up, agent>> /\ end[AgentLeg] = "open" /\ agent # "idle"
        /\ \A l \in Legs : l # AgentLeg => end'[l] = end[l]
        /\ end'[AgentLeg] # "open"
    BY <1>0, <1>5, <1>8 DEF agentEnds, agentVars
  <2>2. ~Failing
    BY <1>3, <2>1 DEF NeverStarted, Bad
  <2>3. LegsAgree'
    BY <1>0, <1>3, <1>5, <2>1 DEF LegsAgree, AgentLeg, Bad
  <2> QED
    BY <1>3, <1>4, <2>1, <2>2, <2>3 DEF NothingTyped
<1>9. CASE (\E leg \in Legs : connectionBreaks(leg)) \/ clientCloses
  BY <1>2, <1>9 DEF connectionBreaks, clientCloses, Legs
<1> QED
  BY <1>6, <1>7, <1>8, <1>9 DEF Environment

-----------------------------------------------------------------------------
(* The theorems. *)

(* The types and places are part of the inductive invariant.                 *)
LEMMA TypedIsPart ==
  (RelayTypeOK /\ RoomOK /\ ClientPlaces /\ RelayPlaces) <=> Typed
<1>1. ASSUME Typed PROVE RelayTypeOK /\ RoomOK /\ ClientPlaces /\ RelayPlaces
  <2>1. Len(errChan) <= 2 /\ Len(relayErr) <= 2
    BY <1>1 DEF Typed, RunTyped, RelayTyped, One
  <2>2. ClientTypeOK
    BY <1>1, <2>1 DEF Typed, RunTyped, LegsTyped, ClientTypeOK, Errors
  <2> QED
    BY <1>1, <2>1, <2>2 DEF Typed, RunTyped, RelayTyped, RelayTypeOK, RoomOK, Bad
<1>2. ASSUME RelayTypeOK, RoomOK, ClientPlaces, RelayPlaces PROVE Typed
  BY <1>2 DEF Typed, RunTyped, RelayTyped, LegsTyped, RelayTypeOK, ClientTypeOK, RoomOK, Bad, Errors
<1> QED
  BY <1>1, <1>2

(* The inductive invariant holds at the start.                               *)
LEMMA RelayInitInv == RelayInit => RelayIInv
<1> SUFFICES ASSUME RelayInit PROVE RelayIInv
  OBVIOUS
<1> USE DEF RelayInit, ClientInit, Legs
<1>1. up["client"] = <<>> /\ up["agent"] = <<>> /\ down["client"] = <<>> /\ down["agent"] = <<>>
      /\ end["client"] = "open" /\ end["agent"] = "open" /\ AgentLeg \in Legs
  BY DEF AgentLeg
<1>2. Typed
  <2>4. <<>> \in Seq(Errors) /\ <<>> \in Seq(Bad) /\ <<>> \in Seq(Responses) /\ Len(<<>>) = 0 /\ 0 \in 0 .. MaxStdin
    BY MaxStdinAssumption
  <2>5. \A b, c \in BOOLEAN : 0 <= One(b) + One(c)
    BY DEF One
  <2>6. Len(errChan) <= One(rcv = "ended") + One(snd = "ended")
    BY <2>4, <2>5
  <2>7. Len(relayErr) <= One(fwdDown = "ended") + One(fwdUp = "ended")
    BY <2>4, <2>5
  <2>1. RunTyped
    BY <2>4, <2>6 DEF RunTyped, ClientPlaces
  <2>2. LegsTyped
    BY DEF LegsTyped
  <2>3. RelayTyped
    BY <1>1, <2>4, <2>7 DEF RelayTyped, RelayPlaces
  <2> QED
    BY <2>1, <2>2, <2>3 DEF Typed
<1>3. CancelsOK
  BY <1>1 DEF CancelsOK
<1>4. FlowOK
  <2>1. hand = <<>>
    BY DEF hand
  <2>3. <<>> \in Seq(Responses)
    OBVIOUS
  <2>2. Flow(<<>>, <<>>, <<>>, <<>>) = <<>>
    BY <2>3, FlowAll
  <2> QED
    BY <1>1, <2>1, <2>2 DEF FlowOK
<1>5. DoneOK
  BY DEF DoneOK
<1>6. CommandOK
  BY <1>1, EmptyHas DEF CommandOK
<1>7. FileOK
  BY <1>1, EmptyHas DEF FileOK
<1>8. ReasonOK
  BY <1>1, EmptyHas DEF ReasonOK
<1> QED
  BY <1>2, <1>3, <1>4, <1>5, <1>6, <1>7, <1>8, TypedIsPart DEF RelayIInv

(* And every step keeps it.                                                  *)
LEMMA RelayStepInv == RelayIInv /\ [RelayNext]_vars => RelayIInv'
<1> SUFFICES ASSUME RelayIInv, [RelayNext]_vars PROVE RelayIInv'
  OBVIOUS
<1>1. Typed /\ CancelsOK /\ FlowOK /\ DoneOK /\ CommandOK /\ FileOK /\ ReasonOK
  BY TypedIsPart DEF RelayIInv
<1>2. Typed'
  BY <1>1, StepTyped
<1>3. (RelayTypeOK /\ RoomOK /\ ClientPlaces /\ RelayPlaces)'
  BY <1>2, TypedIsPart, PTL
<1>4. CASE Client
  BY <1>1, <1>3, <1>4, ClientCancels, ClientFlow, ClientDone, ClientCommand, ClientFile, ClientReason DEF RelayIInv
<1>5. CASE Relay
  BY <1>1, <1>3, <1>5, RelayCancels, RelayFlow, OthersDone, RelayCommand, RelayFile, RelayReason DEF RelayIInv
<1>6. CASE Environment
  BY <1>1, <1>3, <1>6, EnvironmentCancels, EnvironmentFlow, OthersDone, EnvironmentCommand, EnvironmentFile,
     EnvironmentReason DEF RelayIInv
<1>7. CASE UNCHANGED vars
  <2>1. UNCHANGED <<up, down, end, main, rcv, snd, runCancelled, signalled, errChan, result, shown, typed, raced,
                    viaServer, relay, fwdDown, fwdUp, relayCancelled, relayErr, agentVersion, agentSent, agent, fault>>
    BY <1>7 DEF vars, streamVars, clientVars, runVars, relayVars, agentVars
  <2>2. CancelsOK' /\ DoneOK' /\ CommandOK'
    BY <1>1, <2>1 DEF CancelsOK, Forwarded, DoneOK, Excused, Done, AgentLeg, CommandOK
  <2>3. FlowOK'
    BY <1>1, <2>1, Zenon DEF FlowOK, Excused, hand
  <2>4. FileOK' /\ ReasonOK'
    BY <1>1, <2>1 DEF FileOK, ReasonOK, Calm, NeverStarted, AgentLeg
  <2> QED
    BY <1>3, <2>2, <2>3, <2>4 DEF RelayIInv
<1> QED
  BY <1>4, <1>5, <1>6, <1>7 DEF RelayNext, Over

(* It implies what dutctl run promises.                                      *)
LEMMA RelayImplies == RelayIInv => RelayInv
<1> SUFFICES ASSUME RelayIInv PROVE RelayInv
  OBVIOUS
<1>1. OkMeansDone
  BY DEF RelayIInv, DoneOK, Done, OkMeansDone
<1>2. FailureExplained
  <2> SUFFICES ASSUME result \in {"receive", "send"}, end[AgentLeg] = "ok", Calm PROVE FALSE
    BY DEF FailureExplained, Calm, RelayIInv, RelayTypeOK, ClientTypeOK
  <2>1. end[AgentLeg] \in Bad \/ NeverStarted
    BY DEF RelayIInv, ReasonOK
  <2>2. agent = "running"
    BY DEF RelayIInv, FileOK
  <2> QED
    BY <2>1, <2>2 DEF Bad, NeverStarted
<1> QED
  BY <1>1, <1>2 DEF RelayIInv, RelayInv

(* What dutctl run reports is what happened, directly and over dutserver,    *)
(* for any number of responses and of typed lines: when runRPC returns nil   *)
(* the agent has ended the run well and all its responses were shown in      *)
(* order, and a run that ended well fails only with a reason.                *)
THEOREM RelayCorrect == RelaySpec => []RelayInv
<1>1. RelayInit => RelayIInv
  BY RelayInitInv
<1>2. RelayIInv /\ [RelayNext]_vars => RelayIInv'
  BY RelayStepInv
<1>3. RelayIInv => RelayInv
  BY RelayImplies
<1> QED
  BY <1>1, <1>2, <1>3, PTL DEF RelaySpec
=============================================================================
