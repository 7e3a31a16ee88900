------------------------------- MODULE Session ------------------------------
(***************************************************************************)
(* The session between a running module and its client,                    *)
(* internal/dutagent/session: the module calls Print, Console, RequestFile *)
(* and SendFile, which meet two workers on unbuffered channels.  The       *)
(* toClientWorker sends to the client's stream; the fromClientWorker takes *)
(* what a goroutine of its own receives from it.  currentFile, the name of *)
(* the transfer in flight, is shared by all three.                         *)
(*                                                                         *)
(* An unbuffered channel is no state of its own: a send is one step of the *)
(* sender and of a receiver parked on the channel.  A step that closes or  *)
(* fills a buffered channel and cannot block is part of the step before.   *)
(***************************************************************************)
EXTENDS Integers, Sequences

CONSTANTS
  Names,           \* file names
  NoName,          \* the empty name: no transfer in flight
  Calls,           \* the kinds of session calls the modules of the command make
  MaxCalls,        \* bound of the number of these calls
  MaxStdin,        \* bound of the stdin messages the client sends
  MaxUnsolicited,  \* bound of the file messages it sends without being asked
  EmptyFiles,      \* may a requested file be empty?
  IgnoredMessages  \* does the client also send messages the agent ignores?

ASSUME NoNameAssumption == NoName \notin Names
ASSUME CallsAssumption == Calls \subseteq {"print", "read", "request", "sendFile"}
ASSUME BoundsAssumption == {MaxCalls, MaxStdin, MaxUnsolicited} \subseteq Nat
ASSUME ClientAssumption == EmptyFiles \in BOOLEAN /\ IgnoredMessages \in BOOLEAN

VARIABLES
  m, mname, calls,   \* the module: where it is, its file, the calls it has made
  currentFile,       \* name of the transfer in flight
  t, tmsg,           \* toClientWorker: where it is, the message in its hands
  f, fmsg,           \* fromClientWorker: likewise
  g, gmsg,           \* its receiving goroutine: likewise
  up, down,          \* messages on their way to the agent; sent to the client
  client, answered,  \* the client: open, closed, gone; messages it has handled
  stdins, unsolicited, \* counters of what the client sent
  cancelled,         \* a worker, the end of the modules or the request ended it
  errCh, closed,     \* errors the workers reported; all workers have ended
  accepted, dropped  \* calls whose output the worker took over; was one given up?

moduleVars == <<m, mname, calls, accepted, dropped>>
toVars     == <<t, tmsg>>
fromVars   == <<f, fmsg>>
recvVars   == <<g, gmsg>>
clientVars == <<client, answered, stdins, unsolicited>>
endVars    == <<cancelled, errCh, closed>>
sessionVars == <<moduleVars, currentFile, toVars, fromVars, recvVars, up, down,
                 clientVars, endVars>>

Nothing == [type |-> "nothing"]
Out(n)  == [type |-> "output", id |-> n]
Request(n)    == [type |-> "request", name |-> n]
File(n, from, content) == [type |-> "file", name |-> n, from |-> from, content |-> content]
Stdin   == [type |-> "stdin"]
Other   == [type |-> "other"]   \* a message the agent ignores
Eof     == [type |-> "eof"]
Failure == [type |-> "failure"]

-----------------------------------------------------------------------------
(* The module.  Every call that can block also selects on done. *)

Call(kind, n) ==
  /\ m = "run" /\ kind \in Calls /\ calls < MaxCalls
  /\ m' = kind /\ mname' = n
  /\ calls' = calls + 1
  /\ UNCHANGED <<accepted, dropped, currentFile, toVars, fromVars, recvVars, up, down,
                 clientVars, endVars>>

PrintFamily == Call("print", NoName)
ReadStdin == Call("read", NoName)
RequestFile(n) == Call("request", n)
SendFile(n) == Call("sendFile", n)

(* Print and the console writers: the worker takes the output over.         *)
printMeetsWorker ==
  /\ m = "print" /\ t = "select"
  /\ m' = "run"
  /\ accepted' = accepted \cup {calls}
  /\ t' = "send" /\ tmsg' = Out(calls)
  /\ UNCHANGED <<mname, calls, dropped, currentFile, fromVars, recvVars, up, down, clientVars, endVars>>

(* RequestFile, first select: the request is handed to the worker.          *)
requestMeetsWorker ==
  /\ m = "request" /\ t = "select"
  /\ m' = "await"
  /\ t' = "setName" /\ tmsg' = Request(mname)
  /\ UNCHANGED <<mname, calls, accepted, dropped, currentFile, fromVars, recvVars, up, down,
                 clientVars, endVars>>

(* RequestFile, second select: the file comes from fromClientWorker.        *)
fileMeetsModule ==
  /\ f = "offer" /\ m = "await"
  /\ m' = "run"
  /\ f' = "clear"
  /\ UNCHANGED <<mname, calls, accepted, dropped, currentFile, toVars, fmsg, recvVars, up, down,
                 clientVars, endVars>>

(* SendFile: refused while a name is set; otherwise it sets its own and     *)
(* offers the file.  Between the check and the assignment, two locked steps, *)
(* it reads the source, which may fail.                                     *)
sendFileCheck ==
  /\ m = "sendFile"
  /\ m' = IF currentFile # NoName THEN "run" ELSE "sendSet"
  /\ UNCHANGED <<mname, calls, accepted, dropped, currentFile, toVars, fromVars, recvVars,
                 up, down, clientVars, endVars>>

sendFileSet ==
  /\ m = "sendSet"
  /\ m' = "offer"
  /\ currentFile' = mname
  /\ UNCHANGED <<mname, calls, accepted, dropped, toVars, fromVars, recvVars, up, down,
                 clientVars, endVars>>

sendFileReadFails ==
  /\ m = "sendSet"
  /\ m' = "run"
  /\ UNCHANGED <<mname, calls, accepted, dropped, currentFile, toVars, fromVars, recvVars, up, down,
                 clientVars, endVars>>

(* stdin is handed to a module that reads its console.                      *)
stdinMeetsModule ==
  /\ f = "stdin" /\ m = "read"
  /\ m' = "run" /\ f' = "select"
  /\ UNCHANGED <<mname, calls, accepted, dropped, currentFile, toVars, fmsg, recvVars, up, down,
                 clientVars, endVars>>

(* done is closed: a parked call gives up.  Output is dropped, a read ends  *)
(* with EOF, a transfer with an error.                                      *)
Parked == {"print", "read", "request", "await", "offer"}

callGivesUp ==
  /\ m \in Parked /\ cancelled
  /\ m' = "run"
  /\ dropped' = (dropped \/ m = "print")
  /\ UNCHANGED <<mname, calls, accepted, currentFile, toVars, fromVars, recvVars, up, down,
                 clientVars, endVars>>

(* The module returns; it was the last, or it failed: modCtx is cancelled.  *)
moduleReturns ==
  /\ m = "run"
  /\ m' \in {"returned", "failed"}
  /\ cancelled' = TRUE
  /\ UNCHANGED <<mname, calls, accepted, dropped, currentFile, toVars, fromVars, recvVars,
                 up, down, clientVars, errCh, closed>>

-----------------------------------------------------------------------------
(* toClientWorker. *)

(* The worker's case for fileCh receives whatever is offered there: a file  *)
(* of SendFile, but also one fromClientWorker offers to RequestFile.        *)
sendFileMeetsWorker ==
  /\ m = "offer" /\ t = "select"
  /\ m' = "run"
  /\ t' = "nameFile" /\ tmsg' = File(mname, "module", TRUE)
  /\ UNCHANGED <<mname, calls, accepted, dropped, currentFile, fromVars, recvVars, up, down,
                 clientVars, endVars>>

fileMeetsWorker ==
  /\ f = "offer" /\ t = "select"
  /\ f' = "clear"
  /\ t' = "nameFile" /\ tmsg' = fmsg
  /\ UNCHANGED <<moduleVars, currentFile, fmsg, recvVars, up, down, clientVars, endVars>>

(* Before a request is sent its name is recorded; a file is sent under the  *)
(* name that is recorded at that moment.                                    *)
toClientSetName ==
  /\ t = "setName"
  /\ t' = "send"
  /\ currentFile' = tmsg.name
  /\ UNCHANGED <<moduleVars, tmsg, fromVars, recvVars, up, down, clientVars, endVars>>

toClientNameFile ==
  /\ t = "nameFile"
  /\ t' = "send" /\ tmsg' = File(currentFile, tmsg.from, tmsg.content)
  /\ UNCHANGED <<moduleVars, currentFile, fromVars, recvVars, up, down, clientVars, endVars>>

toClientSend ==
  /\ t = "send"
  /\ down' = Append(down, tmsg)
  /\ t' = IF tmsg.type = "file" THEN "clear" ELSE "select"
  /\ UNCHANGED <<moduleVars, currentFile, tmsg, fromVars, recvVars, up, clientVars, endVars>>

toClientClear ==
  /\ t = "clear"
  /\ t' = "select"
  /\ currentFile' = NoName
  /\ UNCHANGED <<moduleVars, tmsg, fromVars, recvVars, up, down, clientVars, endVars>>

(* A worker ends: it reports its error, if any, and cancels its companion.  *)
Ends(errs) ==
  /\ errCh' = errCh \o errs
  /\ cancelled' = TRUE
  /\ UNCHANGED closed

(* A stream fails once its client is gone, or once its handler has returned, *)
(* as it does on the error of a module or a worker without waiting for the   *)
(* rest.                                                                     *)
StreamBroken == client = "gone" \/ m = "failed" \/ errCh # <<>>

toClientSendFails ==
  /\ t = "send" /\ StreamBroken
  /\ t' = "ended"
  /\ Ends(<<"stream">>)
  /\ UNCHANGED <<moduleVars, currentFile, tmsg, fromVars, recvVars, up, down, clientVars>>

(* Mutant: the worker looks at its context between taking and sending.       *)
toClientDoneBeforeSend ==
  /\ t \in {"select", "send"} /\ cancelled
  /\ t' = "ended"
  /\ Ends(<<>>)
  /\ UNCHANGED <<moduleVars, currentFile, tmsg, fromVars, recvVars, up, down, clientVars>>

toClientDone ==
  /\ t = "select" /\ cancelled
  /\ t' = "ended"
  /\ Ends(<<>>)
  /\ UNCHANGED <<moduleVars, currentFile, tmsg, fromVars, recvVars, up, down, clientVars>>

-----------------------------------------------------------------------------
(* fromClientWorker and its receiving goroutine. *)

(* Receive blocks until there is a message, the client closed its side, or  *)
(* it is gone.                                                              *)
receive ==
  /\ g = "receive"
  /\ g' = "hold"
  /\ \/ up # <<>> /\ gmsg' = Head(up) /\ up' = Tail(up)
     \/ up = <<>> /\ client = "closed" /\ gmsg' = Eof /\ UNCHANGED up
     \/ StreamBroken /\ gmsg' = Failure /\ UNCHANGED up
  /\ UNCHANGED <<moduleVars, currentFile, toVars, fromVars, down, clientVars, endVars>>

receiverGivesUp ==
  /\ g = "hold" /\ cancelled
  /\ g' = "exited"
  /\ UNCHANGED <<moduleVars, currentFile, toVars, fromVars, gmsg, up, down, clientVars, endVars>>

(* The result goes to the worker; the goroutine stops after an error.       *)
HandOver == g = "hold" /\ g' = IF gmsg \in {Eof, Failure} THEN "exited" ELSE "receive"

fromClientTakes ==
  /\ f = "select" /\ HandOver
  /\ fmsg' = gmsg
  /\ \/ gmsg = Other /\ f' = "select" /\ UNCHANGED endVars
     \/ gmsg = Stdin /\ f' = "stdin" /\ UNCHANGED endVars
     \/ gmsg.type = "file" /\ f' = "check" /\ UNCHANGED endVars
     \/ gmsg = Eof /\ f' = "ended" /\ Ends(<<>>)
     \/ gmsg = Failure /\ f' = "ended" /\ Ends(<<"stream">>)
  /\ UNCHANGED <<moduleVars, currentFile, toVars, gmsg, up, down, clientVars>>

(* Cancelled: one pending receive is drained, to report its error.          *)
fromClientDone ==
  /\ f = "select" /\ cancelled
  /\ f' = "ended"
  /\ \/ HandOver /\ Ends(IF gmsg = Failure THEN <<"stream">> ELSE <<>>)
     \/ Ends(<<>>) /\ UNCHANGED g
  /\ UNCHANGED <<moduleVars, currentFile, toVars, fmsg, gmsg, up, down, clientVars>>

(* Mutant: the path of the message is not compared.                          *)
fromClientCheckAnyName ==
  /\ f = "check"
  /\ IF currentFile # NoName /\ fmsg.content
     THEN f' = "offer" /\ UNCHANGED endVars
     ELSE f' = "ended" /\ Ends(<<"badFileTransfer">>)
  /\ UNCHANGED <<moduleVars, currentFile, toVars, fmsg, recvVars, up, down, clientVars>>

(* A file must have content and be the one that is in flight.              *)
fromClientCheckFile ==
  /\ f = "check"
  /\ IF currentFile # NoName /\ fmsg.content /\ fmsg.name = currentFile
     THEN f' = "offer" /\ UNCHANGED endVars
     ELSE f' = "ended" /\ Ends(<<"badFileTransfer">>)
  /\ UNCHANGED <<moduleVars, currentFile, toVars, fmsg, recvVars, up, down, clientVars>>

(* Only after the file is handed over is the name cleared.                  *)
fromClientClear ==
  /\ f = "clear"
  /\ f' = "select"
  /\ currentFile' = NoName
  /\ UNCHANGED <<moduleVars, toVars, fmsg, recvVars, up, down, clientVars, endVars>>

(* Mutant: the hand-over of a file is not guarded by the context.            *)
fromClientGivesUpStdin ==
  /\ f = "stdin" /\ cancelled
  /\ f' = "ended"
  /\ Ends(<<>>)
  /\ UNCHANGED <<moduleVars, currentFile, toVars, fmsg, recvVars, up, down, clientVars>>

(* A worker parked on stdinCh or fileCh gives up when it is cancelled.      *)
fromClientGivesUp ==
  /\ f \in {"stdin", "offer"} /\ cancelled
  /\ f' = "ended"
  /\ Ends(<<>>)
  /\ UNCHANGED <<moduleVars, currentFile, toVars, fmsg, recvVars, up, down, clientVars>>

brokerCloses ==
  /\ t = "ended" /\ f = "ended" /\ ~closed
  /\ closed' = TRUE
  /\ UNCHANGED <<moduleVars, currentFile, toVars, fromVars, recvVars, up, down, clientVars,
                 cancelled, errCh>>

-----------------------------------------------------------------------------
(* The client (dutctl, or anything else that speaks the protocol). *)

clientStdin ==
  /\ client = "open" /\ stdins < MaxStdin
  /\ \E msg \in {Stdin, Other} :
       (msg = Other => IgnoredMessages) /\ up' = Append(up, msg)
  /\ stdins' = stdins + 1
  /\ UNCHANGED <<moduleVars, currentFile, toVars, fromVars, recvVars, down, client, answered,
                 unsolicited, endVars>>

(* What the agent decodes from a File message: proto3 does not transmit an   *)
(* empty bytes field, so an empty file arrives without content.             *)
Decoded(n, empty) == File(n, "client", ~empty)

(* It handles what it receives in order; a request is answered with a file. *)
clientHandles ==
  /\ client = "open" /\ answered < Len(down)
  /\ answered' = answered + 1
  /\ LET msg == down[answered + 1]
     IN  IF msg.type = "request"
         THEN \E empty \in {FALSE, EmptyFiles} : up' = Append(up, Decoded(msg.name, empty))
         ELSE UNCHANGED up
  /\ UNCHANGED <<moduleVars, currentFile, toVars, fromVars, recvVars, down, client, stdins,
                 unsolicited, endVars>>

clientUnsolicited ==
  /\ client = "open" /\ unsolicited < MaxUnsolicited
  /\ \E n \in Names : up' = Append(up, Decoded(n, FALSE))
  /\ unsolicited' = unsolicited + 1
  /\ UNCHANGED <<moduleVars, currentFile, toVars, fromVars, recvVars, down, client, answered,
                 stdins, endVars>>

(* It closes its side of the stream, as a relay does when its client did.   *)
clientCloses ==
  /\ client = "open"
  /\ client' = "closed"
  /\ UNCHANGED <<moduleVars, currentFile, toVars, fromVars, recvVars, up, down, answered,
                 stdins, unsolicited, endVars>>

(* It disconnects: the stream fails and the request's context is cancelled. *)
clientGoes ==
  /\ client # "gone"
  /\ client' = "gone"
  /\ cancelled' = TRUE
  /\ UNCHANGED <<moduleVars, currentFile, toVars, fromVars, recvVars, up, down, answered,
                 stdins, unsolicited, errCh, closed>>

-----------------------------------------------------------------------------

SessionInit ==
  /\ m = "run" /\ mname = NoName /\ calls = 0
  /\ currentFile = NoName
  /\ t = "select" /\ tmsg = Nothing
  /\ f = "select" /\ fmsg = Nothing
  /\ g = "receive" /\ gmsg = Nothing
  /\ up = <<>> /\ down = <<>>
  /\ client = "open" /\ answered = 0 /\ stdins = 0 /\ unsolicited = 0
  /\ cancelled = FALSE /\ errCh = <<>> /\ closed = FALSE
  /\ accepted = {} /\ dropped = FALSE

ModuleCalls == PrintFamily \/ ReadStdin \/ \E n \in Names : RequestFile(n) \/ SendFile(n)

ModuleSteps ==
  \/ printMeetsWorker \/ requestMeetsWorker \/ fileMeetsModule \/ stdinMeetsModule
  \/ sendFileCheck \/ sendFileSet \/ sendFileReadFails \/ sendFileMeetsWorker \/ callGivesUp

ToClientSteps ==
  \/ fileMeetsWorker \/ toClientSetName \/ toClientNameFile \/ toClientSend
  \/ toClientClear \/ toClientSendFails \/ toClientDone

FromClientSteps ==
  \/ fromClientTakes \/ fromClientDone \/ fromClientCheckFile \/ fromClientClear
  \/ fromClientGivesUp

ReceiverSteps == receive \/ receiverGivesUp

ClientSteps ==
  \/ clientStdin \/ clientHandles \/ clientUnsolicited \/ clientCloses \/ clientGoes

(* Everything has ended; nothing is left to happen.                          *)
SessionOver == closed /\ m \in {"returned", "failed"} /\ g = "exited" /\ UNCHANGED sessionVars

SessionNext ==
  \/ ModuleCalls \/ moduleReturns \/ ModuleSteps
  \/ ToClientSteps \/ FromClientSteps \/ ReceiverSteps \/ brokerCloses
  \/ ClientSteps \/ SessionOver

SessionSpec == SessionInit /\ [][SessionNext]_sessionVars

(* Every goroutine that can go on does; a stream's Send returns.  The module *)
(* and the client owe nothing.                                               *)
SessionFairness ==
  /\ WF_sessionVars(ModuleSteps) /\ WF_sessionVars(ToClientSteps)
  /\ WF_sessionVars(FromClientSteps) /\ WF_sessionVars(ReceiverSteps)
  /\ WF_sessionVars(brokerCloses)

SessionFairSpec == SessionSpec /\ SessionFairness

(* The same with a client that handles every message it is sent.             *)
SessionServedSpec == SessionFairSpec /\ WF_sessionVars(clientHandles)

-----------------------------------------------------------------------------
(* Properties. *)

Message ==
  {Nothing, Stdin, Other, Eof, Failure}
  \cup [type: {"output"}, id: 1..MaxCalls]
  \cup [type: {"request"}, name: Names]
  \cup [type: {"file"}, name: Names \cup {NoName}, from: {"module", "client"}, content: BOOLEAN]

(* Types of all variables; the workers' errors never overfill errCh.         *)
SessionTypeOK ==
  /\ m \in Parked \cup {"run", "sendFile", "sendSet", "returned", "failed"}
  /\ mname \in Names \cup {NoName} /\ calls \in 0..MaxCalls
  /\ currentFile \in Names \cup {NoName}
  /\ t \in {"select", "setName", "nameFile", "send", "clear", "ended"} /\ tmsg \in Message
  /\ f \in {"select", "stdin", "check", "offer", "clear", "ended"} /\ fmsg \in Message
  /\ g \in {"receive", "hold", "exited"} /\ gmsg \in Message
  /\ up \in Seq(Message) /\ down \in Seq(Message)
  /\ client \in {"open", "closed", "gone"} /\ answered \in 0..Len(down)
  /\ stdins \in 0..MaxStdin /\ unsolicited \in 0..MaxUnsolicited
  /\ cancelled \in BOOLEAN /\ closed \in BOOLEAN /\ dropped \in BOOLEAN
  /\ errCh \in Seq({"stream", "badFileTransfer"}) /\ Len(errCh) <= 2
  /\ accepted \subseteq 1..MaxCalls

(* The outputs the client was sent are those the worker accepted, without    *)
(* loss or repetition, in the order of the calls that made them; only the    *)
(* one in the worker's hands is missing.  So a session that ended without an *)
(* error has sent everything it accepted before its channel was closed.      *)
OutputComplete ==
  LET sent == {i \in DOMAIN down : down[i].type = "output"}
      inHand == IF t = "send" /\ tmsg.type = "output" THEN {tmsg.id} ELSE {}
  IN  \/ /\ accepted = {down[i].id : i \in sent} \cup inHand
         /\ \A i, j \in sent : i < j => down[i].id < down[j].id
         /\ \A i \in sent, id \in inHand : down[i].id < id
      \/ t = "ended" /\ \E i \in DOMAIN errCh : errCh[i] = "stream"

(* Output is given up only after the client closed or left, or a worker      *)
(* failed: the end of the module itself never costs any of its output.       *)
DropsExplained == dropped => client # "open" \/ errCh # <<>>

(* What the session owes a module that prints: types, and accepted output   *)
(* is neither lost nor repeated nor given up without a reason.              *)
SessionInv == SessionTypeOK /\ OutputComplete /\ DropsExplained

(* RequestFile returns nothing but the file that was asked for, whatever     *)
(* files the client sends unasked and however the three goroutines that use  *)
(* currentFile interleave, until the session is cancelled.  A module that    *)
(* has sent a file itself is excepted: an unasked file of that name may have *)
(* been let in while currentFile held it.                                    *)
RightFile ==
  [][/\ m = "await" /\ m' = "run" /\ ~cancelled
     /\ \A i \in DOMAIN down : ~(down[i].type = "file" /\ down[i].from = "module")
     => fmsg.type = "file" /\ fmsg.name = mname]_sessionVars

(* Once the session is cancelled, both workers end and the channel the       *)
(* handler waits for is closed, whatever they were parked on.                *)
CancelledCloses == cancelled ~> closed

(* ... and a call of the module never stays blocked, so a module is not      *)
(* wedged for the lifetime of the process.                                   *)
CancelledUnblocksModule == cancelled ~> m \notin Parked

(* ... and the receiving goroutine is not leaked once Receive can return.    *)
ReceiverExits == (cancelled /\ client # "open") ~> g = "exited"

(* The whole teardown: cancelling the session ends both workers, frees the  *)
(* module and lets the receiving goroutine go, whatever each was parked on. *)
SessionTearsDown == CancelledCloses /\ CancelledUnblocksModule /\ ReceiverExits

(* A file of the client was taken by toClientWorker and sent back.           *)
FileSentBack == \E i \in DOMAIN down : down[i].type = "file" /\ down[i].from = "client"

(* "RequestFile ... blocks until the client responds": with a client that    *)
(* handles every message, a request does not wait forever, unless the file   *)
(* is sent back.  Stdin nobody reads keeps fromClientWorker from the file    *)
(* behind it.                                                                *)
RequestAnswered == (m = "await") ~> (m # "await" \/ client # "open" \/ FileSentBack)
=============================================================================
