---------------------------- MODULE SessionProofs ----------------------------
(***************************************************************************)
(* Proofs about the session between a module and its client, for any set   *)
(* of file names and any number of calls and messages.                     *)
(***************************************************************************)
EXTENDS Session, TLAPS

(* A file, if x is one, that comes from the client.                          *)
ByClient(x) == x.type = "file" => x.from = "client"

(* What the client has put on the stream.                                    *)
Sendable(x) == x # Eof /\ ByClient(x)

(* What the goroutines hold where they are.                                  *)
HandsOK ==
  /\ t = "setName" => tmsg.type = "request"
  /\ t = "nameFile" => tmsg.type = "file"
  /\ f \in {"check", "offer"} => fmsg.type = "file"
  /\ m \in {"request", "await", "sendFile", "sendSet", "offer"} => mname \in Names
  /\ m = "print" => calls > 0
  /\ gmsg = Eof => client # "open"
  /\ ByClient(gmsg) /\ ByClient(fmsg)
  /\ \A i \in DOMAIN up : Sendable(up[i])

(* A worker reports one error at most, when it ends.                         *)
ErrorsOK ==
  Len(errCh) <= (IF t = "ended" THEN 1 ELSE 0) + (IF f = "ended" THEN 1 ELSE 0)

(* A session is cancelled for a reason: its modules ended, its client closed *)
(* or left, or a worker failed.                                              *)
CancelExplained ==
  cancelled => m \in {"returned", "failed"} \/ client # "open" \/ errCh # <<>>

(* A call prints once.                                                       *)
AcceptedOnce ==
  /\ accepted \subseteq 1..calls
  /\ m = "print" => calls \notin accepted

(* A file of the module has been sent, or is in the worker's hands.          *)
ModuleFileSent == \E i \in DOMAIN down : down[i].type = "file" /\ down[i].from = "module"
ModuleFileInHand == t \in {"nameFile", "send"} /\ tmsg.type = "file" /\ tmsg.from = "module"

(* The module waits for its file and its name is known.                      *)
Awaited(n) == m = "await" /\ t # "setName" /\ n = mname

(* The name in flight is the one the module waits for, or it is about to be  *)
(* cleared, or the module is sending a file; the same for a file on offer;   *)
(* and the worker records the name for a module that waits, which it cannot  *)
(* do while it has a file of the module to send.                             *)
TransferOK ==
  /\ currentFile = NoName \/ f = "clear" \/ m = "offer" \/ ModuleFileInHand \/ Awaited(currentFile)
  /\ f = "offer" => m = "offer" \/ ModuleFileInHand \/ Awaited(fmsg.name)
  /\ t = "setName" => m = "await" /\ tmsg.name = mname
  /\ ModuleFileInHand => m # "await"

(* The inductive invariant.  TransferOK holds until the session is cancelled *)
(* or the module has sent a file itself.                                     *)
SessionIInv ==
  /\ SessionTypeOK /\ HandsOK /\ ErrorsOK /\ CancelExplained /\ AcceptedOnce
  /\ OutputComplete /\ DropsExplained
  /\ cancelled \/ ModuleFileSent \/ TransferOK

-----------------------------------------------------------------------------
(* Messages. *)

(* What a message is made of by its type.                                    *)
LEMMA MessageFields ==
  ASSUME NEW x \in Message
  PROVE  /\ x.type = "request" => x.name \in Names
         /\ x.type = "output" => x.id \in 1..MaxCalls
         /\ x.type = "file" => /\ x.name \in Names \cup {NoName}
                               /\ x.from \in {"module", "client"}
                               /\ x.content \in BOOLEAN
BY DEF Message, Nothing, Stdin, Other, Eof, Failure

(* What the constructors make.                                               *)
LEMMA MessagesMade ==
  /\ {Nothing, Stdin, Other, Eof, Failure} \subseteq Message
  /\ \A n \in 1..MaxCalls : Out(n) \in Message /\ Out(n).type = "output" /\ Out(n).id = n
  /\ \A n \in Names : Request(n) \in Message /\ Request(n).type = "request" /\ Request(n).name = n
  /\ \A n \in Names \cup {NoName}, from \in {"module", "client"}, content \in BOOLEAN :
       /\ File(n, from, content) \in Message /\ File(n, from, content).type = "file"
       /\ File(n, from, content).name = n /\ File(n, from, content).from = from
BY DEF Message, Nothing, Stdin, Other, Eof, Failure, Out, Request, File

(* What the agent decodes is a file of the client.                           *)
LEMMA ClientFile ==
  \A n \in Names, empty \in BOOLEAN :
    Decoded(n, empty) \in Message /\ Sendable(Decoded(n, empty))
BY DEF Decoded, File, Message, Eof, Sendable, ByClient

(* A message that is appended joins the rest.                                *)
LEMMA AppendMessage ==
  ASSUME NEW s \in Seq(Message), \A i \in DOMAIN s : Sendable(s[i]),
         NEW x \in Message, Sendable(x)
  PROVE  Append(s, x) \in Seq(Message) /\ \A i \in DOMAIN Append(s, x) : Sendable(Append(s, x)[i])
OBVIOUS

(* The messages without content differ from each other and from files.       *)
LEMMA MessagesDiffer ==
  /\ Eof # Failure /\ Eof # Nothing /\ Failure # Nothing
  /\ \A x \in {Nothing, Stdin, Other, Eof, Failure} : x.type # "file" /\ ByClient(x)
  /\ Sendable(Stdin) /\ Sendable(Other)
BY DEF Nothing, Stdin, Other, Eof, Failure, ByClient, Sendable

-----------------------------------------------------------------------------
(* Types. *)

(* The part of the invariant that is about one variable at a time.           *)
Typed == SessionTypeOK /\ HandsOK /\ ErrorsOK

(* Calls of the module.                                                      *)
LEMMA TypedModule ==
  ASSUME Typed, ModuleCalls \/ ModuleSteps \/ moduleReturns
  PROVE  Typed'
<1> USE DEF Typed, SessionTypeOK, HandsOK, ErrorsOK, Parked, toVars, fromVars, recvVars,
            clientVars, endVars
<1>1. CASE ModuleCalls
  <2>1. PICK kind \in Calls, n \in Names \cup {NoName} :
          Call(kind, n) /\ (kind \in {"request", "sendFile"} => n \in Names)
    BY <1>1 DEF ModuleCalls, PrintFamily, ReadStdin, RequestFile, SendFile, Call
  <2>2. calls' \in 0..MaxCalls /\ calls' > 0
    BY <2>1, BoundsAssumption DEF Call
  <2>3. m' \in {"print", "read", "request", "sendFile"} /\ mname' = n /\ m' = kind
    BY <2>1, CallsAssumption DEF Call
  <2>4. /\ UNCHANGED <<accepted, dropped, currentFile, t, tmsg, f, fmsg, g, gmsg, up, down,
                       client, answered, stdins, unsolicited, cancelled, errCh, closed>>
    BY <2>1 DEF Call
  <2>a. SessionTypeOK'
    BY <2>1, <2>2, <2>3, <2>4
  <2>b. HandsOK'
    BY <2>1, <2>2, <2>3, <2>4
  <2>c. ErrorsOK'
    BY <2>1, <2>2, <2>3, <2>4
  <2> QED
    BY <2>a, <2>b, <2>c
<1>2. CASE printMeetsWorker
  <2>1. calls \in 1..MaxCalls /\ tmsg' \in Message
    BY <1>2, MessagesMade DEF printMeetsWorker
  <2> QED
    BY <1>2, <2>1 DEF printMeetsWorker
<1>3. CASE requestMeetsWorker
  BY <1>3, MessagesMade DEF requestMeetsWorker
<1>4. CASE fileMeetsModule \/ stdinMeetsModule
  BY <1>4 DEF fileMeetsModule, stdinMeetsModule
<1>5. CASE sendFileCheck \/ sendFileReadFails
  <2>1. m' = "run" \/ (m = "sendFile" /\ m' = "sendSet")
    BY <1>5 DEF sendFileCheck, sendFileReadFails
  <2>a. SessionTypeOK'
    BY <1>5, <2>1 DEF sendFileCheck, sendFileReadFails
  <2>b. HandsOK'
    BY <1>5, <2>1 DEF sendFileCheck, sendFileReadFails
  <2>c. ErrorsOK'
    BY <1>5, <2>1 DEF sendFileCheck, sendFileReadFails
  <2> QED
    BY <2>a, <2>b, <2>c
<1>9. CASE sendFileSet
  BY <1>9 DEF sendFileSet
<1>6. CASE sendFileMeetsWorker
  <2>1. tmsg' \in Message /\ tmsg'.type = "file"
    BY <1>6, MessagesMade DEF sendFileMeetsWorker
  <2>a. SessionTypeOK'
    BY <1>6, <2>1 DEF sendFileMeetsWorker
  <2>b. HandsOK'
    BY <1>6, <2>1 DEF sendFileMeetsWorker
  <2>c. ErrorsOK'
    BY <1>6, <2>1 DEF sendFileMeetsWorker
  <2> QED
    BY <2>a, <2>b, <2>c
<1>7. CASE callGivesUp
  <2>1. dropped' \in BOOLEAN
    BY <1>7, Zenon DEF callGivesUp
  <2> QED
    BY <1>7, <2>1 DEF callGivesUp
<1>8. CASE moduleReturns
  BY <1>8 DEF moduleReturns
<1> QED
  BY <1>1, <1>2, <1>3, <1>4, <1>5, <1>6, <1>7, <1>8, <1>9 DEF ModuleSteps

(* The worker that sends.                                                    *)
LEMMA TypedToClient ==
  ASSUME Typed, ToClientSteps
  PROVE  Typed'
<1> USE DEF Typed, SessionTypeOK, HandsOK, ErrorsOK, moduleVars, toVars, fromVars, recvVars,
            clientVars, endVars
<1>1. CASE fileMeetsWorker
  BY <1>1 DEF fileMeetsWorker
<1>2. CASE toClientSetName
  BY <1>2, MessageFields DEF toClientSetName
<1>3. CASE toClientNameFile
  <2>1. tmsg' \in Message
    <3>1. tmsg.from \in {"module", "client"} /\ tmsg.content \in BOOLEAN
      BY <1>3, MessageFields DEF toClientNameFile
    <3> QED
      BY <1>3, <3>1, MessagesMade DEF toClientNameFile
  <2> QED
    BY <1>3, <2>1 DEF toClientNameFile
<1>4. CASE toClientSend
  BY <1>4 DEF toClientSend
<1>5. CASE toClientClear
  BY <1>5 DEF toClientClear
<1>6. CASE toClientSendFails
  BY <1>6 DEF toClientSendFails, Ends
<1>7. CASE toClientDone
  BY <1>7 DEF toClientDone, Ends
<1> QED
  BY <1>1, <1>2, <1>3, <1>4, <1>5, <1>6, <1>7 DEF ToClientSteps

(* The worker that receives, and its goroutine.                              *)
LEMMA TypedFromClient ==
  ASSUME Typed, FromClientSteps \/ ReceiverSteps \/ brokerCloses
  PROVE  Typed'
<1> USE DEF Typed, SessionTypeOK, HandsOK, ErrorsOK, moduleVars, toVars, fromVars, recvVars,
            clientVars, endVars
<1>1. CASE fromClientTakes
  <2>1. g' \in {"receive", "hold", "exited"}
    BY <1>1 DEF fromClientTakes, HandOver
  <2>2. CASE UNCHANGED endVars /\ f' \in {"select", "stdin", "check"}
    BY <1>1, <2>1, <2>2, MessagesDiffer DEF fromClientTakes
  <2>3. CASE f' = "ended" /\ Ends(<<>>)
    BY <1>1, <2>1, <2>3 DEF fromClientTakes, Ends
  <2>4. CASE f' = "ended" /\ Ends(<<"stream">>)
    BY <1>1, <2>1, <2>4 DEF fromClientTakes, Ends
  <2> QED
    BY <1>1, <2>2, <2>3, <2>4 DEF fromClientTakes
<1>2. CASE fromClientDone
  <2>1. g' \in {"receive", "hold", "exited"}
    BY <1>2 DEF fromClientDone, HandOver
  <2>2. CASE Ends(<<>>)
    BY <1>2, <2>1, <2>2 DEF fromClientDone, Ends
  <2>3. CASE Ends(<<"stream">>)
    BY <1>2, <2>1, <2>3 DEF fromClientDone, Ends
  <2> QED
    BY <1>2, <2>2, <2>3 DEF fromClientDone
<1>3. CASE fromClientCheckFile
  <2>1. CASE f' = "offer" /\ UNCHANGED endVars
    BY <1>3, <2>1 DEF fromClientCheckFile
  <2>2. CASE f' = "ended" /\ Ends(<<"badFileTransfer">>)
    BY <1>3, <2>2 DEF fromClientCheckFile, Ends
  <2> QED
    BY <1>3, <2>1, <2>2 DEF fromClientCheckFile
<1>4. CASE fromClientClear
  BY <1>4 DEF fromClientClear
<1>5. CASE fromClientGivesUp
  BY <1>5 DEF fromClientGivesUp, Ends
<1>6. CASE receive
  <2>1. /\ up' \in Seq(Message) /\ gmsg' \in Message
        /\ \A i \in DOMAIN up' : Sendable(up'[i])
        /\ ByClient(gmsg')
    <3>1. CASE up # <<>> /\ gmsg' = Head(up) /\ up' = Tail(up)
      BY <3>1 DEF Sendable
    <3>2. CASE UNCHANGED up /\ gmsg' \in {Eof, Failure}
      BY <3>2, MessagesMade, MessagesDiffer
    <3> QED
      BY <1>6, <3>1, <3>2 DEF receive
  <2>3. gmsg' = Eof => client # "open"
    BY <1>6, MessagesDiffer DEF receive, Sendable
  <2>a. SessionTypeOK'
    BY <1>6, <2>1, <2>3 DEF receive
  <2>b. HandsOK'
    BY <1>6, <2>1, <2>3 DEF receive
  <2>c. ErrorsOK'
    BY <1>6, <2>1, <2>3 DEF receive
  <2> QED
    BY <2>a, <2>b, <2>c
<1>7. CASE receiverGivesUp
  BY <1>7 DEF receiverGivesUp
<1>8. CASE brokerCloses
  BY <1>8 DEF brokerCloses
<1> QED
  BY <1>1, <1>2, <1>3, <1>4, <1>5, <1>6, <1>7, <1>8 DEF FromClientSteps, ReceiverSteps

(* The client.                                                               *)
LEMMA TypedClient ==
  ASSUME Typed, ClientSteps
  PROVE  Typed'
<1> USE DEF Typed, SessionTypeOK, HandsOK, ErrorsOK, moduleVars, toVars, fromVars, recvVars,
            endVars
<1>1. CASE clientStdin
  <2>1. up' \in Seq(Message) /\ \A i \in DOMAIN up' : Sendable(up'[i])
    <3>1. PICK msg \in {Stdin, Other} : up' = Append(up, msg)
      BY <1>1 DEF clientStdin
    <3> QED
      BY <3>1, MessagesMade, MessagesDiffer, AppendMessage
  <2>2. stdins' \in 0..MaxStdin
    BY <1>1, BoundsAssumption DEF clientStdin
  <2> QED
    BY <1>1, <2>1, <2>2 DEF clientStdin
<1>2. CASE clientHandles
  <2>1. answered' \in 0..Len(down)
    BY <1>2 DEF clientHandles
  <2>2. up' \in Seq(Message) /\ \A i \in DOMAIN up' : Sendable(up'[i])
    <3>1. down[answered + 1] \in Message
      BY <1>2 DEF clientHandles
    <3>2. CASE UNCHANGED up
      BY <3>2
    <3>3. ASSUME NEW empty \in {FALSE, EmptyFiles}, down[answered + 1].type = "request",
                 up' = Append(up, Decoded(down[answered + 1].name, empty))
          PROVE  up' \in Seq(Message) /\ \A i \in DOMAIN up' : Sendable(up'[i])
      <4>1. down[answered + 1].name \in Names
        BY <3>1, <3>3, MessageFields
      <4>2. empty \in BOOLEAN
        BY ClientAssumption, Zenon
      <4>3. /\ Decoded(down[answered + 1].name, empty) \in Message
            /\ Sendable(Decoded(down[answered + 1].name, empty))
        BY <4>1, <4>2, ClientFile
      <4> QED
        BY <3>3, <4>3, AppendMessage
    <3> QED
      BY <1>2, <3>2, <3>3 DEF clientHandles
  <2> QED
    BY <1>2, <2>1, <2>2 DEF clientHandles
<1>3. CASE clientUnsolicited
  <2>1. \E n \in Names : up' = Append(up, Decoded(n, FALSE))
    BY <1>3 DEF clientUnsolicited
  <2>3. up' \in Seq(Message) /\ \A i \in DOMAIN up' : Sendable(up'[i])
    <3>1. PICK n \in Names : up' = Append(up, Decoded(n, FALSE))
      BY <2>1
    <3>2. Decoded(n, FALSE) \in Message /\ Sendable(Decoded(n, FALSE))
      BY ClientFile
    <3> QED
      BY <3>1, <3>2, AppendMessage
  <2>2. unsolicited' \in 0..MaxUnsolicited
    BY <1>3, BoundsAssumption DEF clientUnsolicited
  <2>4. UNCHANGED <<m, mname, calls, accepted, dropped, currentFile, t, tmsg, f, fmsg, g, gmsg, down,
                    client, answered, stdins, cancelled, errCh, closed>>
    BY <1>3 DEF clientUnsolicited
  <2>a. SessionTypeOK'
    BY <2>2, <2>3, <2>4
  <2>b. HandsOK'
    BY <2>2, <2>3, <2>4
  <2>c. ErrorsOK'
    BY <2>2, <2>3, <2>4
  <2> QED
    BY <2>a, <2>b, <2>c
<1>4. CASE clientCloses
  BY <1>4 DEF clientCloses
<1>5. CASE clientGoes
  BY <1>5 DEF clientGoes
<1> QED
  BY <1>1, <1>2, <1>3, <1>4, <1>5 DEF ClientSteps

(* Every step keeps the types.                                               *)
LEMMA TypedStep ==
  ASSUME Typed, SessionNext
  PROVE  Typed'
<1>1. CASE SessionOver
  BY <1>1 DEF SessionOver, sessionVars, moduleVars, toVars, fromVars, recvVars, clientVars,
              endVars, Typed, SessionTypeOK, HandsOK, ErrorsOK
<1> QED
  BY <1>1, TypedModule, TypedToClient, TypedFromClient, TypedClient DEF SessionNext

-----------------------------------------------------------------------------
(* Output. *)

(* The output in the worker's hands.                                         *)
Hand == IF t = "send" /\ tmsg.type = "output" THEN {tmsg.id} ELSE {}

(* Errors reported stay reported.                                            *)
ErrorsStay == \A i \in DOMAIN errCh : i \in DOMAIN errCh' /\ errCh'[i] = errCh[i]

(* A worker that ends adds to the errors, if anything.                       *)
LEMMA EndsKeepsErrors ==
  ASSUME errCh \in Seq({"stream", "badFileTransfer"}),
         NEW errs \in {<<>>, <<"stream">>, <<"badFileTransfer">>}, Ends(errs)
  PROVE  ErrorsStay
BY DEF Ends, ErrorsStay

(* A step that moves no output keeps OutputComplete.                         *)
LEMMA OutputRests ==
  ASSUME OutputComplete, Hand' = Hand, UNCHANGED <<down, accepted>>, ErrorsStay,
         t = "ended" => t' = "ended"
  PROVE  OutputComplete'
BY DEF OutputComplete, Hand, ErrorsStay

(* Every step sends what was accepted, once and in order, or fails to send   *)
(* and ends.                                                                 *)
LEMMA OutputStep ==
  ASSUME Typed, AcceptedOnce, OutputComplete, SessionNext
  PROVE  AcceptedOnce' /\ OutputComplete'
<1> USE DEF Typed, SessionTypeOK, toVars, fromVars, recvVars, clientVars, endVars, moduleVars
<1>1. CASE UNCHANGED <<m, calls, accepted, t, tmsg, down, errCh>>
  <2>1. ErrorsStay /\ Hand' = Hand
    BY <1>1 DEF ErrorsStay, Hand
  <2>2. AcceptedOnce'
    BY <1>1 DEF AcceptedOnce
  <2> QED
    BY <1>1, <2>1, <2>2, OutputRests
<1>2. CASE ModuleCalls
  <2>1. /\ calls' = calls + 1 /\ UNCHANGED <<accepted, t, tmsg, down, errCh>>
    BY <1>2 DEF ModuleCalls, PrintFamily, ReadStdin, RequestFile, SendFile, Call
  <2>2. AcceptedOnce'
    BY <2>1 DEF AcceptedOnce
  <2>3. ErrorsStay /\ Hand' = Hand
    BY <2>1 DEF ErrorsStay, Hand
  <2> QED
    BY <2>1, <2>2, <2>3, OutputRests
<1>3. CASE printMeetsWorker
  <2>1. /\ m = "print" /\ m' = "run" /\ t = "select" /\ t' = "send"
        /\ accepted' = accepted \cup {calls} /\ UNCHANGED <<calls, down, errCh>>
    BY <1>3 DEF printMeetsWorker
  <2>2. calls \in 1..MaxCalls
    BY <2>1 DEF HandsOK
  <2>3. tmsg'.type = "output" /\ tmsg'.id = calls
    BY <1>3, <2>2, MessagesMade DEF printMeetsWorker
  <2>4. AcceptedOnce' /\ \A id \in accepted : id < calls
    BY <2>1, <2>2 DEF AcceptedOnce
  <2> QED
    BY <2>1, <2>3, <2>4 DEF OutputComplete
<1>4. CASE requestMeetsWorker \/ sendFileMeetsWorker
  <2>1. /\ t = "select" /\ t' # "send" /\ m' # "print" /\ UNCHANGED <<calls, accepted, down, errCh>>
    BY <1>4 DEF requestMeetsWorker, sendFileMeetsWorker
  <2>2. ErrorsStay /\ Hand' = Hand /\ AcceptedOnce'
    BY <2>1 DEF ErrorsStay, Hand, AcceptedOnce
  <2> QED
    BY <2>1, <2>2, OutputRests
<1>5. CASE fileMeetsModule \/ stdinMeetsModule \/ sendFileCheck \/ sendFileSet
           \/ sendFileReadFails \/ callGivesUp \/ moduleReturns
  <2>1. m' # "print" /\ UNCHANGED <<calls, accepted, t, tmsg, down, errCh>>
    BY <1>5 DEF fileMeetsModule, stdinMeetsModule, sendFileCheck, sendFileSet,
                sendFileReadFails, callGivesUp, moduleReturns
  <2>2. ErrorsStay /\ Hand' = Hand /\ AcceptedOnce'
    BY <2>1 DEF ErrorsStay, Hand, AcceptedOnce
  <2> QED
    BY <2>1, <2>2, OutputRests
<1>6. CASE fileMeetsWorker \/ toClientSetName \/ toClientNameFile \/ toClientClear
  <2>1. /\ t # "ended" /\ UNCHANGED <<m, calls, accepted, down, errCh>>
        /\ Hand' = {} /\ Hand = {}
    <3>1. CASE fileMeetsWorker \/ toClientClear
      BY <3>1 DEF fileMeetsWorker, toClientClear, Hand
    <3>2. CASE toClientSetName
      BY <3>2 DEF toClientSetName, HandsOK, Hand
    <3>3. CASE toClientNameFile
      BY <3>3 DEF toClientNameFile, HandsOK, Hand, File
    <3> QED
      BY <1>6, <3>1, <3>2, <3>3
  <2>2. ErrorsStay /\ AcceptedOnce'
    BY <2>1 DEF ErrorsStay, AcceptedOnce
  <2> QED
    BY <2>1, <2>2, OutputRests
<1>7. CASE toClientSend
  <2>1. /\ t = "send" /\ t' \in {"clear", "select"} /\ down' = Append(down, tmsg)
        /\ UNCHANGED <<m, calls, accepted, errCh>>
    BY <1>7 DEF toClientSend
  <2>2. AcceptedOnce'
    BY <2>1 DEF AcceptedOnce
  <2>3. /\ DOMAIN down' = DOMAIN down \cup {Len(down) + 1} /\ DOMAIN down = 1..Len(down)
        /\ down'[Len(down) + 1] = tmsg
        /\ \A i \in DOMAIN down : down'[i] = down[i] /\ i < Len(down) + 1
    BY <2>1
  <2> DEFINE sent == {i \in DOMAIN down : down[i].type = "output"}
  <2>4. CASE tmsg.type = "output"
    <3>1. sent' = sent \cup {Len(down) + 1}
      BY <2>3, <2>4
    <3>2. {down'[i].id : i \in sent'} = {down[i].id : i \in sent} \cup {tmsg.id}
      BY <2>3, <3>1
    <3>3. /\ accepted = {down[i].id : i \in sent} \cup {tmsg.id}
          /\ \A i, j \in sent : i < j => down[i].id < down[j].id
          /\ \A i \in sent : down[i].id < tmsg.id
      BY <2>1, <2>4 DEF OutputComplete
    <3>4. \A i, j \in sent' : i < j => down'[i].id < down'[j].id
      BY <2>3, <3>1, <3>3
    <3> QED
      BY <2>1, <2>2, <3>2, <3>3, <3>4 DEF OutputComplete
  <2>5. CASE tmsg.type # "output"
    <3>1. sent' = sent
      BY <2>3, <2>5
    <3>2. {down'[i].id : i \in sent'} = {down[i].id : i \in sent}
      BY <2>3, <3>1
    <3>3. /\ accepted = {down[i].id : i \in sent}
          /\ \A i, j \in sent : i < j => down[i].id < down[j].id
      BY <2>1, <2>5 DEF OutputComplete
    <3>4. \A i, j \in sent' : i < j => down'[i].id < down'[j].id
      BY <2>3, <3>1, <3>3
    <3> QED
      BY <2>1, <2>2, <3>2, <3>3, <3>4 DEF OutputComplete
  <2> QED
    BY <2>4, <2>5
<1>8. CASE toClientSendFails
  <2>1. /\ t' = "ended" /\ errCh' = errCh \o <<"stream">> /\ UNCHANGED <<m, calls, accepted>>
    BY <1>8 DEF toClientSendFails, Ends
  <2>2. Len(errCh) + 1 \in DOMAIN errCh' /\ errCh'[Len(errCh) + 1] = "stream"
    BY <2>1
  <2> QED
    BY <2>1, <2>2 DEF OutputComplete, AcceptedOnce
<1>9. CASE toClientDone
  <2>1. /\ t = "select" /\ t' = "ended" /\ Ends(<<>>) /\ UNCHANGED <<m, calls, accepted, down>>
    BY <1>9 DEF toClientDone
  <2>2. Hand' = Hand /\ AcceptedOnce' /\ ErrorsStay
    BY <2>1, EndsKeepsErrors DEF Hand, AcceptedOnce
  <2> QED
    BY <2>1, <2>2, OutputRests
<1>10. CASE FromClientSteps
  <2>1. UNCHANGED <<m, calls, accepted, t, tmsg, down>>
    BY <1>10 DEF FromClientSteps, fromClientTakes, fromClientDone, fromClientCheckFile,
                 fromClientClear, fromClientGivesUp
  <2>2. UNCHANGED endVars \/ \E errs \in {<<>>, <<"stream">>, <<"badFileTransfer">>} : Ends(errs)
    <3>1. CASE fromClientTakes
      BY <3>1 DEF fromClientTakes
    <3>2. CASE fromClientDone
      BY <3>2 DEF fromClientDone
    <3>3. CASE fromClientCheckFile
      BY <3>3 DEF fromClientCheckFile
    <3>4. CASE fromClientClear \/ fromClientGivesUp
      BY <3>4 DEF fromClientClear, fromClientGivesUp
    <3> QED
      BY <1>10, <3>1, <3>2, <3>3, <3>4 DEF FromClientSteps
  <2>3. ErrorsStay
    BY <2>2, EndsKeepsErrors DEF ErrorsStay
  <2>4. Hand' = Hand /\ AcceptedOnce'
    BY <2>1 DEF Hand, AcceptedOnce
  <2> QED
    BY <2>1, <2>3, <2>4, OutputRests
<1>11. CASE ReceiverSteps \/ brokerCloses \/ ClientSteps \/ SessionOver
  BY <1>1, <1>11 DEF ReceiverSteps, receive, receiverGivesUp, brokerCloses, ClientSteps, clientStdin,
       clientHandles, clientUnsolicited, clientCloses, clientGoes, SessionOver, sessionVars
<1> QED
  BY <1>2, <1>3, <1>4, <1>5, <1>6, <1>7, <1>8, <1>9, <1>10, <1>11
  DEF SessionNext, ModuleSteps, ToClientSteps

-----------------------------------------------------------------------------
(* Cancellation. *)

(* Every step that cancels the session has a reason to, and output is given  *)
(* up for such a reason only.                                                *)
LEMMA ReasonStep ==
  ASSUME Typed, CancelExplained, DropsExplained, SessionNext
  PROVE  CancelExplained' /\ DropsExplained'
<1> USE DEF Typed, SessionTypeOK, toVars, fromVars, recvVars, clientVars, endVars, moduleVars,
            CancelExplained, DropsExplained
<1>1. CASE ModuleCalls
  BY <1>1 DEF ModuleCalls, PrintFamily, ReadStdin, RequestFile, SendFile, Call
<1>2. CASE printMeetsWorker \/ requestMeetsWorker \/ sendFileMeetsWorker
  <2>1. m \notin {"returned", "failed"} /\ UNCHANGED <<client, dropped, cancelled, errCh>>
    BY <1>2 DEF printMeetsWorker, requestMeetsWorker, sendFileMeetsWorker
  <2> QED
    BY <2>1
<1>3. CASE fileMeetsModule \/ stdinMeetsModule \/ sendFileCheck \/ sendFileSet \/ sendFileReadFails
  BY <1>3 DEF fileMeetsModule, stdinMeetsModule, sendFileCheck, sendFileSet, sendFileReadFails
<1>4. CASE callGivesUp
  <2>1. /\ client # "open" \/ errCh # <<>>
        /\ UNCHANGED <<cancelled, client, errCh>>
    BY <1>4 DEF callGivesUp, Parked
  <2> QED
    BY <2>1
<1>5. CASE moduleReturns
  BY <1>5 DEF moduleReturns
<1>6. CASE fileMeetsWorker \/ toClientSetName \/ toClientNameFile \/ toClientSend \/ toClientClear
  BY <1>6 DEF fileMeetsWorker, toClientSetName, toClientNameFile, toClientSend, toClientClear
<1>7. CASE toClientSendFails
  BY <1>7 DEF toClientSendFails, Ends
<1>8. CASE toClientDone \/ fromClientGivesUp
  BY <1>8 DEF toClientDone, fromClientGivesUp, Ends
<1>9. CASE fromClientTakes
  <2>1. UNCHANGED <<m, client, dropped>>
    BY <1>9 DEF fromClientTakes
  <2>2. CASE UNCHANGED endVars
    BY <2>1, <2>2
  <2>3. CASE gmsg = Eof /\ Ends(<<>>)
    BY <2>1, <2>3 DEF Ends, HandsOK
  <2>4. CASE Ends(<<"stream">>)
    BY <2>1, <2>4 DEF Ends
  <2> QED
    BY <1>9, <2>2, <2>3, <2>4 DEF fromClientTakes
<1>10. CASE fromClientDone
  <2>1. UNCHANGED <<m, client, dropped>> /\ cancelled
    BY <1>10 DEF fromClientDone
  <2>2. CASE Ends(<<>>)
    BY <2>1, <2>2 DEF Ends
  <2>3. CASE Ends(<<"stream">>)
    BY <2>1, <2>3 DEF Ends
  <2> QED
    BY <1>10, <2>2, <2>3 DEF fromClientDone
<1>11. CASE fromClientCheckFile
  <2>1. UNCHANGED <<m, client, dropped>>
    BY <1>11 DEF fromClientCheckFile
  <2>2. CASE UNCHANGED endVars
    BY <2>1, <2>2
  <2>3. CASE Ends(<<"badFileTransfer">>)
    BY <2>1, <2>3 DEF Ends
  <2> QED
    BY <1>11, <2>2, <2>3 DEF fromClientCheckFile
<1>12. CASE fromClientClear \/ ReceiverSteps \/ brokerCloses
  BY <1>12 DEF fromClientClear, ReceiverSteps, receive, receiverGivesUp, brokerCloses
<1>13. CASE ClientSteps
  <2>1. UNCHANGED <<m, dropped, errCh>>
    BY <1>13 DEF ClientSteps, clientStdin, clientHandles, clientUnsolicited, clientCloses, clientGoes
  <2>2. UNCHANGED <<client, cancelled>> \/ client' # "open"
    BY <1>13 DEF ClientSteps, clientStdin, clientHandles, clientUnsolicited, clientCloses, clientGoes
  <2> QED
    BY <2>1, <2>2
<1>14. CASE SessionOver
  BY <1>14 DEF SessionOver, sessionVars
<1> QED
  BY <1>1, <1>2, <1>3, <1>4, <1>5, <1>6, <1>7, <1>8, <1>9, <1>10, <1>11, <1>12, <1>13, <1>14
  DEF SessionNext, ModuleSteps, ToClientSteps, FromClientSteps

-----------------------------------------------------------------------------
(* Transfers. *)

(* Neither a cancellation nor a file that was sent is taken back.            *)
LEMMA ExceptionsStay ==
  ASSUME Typed, SessionNext
  PROVE  /\ cancelled => cancelled'
         /\ ModuleFileSent => ModuleFileSent'
<1> USE DEF Typed, SessionTypeOK, toVars, fromVars, recvVars, clientVars, endVars, moduleVars
<1>1. cancelled => cancelled'
  BY DEF SessionNext, ModuleCalls, PrintFamily, ReadStdin, RequestFile, SendFile, Call,
         ModuleSteps, printMeetsWorker, requestMeetsWorker, sendFileMeetsWorker, fileMeetsModule,
         stdinMeetsModule, sendFileCheck, sendFileSet, sendFileReadFails, callGivesUp, moduleReturns,
         ToClientSteps, fileMeetsWorker, toClientSetName, toClientNameFile, toClientSend,
         toClientClear, toClientSendFails, toClientDone, Ends,
         FromClientSteps, fromClientTakes, fromClientDone, fromClientCheckFile, fromClientClear,
         fromClientGivesUp, ReceiverSteps, receive, receiverGivesUp, brokerCloses,
         ClientSteps, clientStdin, clientHandles, clientUnsolicited, clientCloses, clientGoes,
         SessionOver, sessionVars
<1>2. down' = down \/ down' = Append(down, tmsg)
  BY DEF SessionNext, ModuleCalls, PrintFamily, ReadStdin, RequestFile, SendFile, Call,
         ModuleSteps, printMeetsWorker, requestMeetsWorker, sendFileMeetsWorker, fileMeetsModule,
         stdinMeetsModule, sendFileCheck, sendFileSet, sendFileReadFails, callGivesUp, moduleReturns,
         ToClientSteps, fileMeetsWorker, toClientSetName, toClientNameFile, toClientSend,
         toClientClear, toClientSendFails, toClientDone,
         FromClientSteps, fromClientTakes, fromClientDone, fromClientCheckFile, fromClientClear,
         fromClientGivesUp, ReceiverSteps, receive, receiverGivesUp, brokerCloses,
         ClientSteps, clientStdin, clientHandles, clientUnsolicited, clientCloses, clientGoes,
         SessionOver, sessionVars
<1>3. ModuleFileSent => ModuleFileSent'
  <2>1. \A i \in DOMAIN down : i \in DOMAIN down' /\ down'[i] = down[i]
    <3>1. CASE down' = Append(down, tmsg)
      BY <3>1
    <3> QED
      BY <1>2, <3>1
  <2> QED
    BY <2>1 DEF ModuleFileSent
<1> QED
  BY <1>1, <1>3

(* While the session goes on and the module has sent no file, every step     *)
(* keeps the name in flight and the file on offer the awaited ones.          *)
LEMMA TransferStep ==
  ASSUME Typed, TransferOK, ~cancelled, ~ModuleFileSent, SessionNext
  PROVE  cancelled' \/ ModuleFileSent' \/ TransferOK'
<1> USE DEF Typed, SessionTypeOK, TransferOK, ModuleFileInHand, Awaited, toVars, fromVars, recvVars,
            clientVars, endVars, moduleVars
<1>1. CASE ModuleCalls
  <2>1. m = "run" /\ m' # "await" /\ UNCHANGED <<currentFile, t, tmsg, f, fmsg>>
    BY <1>1 DEF ModuleCalls, PrintFamily, ReadStdin, RequestFile, SendFile, Call
  <2> QED
    BY <2>1
<1>2. CASE printMeetsWorker
  BY <1>2 DEF printMeetsWorker
<1>3. CASE requestMeetsWorker
  <2>1. tmsg' = Request(mname) /\ tmsg'.name = mname'
    BY <1>3 DEF requestMeetsWorker, Request
  <2> QED
    BY <1>3, <2>1 DEF requestMeetsWorker
<1>4. CASE sendFileMeetsWorker
  <2>1. tmsg'.type = "file" /\ tmsg'.from = "module" /\ t' = "nameFile"
    BY <1>4 DEF sendFileMeetsWorker, File
  <2>2. m' = "run" /\ f' = f /\ currentFile' = currentFile
    BY <1>4 DEF sendFileMeetsWorker
  <2> QED
    BY <2>1, <2>2
<1>5. CASE fileMeetsModule
  BY <1>5 DEF fileMeetsModule
<1>6. CASE stdinMeetsModule
  BY <1>6 DEF stdinMeetsModule
<1>7. CASE sendFileCheck \/ sendFileReadFails
  BY <1>7 DEF sendFileCheck, sendFileReadFails
<1>8. CASE sendFileSet
  BY <1>8 DEF sendFileSet
<1>9. CASE callGivesUp
  BY <1>9 DEF callGivesUp
<1>10. CASE moduleReturns
  BY <1>10 DEF moduleReturns
<1>11. CASE fileMeetsWorker
  BY <1>11 DEF fileMeetsWorker, HandsOK, ByClient
<1>12. CASE toClientSetName
  BY <1>12 DEF toClientSetName, HandsOK
<1>13. CASE toClientNameFile
  <2>1. /\ t = "nameFile" /\ t' = "send" /\ UNCHANGED <<m, mname, currentFile, f, fmsg>>
        /\ tmsg'.type = "file" /\ tmsg'.from = tmsg.from /\ tmsg.type = "file"
    BY <1>13 DEF toClientNameFile, File, HandsOK
  <2> QED
    BY <2>1
<1>14. CASE toClientSend
  <2>1. CASE tmsg.type = "file" /\ tmsg.from = "module"
    <3>1. down' = Append(down, tmsg)
      BY <1>14 DEF toClientSend
    <3>2. ModuleFileSent'
      BY <2>1, <3>1 DEF ModuleFileSent
    <3> QED
      BY <3>2
  <2>2. CASE ~(tmsg.type = "file" /\ tmsg.from = "module")
    BY <1>14, <2>2 DEF toClientSend
  <2> QED
    BY <2>1, <2>2
<1>15. CASE toClientClear
  BY <1>15 DEF toClientClear
<1>16. CASE toClientSendFails
  BY <1>16 DEF toClientSendFails, Ends
<1>17. CASE toClientDone
  BY <1>17 DEF toClientDone
<1>18. CASE fromClientTakes
  BY <1>18 DEF fromClientTakes, Ends
<1>19. CASE fromClientDone \/ fromClientGivesUp
  BY <1>19 DEF fromClientDone, fromClientGivesUp
<1>20. CASE fromClientCheckFile
  BY <1>20 DEF fromClientCheckFile, Ends
<1>21. CASE fromClientClear
  BY <1>21 DEF fromClientClear
<1>22. CASE ReceiverSteps \/ brokerCloses
  BY <1>22 DEF ReceiverSteps, receive, receiverGivesUp, brokerCloses
<1>23. CASE ClientSteps
  BY <1>23 DEF ClientSteps, clientStdin, clientHandles, clientUnsolicited, clientCloses, clientGoes
<1>24. CASE SessionOver
  BY <1>24 DEF SessionOver, sessionVars
<1> QED
  BY <1>1, <1>2, <1>3, <1>4, <1>5, <1>6, <1>7, <1>8, <1>9, <1>10, <1>11, <1>12, <1>13, <1>14,
     <1>15, <1>16, <1>17, <1>18, <1>19, <1>20, <1>21, <1>22, <1>23, <1>24
  DEF SessionNext, ModuleSteps, ToClientSteps, FromClientSteps

-----------------------------------------------------------------------------
(* The invariant holds before the first call.                                *)
LEMMA SessionInitInv == SessionInit => SessionIInv
<1> SUFFICES ASSUME SessionInit PROVE SessionIInv
  OBVIOUS
<1> USE DEF SessionInit
<1>1. SessionTypeOK /\ HandsOK /\ ErrorsOK
  <2>1. SessionTypeOK
    <3>1. tmsg \in Message /\ fmsg \in Message /\ gmsg \in Message
      BY MessagesMade
    <3>2. /\ calls \in 0..MaxCalls /\ stdins \in 0..MaxStdin /\ unsolicited \in 0..MaxUnsolicited
          /\ answered \in 0..Len(down)
      BY BoundsAssumption
    <3>3. up \in Seq(Message) /\ down \in Seq(Message) /\ Len(errCh) <= 2
          /\ errCh \in Seq({"stream", "badFileTransfer"})
      OBVIOUS
    <3> QED
      BY <3>1, <3>2, <3>3 DEF SessionTypeOK
  <2>2. HandsOK
    BY MessagesDiffer DEF HandsOK
  <2> QED
    BY <2>1, <2>2 DEF ErrorsOK
<1>2. CancelExplained /\ AcceptedOnce /\ OutputComplete /\ DropsExplained
  BY DEF CancelExplained, AcceptedOnce, OutputComplete, DropsExplained
<1>3. TransferOK
  BY DEF TransferOK
<1> QED
  BY <1>1, <1>2, <1>3 DEF SessionIInv

(* Every step keeps it.                                                      *)
LEMMA SessionStepInv == SessionIInv /\ [SessionNext]_sessionVars => SessionIInv'
<1> SUFFICES ASSUME SessionIInv, [SessionNext]_sessionVars PROVE SessionIInv'
  OBVIOUS
<1>1. CASE SessionNext
  <2>1. Typed /\ Typed'
    BY <1>1, TypedStep DEF SessionIInv, Typed
  <2>2. AcceptedOnce' /\ OutputComplete' /\ CancelExplained' /\ DropsExplained'
    BY <1>1, <2>1, OutputStep, ReasonStep DEF SessionIInv
  <2>3. cancelled' \/ ModuleFileSent' \/ TransferOK'
    BY <1>1, <2>1, ExceptionsStay, TransferStep DEF SessionIInv
  <2> QED
    BY <2>1, <2>2, <2>3 DEF SessionIInv, Typed
<1>2. CASE UNCHANGED sessionVars
  BY <1>2 DEF sessionVars, moduleVars, toVars, fromVars, recvVars, clientVars, endVars, SessionIInv,
       SessionTypeOK, HandsOK, ErrorsOK, CancelExplained, AcceptedOnce, OutputComplete,
       DropsExplained, ModuleFileSent, TransferOK, ModuleFileInHand, Awaited
<1> QED
  BY <1>1, <1>2

(* It holds in every state.                                                  *)
LEMMA SessionInvAlways == SessionSpec => []SessionIInv
BY SessionInitInv, SessionStepInv, PTL DEF SessionSpec

(* What a module prints is sent once and in order as far as the session took *)
(* it over, and given up only when the client closed or left or a worker     *)
(* failed; the error channel has room for every error.                       *)
THEOREM SessionCorrect == SessionSpec => []SessionInv
<1>1. SessionIInv => SessionInv
  BY DEF SessionIInv, SessionInv
<1> QED
  BY <1>1, SessionInvAlways, PTL

(* Until the session is cancelled or the module sends files itself,          *)
(* RequestFile returns the file it asked for, whatever the client sends      *)
(* unasked and however the workers and the module race for currentFile.      *)
THEOREM RightFileAlways == SessionSpec => RightFile
<1>1. SessionIInv /\ [SessionNext]_sessionVars =>
        [/\ m = "await" /\ m' = "run" /\ ~cancelled
         /\ \A i \in DOMAIN down : ~(down[i].type = "file" /\ down[i].from = "module")
         => fmsg.type = "file" /\ fmsg.name = mname]_sessionVars
  <2> SUFFICES ASSUME SessionIInv, SessionNext, m = "await", m' = "run", ~cancelled,
                      \A i \in DOMAIN down : ~(down[i].type = "file" /\ down[i].from = "module")
               PROVE  fmsg.type = "file" /\ fmsg.name = mname
    OBVIOUS
  <2>1. TransferOK
    BY DEF SessionIInv, ModuleFileSent
  <2>2. fileMeetsModule
    BY DEF SessionNext, ModuleCalls, PrintFamily, ReadStdin, RequestFile, SendFile, Call,
         ModuleSteps, printMeetsWorker, requestMeetsWorker, sendFileMeetsWorker,
         stdinMeetsModule, sendFileCheck, sendFileSet, sendFileReadFails, callGivesUp, moduleReturns,
         ToClientSteps, fileMeetsWorker, toClientSetName, toClientNameFile, toClientSend,
         toClientClear, toClientSendFails, toClientDone,
         FromClientSteps, fromClientTakes, fromClientDone, fromClientCheckFile, fromClientClear,
         fromClientGivesUp, ReceiverSteps, receive, receiverGivesUp, brokerCloses,
         ClientSteps, clientStdin, clientHandles, clientUnsolicited, clientCloses, clientGoes,
         SessionOver, sessionVars, moduleVars
  <2> QED
    BY <2>1, <2>2 DEF fileMeetsModule, TransferOK, Awaited, ModuleFileInHand, SessionIInv, HandsOK
<1> QED
  BY <1>1, SessionInvAlways, PTL DEF SessionSpec, RightFile
=============================================================================
