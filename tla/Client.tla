------------------------------- MODULE Client -------------------------------
(***************************************************************************)
(* dutctl's side of a Run (cmds/dutctl/rpc.go): the goroutine of runRPC,    *)
(* its receive routine and its send routine, the error channel and the run  *)
(* context they share.                                                      *)
(*                                                                          *)
(* A stream has a leg per connection: "client" ends at dutctl, and "agent"  *)
(* exists when dutserver relays.  Of the transport only delivery in order,  *)
(* the end of either direction and failure are kept.                        *)
(***************************************************************************)
EXTENDS Naturals, Sequences, SequencesExt

CONSTANTS MaxStdin     \* lines the user may type

ASSUME MaxStdinAssumption == MaxStdin \in Nat

Legs == {"client", "agent"}
Responses == {"content", "fileRequest"}   \* output or a file to save, a file to send
Requests == {"command", "stdin", "file", "garbled"}

VARIABLES
  up, down,       \* per leg: messages under way, in the order they were sent
  end,            \* per leg: "open", or the status the server side ended with
  main, rcv, snd, \* where runRPC and its two routines are
  runCancelled,   \* runCtx is done
  signalled,      \* the signal context is done
  errChan,        \* errors of the routines that nobody has taken
  result,         \* what runRPC returned
  shown,          \* responses the receive routine has dealt with
  typed,          \* lines the user has typed
  raced           \* a select took the done context although an error was waiting

streamVars == <<up, down, end>>
runVars == <<main, runCancelled, signalled, errChan, result, raced>>
clientVars == <<runVars, rcv, snd, shown, typed>>

Running == main # "returned"

(* Send succeeds while nobody ended the stream.  Once somebody has, it may   *)
(* still succeed, into the void.                                            *)
Put(leg, msg) == up' = [up EXCEPT ![leg] = IF end[leg] = "open" THEN Append(@, msg) ELSE @]

SendMayFail(leg, cancelled) == end[leg] # "open" \/ cancelled

(* cancelRunCtx: a select that is parked on the context wakes.              *)
CancelRun ==
  /\ runCancelled' = TRUE
  /\ main' = IF main = "parked" THEN "done" ELSE main
  /\ UNCHANGED <<errChan, result, raced>>

(* runRPC returns r; the process ends with it, and so do the routines.       *)
Return(r) ==
  /\ main' = "returned" /\ result' = r
  /\ runCancelled' = TRUE /\ errChan' = <<>> /\ rcv' = "ended" /\ snd' = "ended"

(* errChan <- e, after which the routine leaves: a parked select takes the   *)
(* error; otherwise it stays in the channel, which has room for one error    *)
(* each.  Only the receive routine cancels the run when it leaves.          *)
Post(who, e) ==
  /\ IF main = "parked"
       THEN Return(e)
       ELSE /\ errChan' = Append(errChan, e)
            /\ IF who = "rcv" THEN rcv' = "ended" /\ runCancelled' = TRUE /\ UNCHANGED snd
                              ELSE snd' = "ended" /\ UNCHANGED <<rcv, runCancelled>>
            /\ UNCHANGED <<main, result>>
  /\ UNCHANGED <<signalled, raced>>

-----------------------------------------------------------------------------
(* runRPC itself. *)

(* The command is the first message; then both routines start.  If it cannot *)
(* be sent, the error is the result.                                        *)
runRPC ==
  /\ main = "idle"
  /\ \/ /\ Put("client", "command")
        /\ main' = "starting" /\ rcv' = "receive" /\ snd' = "read"
        /\ UNCHANGED <<result, runCancelled, errChan>>
     \/ Return("send") /\ UNCHANGED up
  /\ UNCHANGED <<down, end, signalled, raced, shown, typed>>

(* The final select.  With both cases ready Go picks either.                *)
selectDone ==
  /\ main = "starting" /\ runCancelled
  /\ main' = "done" /\ raced' = (raced \/ errChan # <<>>)
  /\ UNCHANGED <<runCancelled, signalled, errChan, result, rcv, snd, shown, typed, streamVars>>

selectError ==
  /\ main = "starting" /\ errChan # <<>>
  /\ Return(Head(errChan))
  /\ UNCHANGED <<signalled, raced, shown, typed, streamVars>>

selectParks ==
  /\ main = "starting" /\ ~runCancelled /\ errChan = <<>>
  /\ main' = "parked"
  /\ UNCHANGED <<runCancelled, signalled, errChan, result, raced, rcv, snd, shown, typed, streamVars>>

(* The signal context is looked at after the select.                        *)
runDone ==
  /\ main = "done"
  /\ Return(IF signalled THEN "interrupted" ELSE "ok")
  /\ UNCHANGED <<signalled, raced, shown, typed, streamVars>>

signal ==
  /\ main \notin {"idle", "returned"} /\ ~signalled
  /\ signalled' = TRUE /\ CancelRun
  /\ UNCHANGED <<rcv, snd, shown, typed, streamVars>>

-----------------------------------------------------------------------------
(* The receive routine.  It looks at the context before each Receive, which  *)
(* the context ends too; it cancels the run when it leaves.                 *)

Take == down' = [down EXCEPT !["client"] = Tail(@)]
Receives(kinds) == Running /\ rcv = "receive" /\ down["client"] # <<>> /\ Head(down["client"]) \in kinds

rcvShows ==
  /\ Receives({"content"}) /\ Take
  /\ shown' = Append(shown, Head(down["client"]))
  /\ UNCHANGED <<runVars, rcv, snd, typed, up, end>>

rcvFileRequest ==
  /\ Receives({"fileRequest"}) /\ Take
  /\ rcv' = "sending"
  /\ UNCHANGED <<runVars, snd, shown, typed, up, end>>

(* The requested file cannot be read, or the received one not be written.   *)
rcvFileFails ==
  /\ Receives(Responses) /\ Take
  /\ Post("rcv", "file")
  /\ UNCHANGED <<shown, typed, up, end>>

(* Both routines call Send on one stream, which does not serialise them: the *)
(* framing of a message is lost if another is written meanwhile.            *)
Sent(msg, other) ==
  \/ Put("client", msg)
  \/ other = "sending" /\ Put("client", "garbled")

rcvSendsFile ==
  /\ Running /\ rcv = "sending"
  /\ Sent("file", snd)
  /\ shown' = Append(shown, "fileRequest") /\ rcv' = "receive"
  /\ UNCHANGED <<runVars, snd, typed, down, end>>

rcvSendFails ==
  /\ Running /\ rcv = "sending" /\ SendMayFail("client", runCancelled)
  /\ Post("rcv", "send")
  /\ UNCHANGED <<shown, typed, streamVars>>

(* io.EOF, or a cancellation of either side: no error.                      *)
rcvEnds ==
  /\ Running /\ rcv = "receive"
  /\ runCancelled \/ (down["client"] = <<>> /\ end["client"] \in {"ok", "canceled"})
  /\ rcv' = "ended" /\ CancelRun
  /\ UNCHANGED <<signalled, snd, shown, typed, streamVars>>

rcvFails ==
  /\ Running /\ rcv = "receive" /\ down["client"] = <<>> /\ end["client"] = "failed"
  /\ Post("rcv", "receive")
  /\ UNCHANGED <<shown, typed, streamVars>>

-----------------------------------------------------------------------------
(* The send routine; it never cancels the run. *)

sndReads ==
  /\ Running /\ snd = "read" /\ typed < MaxStdin
  /\ typed' = typed + 1 /\ snd' = "sending"
  /\ UNCHANGED <<runVars, rcv, shown, streamVars>>

(* Mutant: the send routine cancels the run when stdin ends.                *)
sndEndsCancels ==
  /\ Running /\ snd = "read"
  /\ snd' = "ended" /\ CancelRun
  /\ UNCHANGED <<signalled, rcv, shown, typed, streamVars>>

(* End of stdin, or the context is found cancelled before the next read.    *)
sndEnds ==
  /\ Running /\ snd = "read"
  /\ snd' = "ended"
  /\ UNCHANGED <<runVars, rcv, shown, typed, streamVars>>

sndReadFails ==
  /\ Running /\ snd = "read"
  /\ Post("snd", "stdin")
  /\ UNCHANGED <<shown, typed, streamVars>>

sndSends ==
  /\ Running /\ snd = "sending"
  /\ Sent("stdin", rcv)
  /\ snd' = "read"
  /\ UNCHANGED <<runVars, rcv, shown, typed, down, end>>

sndFails ==
  /\ Running /\ snd = "sending" /\ SendMayFail("client", runCancelled)
  /\ Post("snd", "send")
  /\ UNCHANGED <<shown, typed, streamVars>>

-----------------------------------------------------------------------------

ClientInit ==
  /\ up = [l \in Legs |-> <<>>] /\ down = [l \in Legs |-> <<>>]
  /\ end = [l \in Legs |-> "open"]
  /\ main = "idle" /\ rcv = "none" /\ snd = "none"
  /\ runCancelled = FALSE /\ signalled = FALSE
  /\ errChan = <<>> /\ result = "none" /\ raced = FALSE
  /\ shown = <<>> /\ typed = 0

ClientMain == runRPC \/ selectDone \/ selectError \/ selectParks \/ runDone
ReceiveRoutine ==
  \/ rcvShows \/ rcvFileRequest \/ rcvFileFails
  \/ rcvSendsFile \/ rcvSendFails \/ rcvEnds \/ rcvFails
SendRoutine == sndReads \/ sndEnds \/ sndReadFails \/ sndSends \/ sndFails

ClientTypeOK ==
  /\ up \in [Legs -> Seq(Requests)] /\ down \in [Legs -> Seq(Responses)]
  /\ end \in [Legs -> {"open", "ok", "canceled", "failed"}]
  /\ main \in {"idle", "starting", "parked", "done", "returned"}
  /\ rcv \in {"none", "receive", "sending", "ended"}
  /\ snd \in {"none", "read", "sending", "ended"}
  /\ runCancelled \in BOOLEAN /\ signalled \in BOOLEAN /\ raced \in BOOLEAN
  /\ errChan \in Seq({"receive", "file", "send", "stdin"}) /\ Len(errChan) <= 2
  /\ result \in {"none", "ok", "interrupted", "receive", "file", "send", "stdin"}
  /\ shown \in Seq(Responses) /\ typed \in 0..MaxStdin
=============================================================================
