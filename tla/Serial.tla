------------------------------- MODULE Serial -------------------------------
(***************************************************************************)
(* The serial module (pkg/module/serial): one Run that opens the port and   *)
(* monitors it or works through a script of send and expect steps, against  *)
(* a device that talks whenever it likes.                                   *)
(***************************************************************************)
EXTENDS SerialText

CONSTANTS
  Scenarios,   \* arguments of a Run, and what the device says meanwhile
  ReadChunk    \* readChunk

ASSUME SerialAssumption == ReadChunk \in Nat \ {0}

(* The arguments of a verb, and what the device says, are bytes.            *)
ASSUME ScenariosAssumption ==
  \A s \in Scenarios :
    /\ s.output \in Seq(Byte)
    /\ Len(s.tokens) \in Nat
    /\ \A k \in 1..(Len(s.tokens) \div 2) : s.tokens[2 * k] \in Seq(Byte)

VARIABLES
  scenario,    \* the scenario that is played
  said,        \* how many bytes of its output the device has produced
  wire,        \* bytes in the receive buffer of the port
  port,        \* "closed", "open", or "gone" when the device has disappeared
  pc, idx,     \* where Run is, and at which step
  buf, remainder, \* the engine
  todo,        \* what write has not written of the payload yet
  atLineStart, \* the clientWriter
  fired,       \* which of "cancel", "deadline", "drained" have happened
  outcome,     \* "none", "ok" or why Run failed
  raw,         \* everything read
  shown,       \* what the client was shown of it
  console,     \* the same with status lines
  sent,        \* what the device received
  marks,       \* per finished step: how much was shown by then
  dropped      \* an unterminated sequence was given up

history == <<raw, shown, console, sent, marks, dropped>>
engineVars == <<buf, remainder, todo, atLineStart>>
vars == <<scenario, said, wire, port, pc, idx, engineVars, fired, outcome, history>>

steps == parseArgs(scenario).value

(* loopCtx is done.                                                         *)
LoopDone == "cancel" \in fired \/ ("deadline" \in fired /\ scenario.timeout)

-----------------------------------------------------------------------------
(* The console of the client *)

(* clientWriter.Write *)
Write(out) ==
  /\ shown' = shown \o out /\ console' = console \o out
  /\ atLineStart' = IF out = <<>> THEN atLineStart ELSE Last(out) = "\n"

(* A status line, on a line of its own.                                     *)
markerf ==
  /\ console' = console \o (IF atLineStart THEN <<"MARK">> ELSE <<"\n", "MARK">>)
  /\ atLineStart' = TRUE /\ UNCHANGED shown

Return(result) == pc' = "returned" /\ outcome' = result /\ port' = "closed"

-----------------------------------------------------------------------------
(* Run *)

(* Parse, open, discard stale input.  A failure to discard is only logged.  *)
open ==
  /\ pc = "open"
  /\ \/ ~parseArgs(scenario).ok /\ Return("usage") /\ UNCHANGED <<wire, console, atLineStart, shown>>
     \/ parseArgs(scenario).ok /\ Return("port") /\ UNCHANGED <<wire, console, atLineStart, shown>>
     \/ /\ parseArgs(scenario).ok
        /\ port' = "open" /\ UNCHANGED outcome
        /\ pc' = IF steps = <<>> THEN "monitor" ELSE "step"
        /\ wire' \in {<<>>, wire}
        /\ markerf
  /\ UNCHANGED <<scenario, said, idx, buf, remainder, todo, fired, raw, sent, marks, dropped>>

Mark == marks' = Append(marks, Len(shown))

(* The loop over the steps turns to the next one.                           *)
nextStep ==
  /\ pc = "step"
  /\ IF idx <= Len(steps)
       THEN /\ pc' = IF steps[idx].kind = "expect" THEN "match" ELSE "sleep"
            /\ UNCHANGED <<console, atLineStart, shown, outcome, port>>
       ELSE IF Last(steps).kind # "expect"
              THEN pc' = "drain" /\ UNCHANGED <<console, atLineStart, shown, outcome, port>>
              ELSE Return("ok") /\ markerf
  /\ UNCHANGED <<scenario, said, wire, idx, buf, remainder, todo, fired, raw, sent, marks, dropped>>

(* Mutant: the context is looked at only between steps.                     *)
readUntilDeaf ==
  /\ pc = "match"
  /\ LET e == FindEnd(steps[idx].text, buf) IN
     IF e >= 0
       THEN /\ buf' = SubSeq(buf, e + 1, Len(buf))
            /\ marks' = Append(marks, Len(shown) - Len(buf) + e)
            /\ markerf /\ pc' = "step" /\ idx' = idx + 1 /\ UNCHANGED <<outcome, port>>
       ELSE /\ buf' = capBuffer(buf) /\ UNCHANGED <<idx, marks, console, atLineStart, shown>>
            /\ pc' = "read" /\ UNCHANGED <<outcome, port>>
  /\ UNCHANGED <<scenario, said, wire, remainder, todo, fired, raw, sent, dropped>>

(* readUntil up to its next Read: a match, the trimming, the context.       *)
readUntil ==
  /\ pc = "match"
  /\ LET e == FindEnd(steps[idx].text, buf) IN
     IF e >= 0
       THEN /\ buf' = SubSeq(buf, e + 1, Len(buf))
            /\ marks' = Append(marks, Len(shown) - Len(buf) + e)
            /\ markerf /\ pc' = "step" /\ idx' = idx + 1 /\ UNCHANGED <<outcome, port>>
       ELSE /\ buf' = capBuffer(buf) /\ UNCHANGED <<idx, marks, console, atLineStart, shown>>
            /\ IF LoopDone THEN Return("context") ELSE pc' = "read" /\ UNCHANGED <<outcome, port>>
  /\ UNCHANGED <<scenario, said, wire, remainder, todo, fired, raw, sent, dropped>>

(* One Read takes up to ReadChunk bytes; what is visible of them is shown.   *)
Takes(out) ==
  \E n \in 1..Min({ReadChunk, Len(wire)}) :
    LET chunk == SubSeq(wire, 1, n)
        c == IF scenario.keepEscapes THEN [out |-> chunk, remainder |-> <<>>] ELSE clean(remainder, chunk)
    IN /\ wire' = SubSeq(wire, n + 1, Len(wire)) /\ raw' = raw \o chunk
       /\ Write(c.out) /\ remainder' = c.remainder
       /\ dropped' = (dropped \/ Len(stripEscapes(remainder \o chunk).remainder) > MaxRemainder)
       /\ buf' = IF out = "matched" THEN buf \o c.out ELSE buf

(* The Read of readUntil: bytes, a read timeout, or an error.               *)
readStep ==
  /\ pc = "read"
  /\ \/ Takes("matched") /\ pc' = "match" /\ UNCHANGED <<outcome, port>>
     \/ /\ wire = <<>>
        /\ IF port = "gone" THEN Return("port") ELSE pc' = "match" /\ UNCHANGED <<outcome, port>>
        /\ UNCHANGED <<wire, remainder, buf, atLineStart, raw, shown, console, dropped>>
  /\ UNCHANGED <<scenario, said, idx, todo, fired, sent, marks>>

(* sleepCtx: the pause before a send, which the context may interrupt.      *)
sleepCtx ==
  /\ pc = "sleep"
  /\ \/ pc' = "write" /\ todo' = steps[idx].text /\ UNCHANGED <<outcome, port>>
     \/ LoopDone /\ scenario.delay /\ Return("context") /\ UNCHANGED todo
  /\ UNCHANGED <<scenario, said, wire, idx, buf, remainder, atLineStart, fired, history>>

(* Mutant: what a short write leaves is forgotten.                          *)
writeOnce ==
  /\ pc = "write" /\ port = "open" /\ todo # <<>>
  /\ \E n \in 1..Len(todo) : sent' = sent \o SubSeq(todo, 1, n) /\ todo' = <<>>
  /\ UNCHANGED <<scenario, said, wire, port, pc, idx, buf, remainder, atLineStart, fired, outcome,
                 raw, shown, console, marks, dropped>>

(* engine.write, one port write; it may be short.                           *)
write ==
  /\ pc = "write" /\ port = "open" /\ todo # <<>>
  /\ \E n \in 1..Len(todo) : sent' = sent \o SubSeq(todo, 1, n) /\ todo' = SubSeq(todo, n + 1, Len(todo))
  /\ UNCHANGED <<scenario, said, wire, port, pc, idx, buf, remainder, atLineStart, fired, outcome,
                 raw, shown, console, marks, dropped>>

writeFails ==
  /\ pc = "write" /\ port = "gone" /\ todo # <<>>
  /\ Return("port")
  /\ UNCHANGED <<scenario, said, wire, idx, engineVars, fired, history>>

(* All is written; output read before is not matched any more.              *)
written ==
  /\ pc = "write" /\ todo = <<>>
  /\ buf' = <<>> /\ markerf /\ Mark
  /\ pc' = "step" /\ idx' = idx + 1
  /\ UNCHANGED <<scenario, said, wire, port, remainder, todo, fired, outcome, raw, sent, dropped>>

(* pump: monitor and drain.  The end of the context is a success, a read     *)
(* error fails the monitor only.                                            *)
pump ==
  /\ pc \in {"monitor", "drain"}
  /\ LET done == IF pc = "monitor" THEN LoopDone ELSE fired \cap {"cancel", "drained"} # {} IN
     \/ /\ done \/ (pc = "drain" /\ port = "gone" /\ wire = <<>>)
        /\ Return("ok") /\ markerf
        /\ UNCHANGED <<wire, remainder, buf, raw, dropped>>
     \/ /\ ~done /\ pc = "monitor" /\ port = "gone" /\ wire = <<>>
        /\ Return("port")
        /\ UNCHANGED <<wire, remainder, buf, atLineStart, raw, shown, console, dropped>>
     \/ /\ ~done /\ Takes("shown")
        /\ UNCHANGED <<pc, outcome, port>>
  /\ UNCHANGED <<scenario, said, idx, todo, fired, sent, marks>>

-----------------------------------------------------------------------------
(* The device, the clock and the client *)

deviceSays ==
  /\ said < Len(scenario.output) /\ port # "gone" /\ pc # "returned"
  /\ said' = said + 1 /\ wire' = Append(wire, scenario.output[said + 1])
  /\ UNCHANGED <<scenario, port, pc, idx, engineVars, fired, outcome, history>>

deviceGone ==
  /\ port = "open" /\ port' = "gone"
  /\ UNCHANGED <<scenario, said, wire, pc, idx, engineVars, fired, outcome, history>>

fires(e) ==
  /\ port # "closed" /\ e \notin fired
  /\ e = "deadline" => scenario.timeout
  /\ e = "drained" => pc = "drain"
  /\ fired' = fired \cup {e}
  /\ UNCHANGED <<scenario, said, wire, port, pc, idx, engineVars, outcome, history>>

returned == pc = "returned" /\ UNCHANGED vars

-----------------------------------------------------------------------------

SerialInit ==
  /\ scenario \in Scenarios
  /\ said = 0 /\ wire = <<>> /\ port = "closed" /\ pc = "open" /\ idx = 1
  /\ buf = <<>> /\ remainder = <<>> /\ todo = <<>> /\ atLineStart = TRUE
  /\ fired = {} /\ outcome = "none"
  /\ raw = <<>> /\ shown = <<>> /\ console = <<>> /\ sent = <<>> /\ marks = <<>> /\ dropped = FALSE

Run == open \/ nextStep \/ readUntil \/ readStep \/ sleepCtx \/ write \/ writeFails \/ written \/ pump

SerialNext ==
  \/ Run \/ deviceSays \/ deviceGone \/ returned
  \/ \E e \in {"cancel", "deadline", "drained"} : fires(e)

SerialSpec == SerialInit /\ [][SerialNext]_vars

(* Run goes on whenever it can: reads have a timeout, and timers fire.      *)
SerialFairSpec == SerialSpec /\ WF_vars(Run) /\ WF_vars(fires("deadline")) /\ WF_vars(fires("drained"))

-----------------------------------------------------------------------------
(* Properties. *)

(* Types; a Run has an outcome exactly when it has returned, and every step   *)
(* it has left behind has its mark.                                           *)
SerialTypeOK ==
  /\ said \in 0..Len(scenario.output) /\ port \in {"closed", "open", "gone"}
  /\ pc \in {"open", "step", "match", "read", "sleep", "write", "monitor", "drain", "returned"}
  /\ outcome \in {"none", "ok", "usage", "port", "context"} /\ (outcome = "none" <=> pc # "returned")
  /\ idx \in 1..(Len(steps) + 1) /\ Len(marks) = idx - 1
  /\ fired \subseteq {"cancel", "deadline", "drained"}
  /\ atLineStart \in BOOLEAN /\ dropped \in BOOLEAN

(* The client sees what a terminal would have shown of the bytes read,       *)
(* however the reads cut them: a sequence split between two reads is         *)
(* neither shown nor does it take visible text with it.                     *)
OutputFaithful ==
  IF scenario.keepEscapes THEN shown = raw ELSE ~dropped => shown = Visible(raw)

(* The buffers stay bounded however long the output is and however          *)
(* malformed its escape sequences are.                                      *)
MemoryBounded == Len(remainder) <= MaxRemainder /\ Len(buf) <= MatchWindow + ReadChunk

(* What was shown before step k counts for it.                              *)
Since(k) == IF k = 1 THEN 0 ELSE marks[k - 1]

(* Every step marked as matched did match: its text was shown after          *)
(* everything that earlier steps matched, and after earlier sends.  Shown    *)
(* after a send is not produced after it, as the comment of engine.write has *)
(* it: output that waits unread in the port during a send is shown, and may  *)
(* be matched, after it.                                                     *)
MatchSound ==
  \A k \in 1..Len(marks) : steps[k].kind = "expect" =>
    /\ marks[k] - Len(steps[k].text) >= Since(k)
    /\ SubSeq(shown, marks[k] - Len(steps[k].text) + 1, marks[k]) = steps[k].text

(* While an expect waits for more output, the text it waits for is not in    *)
(* what has been shown since the step before: neither the trimming of the    *)
(* buffer nor the boundary of two reads hides a match.  This is said of      *)
(* texts that fit the window.  Longer ones "cannot match" by the comment of  *)
(* matchWindow, but do if the reads fall so: the buffer is searched before   *)
(* it is trimmed, so a match spans up to a window and a chunk.               *)
NoMatchMissed ==
  pc = "read" /\ Len(steps[idx].text) <= MatchWindow =>
    FindEnd(steps[idx].text, SubSeq(shown, Since(idx) + 1, Len(shown))) = -1

(* No match is invented, and none of a text that fits the window is missed;  *)
(* with the two differences from the comments of the code named above, about *)
(* output older than a send and about texts longer than the window.          *)
MatchesExact == MatchSound /\ NoMatchMissed

(* The device receives the payloads of the sends, whole, once and in order,  *)
(* whatever the port accepts at a time; a run that fails has sent a prefix.  *)
SentInOrder ==
  LET all[k \in 0..Len(steps)] ==
        IF k = 0 THEN <<>> ELSE IF steps[k].kind = "send" THEN all[k - 1] \o steps[k].text ELSE all[k - 1]
  IN /\ IsPrefix(sent, all[Len(steps)]) /\ IsPrefix(all[Len(marks)], sent)
     /\ pc # "write" /\ outcome # "port" => sent = all[Len(marks)]

(* A status line never continues a line of the device.                      *)
MarkersOnOwnLine ==
  \A i \in DOMAIN console : console[i] = "MARK" => i = 1 \/ console[i - 1] \in {"\n", "MARK"}

(* What the client reads is what a terminal would have shown, with status   *)
(* lines on lines of their own, and telling the two apart takes bounded     *)
(* memory.                                                                  *)
SerialInv == SerialTypeOK /\ OutputFaithful /\ MemoryBounded /\ MarkersOnOwnLine

(* The timeout of the script and the cancellation of the session end a run,  *)
(* also while the device keeps talking or says nothing, and a drain ends by  *)
(* itself.                                                                  *)
EndsInTime == LoopDone \/ pc = "drain" ~> pc = "returned"
=============================================================================
