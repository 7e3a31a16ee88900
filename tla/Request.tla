------------------------------ MODULE Request -------------------------------
(***************************************************************************)
(* One shell and its successive dutctl invocations against one dutagent:   *)
(* the agent loads its configuration; each invocation parses its command   *)
(* line, makes one RPC through the version and identity interceptors, and  *)
(* exits with a code and the warnings it collected.                        *)
(*                                                                         *)
(* The RPC and the client are concurrent: the client may give up at its    *)
(* deadline or on a signal while the request is still on its way, and the  *)
(* agent may carry it out later, after the process has exited.  A second   *)
(* user ("bob") may take a lock with a client of his own, which may send   *)
(* any number of seconds.  What happens inside a Run is in Agent, Session  *)
(* and Client; here a run resolves its arguments and succeeds or fails.    *)
(*                                                                         *)
(* Durations are in half seconds, so that a duration that is not a whole   *)
(* number of seconds exists, and time.Duration is a signed word of         *)
(* WordBits bits.                                                          *)
(***************************************************************************)
EXTENDS Config, Versions

CONSTANTS
  Setups,         \* see below
  ParseDuration,  \* the duration a word denotes, for the words that do
  WordBits,       \* width of time.Duration
  DefaultLock,    \* defaultLockDuration
  LongLock        \* longLockWarnThreshold

(* A setup is what does not change: the agent's configuration document and  *)
(* version; the shell's user, client version and log mode; and, to bound    *)
(* the model, the command lines it may type, how many invocations it makes, *)
(* and the duration_seconds bob's client may send.                          *)
ASSUME SetupsAssumption ==
  \A s \in Setups :
    /\ DOMAIN s = {"doc", "agent", "user", "client", "mode",
                   "lines", "invocations", "seconds"}
    /\ s.doc \in DocNode
    /\ s.mode \in {"none", "warn", "debug"}
    /\ s.lines \subseteq Seq(Seq(Token))
    /\ s.invocations \in Nat \ {0} /\ s.seconds \subseteq Int

(* Half of the values of time.Duration: those that are not negative.        *)
HalfWord == 2^(WordBits - 1)

ASSUME WordAssumption == WordBits \in Nat \ {0} /\ HalfWord \in Nat \ {0}

(* Durations fit their type, and the two of the code are positive.          *)
ASSUME DurationsAssumption ==
  /\ \A t \in DOMAIN ParseDuration : ParseDuration[t] \in (-HalfWord)..(HalfWord - 1)
  /\ DefaultLock \in 1..(HalfWord - 1) /\ LongLock \in 1..(HalfWord - 1)

VARIABLES
  setup,      \* the member of Setups this behaviour is about
  config,     \* the agent: the result of loading the document
  locks,      \* the agent: the explicit lock of each locked device
  calls,      \* calls[i]: the RPC of invocation i
  foreign,    \* whether bob has used his turn
  pc,         \* the client: where the invocation is
  args,       \* the client: its positional arguments
  signalled,  \* the client: SIGINT or SIGTERM arrived
  err,        \* the client: the error dispatch returned, "" for nil
  buf,        \* the client: warnings kept for the summary
  stderr,     \* the client: what it wrote to stderr
  code        \* the client: its exit code, -1 while it runs

agentVars == <<setup, config, locks, foreign>>
clientVars == <<pc, args, signalled, err, buf, stderr, code>>
vars == <<agentVars, calls, clientVars>>

-----------------------------------------------------------------------------
(* Words, identities and durations.                                         *)

Word(t) == <<Lit(t)>>

(* The name a word stands for; a word with a reference in it names nothing. *)
Name(w) == IF Len(w) = 1 /\ w[1].kind = "lit" THEN w[1].text ELSE "?"

(* auth.Default: <user>@<host>, or a fresh name when USER or the host name  *)
(* cannot be read.  The flag -u overrides it, also with the empty string.   *)
Default(user, i) == IF user = "unset" THEN <<"unknown", i>> ELSE <<user, 0>>

(* The agent's identifier: the header's name, or a fresh anonymous one.     *)
identify(header, i) ==
  IF header # <<"", 0>> THEN [user |-> header, anonymous |-> FALSE]
  ELSE [user |-> <<"anonymous", i>>, anonymous |-> TRUE]

requireNamed(id) == ~id.anonymous

(* Two's complement of WordBits bits.                                       *)
Wrap(x) == LET m == x % (2 * HalfWord)
           IN  IF m < HalfWord THEN m ELSE m - 2 * HalfWord

(* The whole seconds of a duration, truncated towards zero.  The code goes   *)
(* through a float64, which for durations of months may round the last       *)
(* nanoseconds of a second up to the next; that is left out.                 *)
Seconds(duration) == IF duration < 0 THEN -((-duration) \div 2) ELSE duration \div 2

(* Mutant: the seconds are taken for a duration.                            *)
lockSeconds(seconds) == IF seconds = 0 THEN DefaultLock ELSE seconds

(* The duration the Lock handler asks the lock table for.                   *)
lockDuration(seconds) ==
  LET dur == Wrap(2 * seconds) IN IF dur = 0 THEN DefaultLock ELSE dur

(* parseLockDuration: [error, duration].                                    *)
parseLockDuration(cmdArgs) ==
  IF cmdArgs = <<>> \/ cmdArgs[1] = <<>> THEN [err |-> "", duration |-> 0]
  ELSE LET t == Name(cmdArgs[1]) IN
       IF t \notin DOMAIN ParseDuration \/ ParseDuration[t] <= 0
       THEN [err |-> "duration", duration |-> 0]
       ELSE [err |-> "", duration |-> ParseDuration[t]]

-----------------------------------------------------------------------------
(* The command line.  A request, or the error that stops it in the client.  *)

Rpc(rpc, d, c, more) ==
  [rpc |-> rpc, device |-> d, command |-> c, args |-> more, seconds |-> 0,
   force |-> FALSE, err |-> ""]

NoRpc(e) == [Rpc("none", "", "", <<>>) EXCEPT !.err = e]

lockRPC(d, cmdArgs) ==
  LET parsed == parseLockDuration(cmdArgs) IN
  IF parsed.err # "" THEN NoRpc(parsed.err)
  ELSE [Rpc("lock", d, "", <<>>) EXCEPT !.seconds = Seconds(parsed.duration)]

parseUnlockArgs(d, cmdArgs) ==
  IF cmdArgs = <<>> THEN Rpc("unlock", d, "", <<>>)
  ELSE IF cmdArgs = <<Word("force")>> THEN [Rpc("unlock", d, "", <<>>) EXCEPT !.force = TRUE]
  ELSE NoRpc("cmdline")

dispatchCommand(d, c, cmdArgs) ==
  CASE c = "lock" -> IF Len(cmdArgs) > 1 THEN NoRpc("cmdline") ELSE lockRPC(d, cmdArgs)
    [] c = "unlock" -> parseUnlockArgs(d, cmdArgs)
    [] c \notin {"lock", "unlock"} ->
         IF cmdArgs # <<>> /\ cmdArgs[1] = Word("help")
         THEN IF Len(cmdArgs) > 1 THEN NoRpc("cmdline") ELSE Rpc("details", d, c, <<>>)
         ELSE Rpc("run", d, c, cmdArgs)

route(a) ==
  IF a = <<>> THEN Rpc("list", "", "", <<>>)
  ELSE IF a[1] = Word("list")
       THEN IF Len(a) > 1 THEN NoRpc("cmdline") ELSE Rpc("list", "", "", <<>>)
  ELSE IF Len(a) = 1 THEN Rpc("commands", Name(a[1]), "", <<>>)
  ELSE dispatchCommand(Name(a[1]), Name(a[2]), SubSeq(a, 3, Len(a)))

-----------------------------------------------------------------------------
(* The agent's handlers.  An answer holds what the client is told: ok or    *)
(* not, and for a lock how long it lasts; moduleArgs is what the modules    *)
(* were run with, said how many messages a run sent.                        *)

Answer(ok) == [ok |-> ok, granted |-> 0, fresh |-> FALSE, moduleArgs |-> <<>>, said |-> 0]
Unhandled == Answer(FALSE)

HeldByOther(d, user) == d \in DOMAIN locks /\ locks[d].owner # user

Without(d) == [x \in DOMAIN locks \ {d} |-> locks[x]]

(* locker.Lock: a fresh hold, or the longer of the new one and what is left *)
(* of the owner's own.                                                      *)
Grant(d, id, dur, mine, left) ==
  locks' = [x \in DOMAIN locks \union {d} |->
              IF x # d THEN locks[x]
              ELSE [owner |-> id.user, mine |-> mine,
                    left |-> IF left > dur THEN left ELSE dur]]

(* What may be left of the hold on d: nothing if it was just taken or has   *)
(* run out, which the lookup finds out.                                     *)
LeftOf(d) == IF d \in DOMAIN locks THEN 1..locks[d].left ELSE {0}

Lock(i, req, id) ==
  LET dur == lockDuration(req.seconds)
      granted == requireNamed(id) /\ Find(config.devs, req.device) /\ dur > 0
                 /\ ~HeldByOther(req.device, id.user)
  IN  \/ /\ ~granted
         /\ calls' = [calls EXCEPT ![i].status = "answered"]
         /\ UNCHANGED locks
      \/ /\ granted
         /\ \E left \in LeftOf(req.device) :
              /\ Grant(req.device, id, dur, TRUE, left)
              /\ calls' = [calls EXCEPT ![i].status = "answered",
                             ![i].answer = [Answer(TRUE) EXCEPT
                               !.granted = locks'[req.device].left,
                               !.fresh = left = 0]]

(* Unlock looks at the lock table only, not at the configuration.           *)
Unlock(i, req, id) ==
  LET cleared == /\ req.device \in DOMAIN locks
                 /\ \/ req.force
                    \/ requireNamed(id) /\ locks[req.device].owner = id.user
  IN  /\ locks' = IF cleared THEN Without(req.device) ELSE locks
      /\ calls' = [calls EXCEPT ![i].status = "answered", ![i].answer = Answer(cleared)]

(* The states of Run up to executeModules, then the modules' own result.    *)
Run(i, req, id) ==
  LET found == FindCmd(config.devs, req.device, req.command) = ""
      cmd == config.devs[req.device][req.command]
      runs == /\ found
              /\ ~HeldByOther(req.device, id.user)
              /\ ModuleArgsError(cmd, req.args) = ""
  IN  /\ UNCHANGED locks
      /\ \/ /\ ~runs
            /\ calls' = [calls EXCEPT ![i].status = "answered"]
         \/ /\ runs
            /\ \E ok \in BOOLEAN, said \in 0..2 :
                 calls' = [calls EXCEPT ![i].status = "answered",
                             ![i].answer = [Answer(ok) EXCEPT
                               !.moduleArgs = ModuleArgs(cmd, req.args),
                               !.said = said]]

(* List, Commands and Details change nothing; List never fails.             *)
Lookup(i, req) ==
  /\ UNCHANGED locks
  /\ calls' = [calls EXCEPT ![i].status = "answered",
                 ![i].answer = Answer(
                   CASE req.rpc = "list" -> TRUE
                     [] req.rpc = "commands" -> Find(config.devs, req.device)
                     [] req.rpc = "details" ->
                          FindCmd(config.devs, req.device, req.command) = "")]

(* A request arrives: the version is enforced first, then the caller's      *)
(* identity resolved, then the handler runs.                                *)
handle(i) ==
  LET req == calls[i].req
      id == identify(Default(setup.user, i), i)
  IN  /\ calls[i].status = "inflight"
      /\ UNCHANGED <<setup, config, foreign, clientVars>>
      /\ IF ~enforce(setup.agent, setup.client)
         THEN /\ calls' = [calls EXCEPT ![i].status = "rejected"]
              /\ UNCHANGED locks
         ELSE CASE req.rpc = "lock" -> Lock(i, req, id)
                [] req.rpc = "unlock" -> Unlock(i, req, id)
                [] req.rpc = "run" -> Run(i, req, id)
                [] req.rpc \in {"list", "commands", "details"} -> Lookup(i, req)

(* bob's client asks for a lock of any number of seconds, in either sign.   *)
bobLocks(d, seconds) ==
  LET dur == lockDuration(seconds) IN
  /\ config.ok /\ ~foreign
  /\ foreign' = TRUE
  /\ d \in DOMAIN config.devs
  /\ IF dur > 0 /\ ~HeldByOther(d, <<"bob", 0>>)
     THEN \E left \in LeftOf(d) :
            Grant(d, [user |-> <<"bob", 0>>, anonymous |-> FALSE], dur, FALSE, left)
     ELSE UNCHANGED locks
  /\ UNCHANGED <<setup, config, calls, clientVars>>

(* A lock runs out.                                                         *)
expires(d) ==
  /\ d \in DOMAIN locks
  /\ locks' = Without(d)
  /\ UNCHANGED <<setup, config, foreign, calls, clientVars>>

-----------------------------------------------------------------------------
(* The client.  In debug mode a record is written at once, in warn mode a   *)
(* warning is kept for the summary that exit writes first.                  *)

Logged(ws) == IF setup.mode = "warn" THEN buf \o ws ELSE buf
Written(ws) == IF setup.mode = "debug" THEN stderr \o ws ELSE stderr

(* The agent starts; a configuration it cannot load ends it.                *)
loadConfig ==
  /\ pc = "load"
  /\ config' = UnmarshalYAML(setup.doc)
  /\ pc' = IF config'.ok THEN "shell" ELSE "refused"
  /\ UNCHANGED <<setup, locks, calls, foreign, args, signalled, err, buf, stderr, code>>

(* The user starts dutctl: a new process.                                   *)
invoke(a) ==
  /\ pc = "shell" /\ Len(calls) < setup.invocations
  /\ args' = a /\ pc' = "start"
  /\ signalled' = FALSE /\ err' = "" /\ buf' = <<>> /\ stderr' = <<>> /\ code' = -1
  /\ calls' = Append(calls, [req |-> NoRpc(""), status |-> "unsent", answer |-> Unhandled])
  /\ UNCHANGED agentVars

(* `version` prints and exits, without a connection.                        *)
start ==
  /\ pc = "start"
  /\ args # <<>> /\ args[1] = Word("version")
  /\ pc' = "returned"
  /\ UNCHANGED <<agentVars, calls, args, signalled, err, buf, stderr, code>>

(* dispatch routes the command line; an error stops it, otherwise the       *)
(* request is sent.  lockRPC warns of a long lock before it sends.          *)
dispatch ==
  LET req == route(args)
      i == Len(calls)
      long == IF /\ req.rpc = "lock" /\ Len(args) = 3
                 /\ parseLockDuration(SubSeq(args, 3, 3)).duration > LongLock
              THEN <<"long">> ELSE <<>>
  IN  /\ pc = "start"
      /\ ~(args # <<>> /\ args[1] = Word("version"))
      /\ \/ /\ req.rpc = "none"
            /\ err' = req.err /\ pc' = "returned"
            /\ UNCHANGED <<calls, buf, stderr>>
         \/ /\ req.rpc # "none"
            /\ calls' = [calls EXCEPT ![i].req = req, ![i].status = "inflight"]
            /\ buf' = Logged(long) /\ stderr' = Written(long)
            /\ pc' = "waiting"
            /\ UNCHANGED err
      /\ UNCHANGED <<agentVars, args, signalled, code>>

(* A signal cancels the context of the invocation, until dispatch has        *)
(* returned: exit stands for that moment and what follows it.  Later signals *)
(* have their default action and kill the process; they are left out, as are *)
(* signals that meet `version`, which has no such context.                   *)
signal ==
  /\ pc \in {"start", "waiting", "returned"}
  /\ ~signalled /\ signalled' = TRUE
  /\ UNCHANGED <<agentVars, calls, pc, args, err, buf, stderr, code>>

(* The version advisor's warning about the agent, once, when a response has *)
(* been received without an error: a unary answer, or a first message of a  *)
(* run.                                                                     *)
report(call) ==
  IF /\ drifts(setup.client, setup.agent)
     /\ call.status = "answered"
     /\ IF call.req.rpc = "run" THEN call.answer.said > 0 ELSE call.answer.ok
  THEN <<"drift">> ELSE <<>>

(* The answer arrives.  The goroutines of a run, and its stream, are in      *)
(* Client; here a run has succeeded or failed.  A stream that ends as        *)
(* cancelled is a clean end for runRPC: only a cancelled request ends so.    *)
returns ==
  LET call == calls[Len(calls)] IN
  /\ pc = "waiting"
  /\ call.status \in {"answered", "rejected"}
  /\ err' = IF call.answer.ok THEN "" ELSE "rpc"
  /\ buf' = Logged(report(call)) /\ stderr' = Written(report(call))
  /\ pc' = "returned"
  /\ UNCHANGED <<agentVars, calls, args, signalled, code>>

(* Mutant: only runs have a deadline.                                       *)
unaryWaits ==
  /\ pc = "waiting"
  /\ calls[Len(calls)].req.rpc = "run"
  /\ err' = "rpc" /\ pc' = "returned"
  /\ UNCHANGED <<agentVars, calls, args, signalled, buf, stderr, code>>

(* A unary call gives up after unaryTimeout; a run has no deadline.  The    *)
(* request may still be on its way.                                         *)
unaryTimeout ==
  /\ pc = "waiting"
  /\ calls[Len(calls)].req.rpc # "run"
  /\ err' = "rpc" /\ pc' = "returned"
  /\ UNCHANGED <<agentVars, calls, args, signalled, buf, stderr, code>>

(* The call of a signalled invocation is cancelled; what its stream had     *)
(* delivered before (a run's messages) has been reported.  A run whose end   *)
(* and whose signal both came before runRPC looked is an interrupted one.    *)
cancelled ==
  LET call == calls[Len(calls)]
      seen == IF call.req.rpc = "run" THEN {<<>>, report(call)} ELSE {<<>>}
  IN  /\ pc = "waiting" /\ signalled
      /\ err' = "rpc" /\ pc' = "returned"
      /\ \E w \in seen : buf' = Logged(w) /\ stderr' = Written(w)
      /\ UNCHANGED <<agentVars, calls, args, signalled, code>>

(* The agent cannot be reached: nothing was delivered.                      *)
unreachable ==
  /\ pc = "waiting"
  /\ calls[Len(calls)].status = "inflight"
  /\ calls' = [calls EXCEPT ![Len(calls)].status = "lost"]
  /\ err' = "rpc" /\ pc' = "returned"
  /\ UNCHANGED <<agentVars, args, signalled, buf, stderr, code>>

(* Mutant: a signal makes every outcome an interrupt.                       *)
asInterruptAlways(e) == IF signalled THEN "interrupted" ELSE e

asInterrupt(e) == IF e # "" /\ signalled THEN "interrupted" ELSE e

(* exit: the summary of the warnings, then the error, then the code.  start *)
(* exits directly for `version`, with no dispatch around it.                *)
exit ==
  LET e == asInterrupt(err) IN
  /\ pc = "returned"
  /\ stderr' = stderr \o buf \o
       (CASE e = "" -> <<>>
          [] e = "cmdline" -> <<"error", "usage">>
          [] e = "interrupted" -> <<"interrupted">>
          [] e \in {"rpc", "duration"} -> <<"error">>)
  /\ buf' = <<>>
  /\ code' = CASE e = "" -> 0
               [] e = "interrupted" -> 130
               [] e \notin {"", "interrupted"} -> 1
  /\ pc' = "exited"
  /\ UNCHANGED <<agentVars, calls, args, signalled, err>>

(* Back in the shell.                                                       *)
again ==
  /\ pc = "exited" /\ Len(calls) < setup.invocations
  /\ pc' = "shell"
  /\ UNCHANGED <<agentVars, calls, args, signalled, err, buf, stderr, code>>

-----------------------------------------------------------------------------
RequestInit ==
  /\ setup \in Setups
  /\ config = ConfigError("", "", "")
  /\ locks = <<>> /\ calls = <<>> /\ foreign = FALSE
  /\ pc = "load" /\ args = <<>> /\ signalled = FALSE /\ err = ""
  /\ buf = <<>> /\ stderr = <<>> /\ code = -1

ClientStep ==
  \/ \E a \in setup.lines : invoke(a)
  \/ start \/ dispatch \/ returns \/ unaryTimeout \/ cancelled \/ unreachable
  \/ exit \/ again

(* Nothing is left to do, except for what a late request or the clock does. *)
Finished ==
  /\ pc = "refused" \/ (pc = "exited" /\ Len(calls) = setup.invocations)
  /\ UNCHANGED vars

RequestNext ==
  \/ loadConfig
  \/ ClientStep
  \/ signal
  \/ \E i \in DOMAIN calls : handle(i)
  \/ \E d \in DOMAIN config.devs, s \in setup.seconds : bobLocks(d, s)
  \/ \E d \in DOMAIN locks : expires(d)
  \/ Finished

(* The client keeps running: its deadline, its signal handling and its own  *)
(* steps do not depend on the agent.  Nothing is assumed of the agent.      *)
RequestSpec ==
  /\ RequestInit /\ [][RequestNext]_vars
  /\ WF_vars(dispatch) /\ WF_vars(start) /\ WF_vars(exit)
  /\ WF_vars(unaryTimeout) /\ WF_vars(cancelled) /\ WF_vars(returns)

-----------------------------------------------------------------------------
(* Properties.                                                              *)

(* Types; no granted lock has wrapped around to a time in the past.         *)
RequestTypeOK ==
  /\ setup \in Setups
  /\ pc \in {"load", "refused", "shell", "start", "waiting", "returned", "exited"}
  /\ Len(calls) <= setup.invocations
  /\ \A i \in DOMAIN calls :
       calls[i].status \in {"unsent", "inflight", "answered", "rejected", "lost"}
  /\ \A d \in DOMAIN locks : locks[d].left \in 1..(HalfWord - 1)
  /\ Range(stderr) \subseteq
       {"drift", "long", "error", "usage", "interrupted"}
  /\ signalled \in BOOLEAN /\ foreign \in BOOLEAN /\ code \in {-1, 0, 1, 130}

(* A device's commands were written as an alias of another mapping, which   *)
(* decodeCmds does not look into.                                           *)
Aliased(d) ==
  \E e \in Range(setup.doc.entries) : e.name = d /\ e.value.cmds.shape = "alias"

(* The command line can address everything the agent serves: no device and  *)
(* no command of an accepted configuration is taken for a keyword (package  *)
(* keyword and route agree).  Commands behind an alias are the exception:   *)
(* the load does not look at their names.                                   *)
Reachable ==
  \A d \in DOMAIN config.devs :
    /\ route(<<Word(d)>>).rpc = "commands"
    /\ Word(d) # Word("version")
    /\ \A c \in DOMAIN config.devs[d] : ~Aliased(d) =>
         LET bare == <<Word(d), Word(c)>> IN
         /\ route(bare) = Rpc("run", d, c, <<>>)
         /\ route(Append(bare, Word("help"))) = Rpc("details", d, c, <<>>)

(* The part of the document up to and without an entry loads.               *)
LoadsBefore(entries, i) ==
  i = 1 \/ UnmarshalYAML([null |-> FALSE, entries |-> SubSeq(entries, 1, i - 1)]).ok

OnlyEntry(e) == [null |-> FALSE, entries |-> <<e>>]

(* A refused configuration is refused for a fault that is where the error   *)
(* says: the devices before the one named load, the one named does not, and *)
(* if a command is named the same holds of the commands of that device.  A  *)
(* fault of a command is never reported without its name, except behind an  *)
(* alias (Devlist, Device and decodeCmds annotate the error on its way up). *)
ErrorLocated ==
  pc = "refused" /\ setup.doc.entries # <<>> =>
    \E i \in DOMAIN setup.doc.entries :
      LET e == setup.doc.entries[i]
          cmds == e.value.cmds.entries
          With(es) == [e EXCEPT !.value.cmds.entries = es]
      IN  /\ e.name = config.device
          /\ LoadsBefore(setup.doc.entries, i)
          /\ ~UnmarshalYAML(OnlyEntry(e)).ok
          /\ \/ /\ config.command = ""
                /\ config.err \in {"reserved", "no commands"} \/ Aliased(e.name)
             \/ \E j \in DOMAIN cmds :
                  /\ cmds[j].name = config.command
                  /\ ~UnmarshalYAML(OnlyEntry(With(<<cmds[j]>>))).ok
                  /\ j = 1 \/ UnmarshalYAML(OnlyEntry(With(SubSeq(cmds, 1, j - 1)))).ok

(* What the load accepts can be run, given as many literal arguments as it  *)
(* declares: its arguments resolve, and no module is handed an unresolved   *)
(* reference (validateTemplateReferences against SubstituteArgs).  Except a *)
(* command whose value is null: the load accepts it, although the comment of *)
(* FindCmd says that validation rejects what has no modules, and then every *)
(* lookup refuses it.                                                       *)
AcceptedRuns ==
  \A d \in DOMAIN config.devs : \A c \in DOMAIN config.devs[d] :
    LET cmd == config.devs[d][c]
        given == [i \in DOMAIN cmd.args |-> Word("x")]
    IN  IF cmd.null THEN FindCmd(config.devs, d, c) = "no modules"
        ELSE /\ FindCmd(config.devs, d, c) = ""
             /\ ModuleArgsError(cmd, given) = ""
             /\ \A a \in Range(ModuleArgs(cmd, given)) : \A w \in Range(a) :
                  extractTemplateReferences(w) = {}

(* A run that succeeds has run a module: a command whose value is null,     *)
(* which the load accepts and lists, never succeeds by doing nothing.       *)
RunsSomething ==
  \A i \in DOMAIN calls :
    calls[i].req.rpc = "run" /\ calls[i].answer.ok => calls[i].answer.moduleArgs # <<>>

(* What the load accepts is of use: every device can be addressed, and every *)
(* command with a value can be addressed, resolves its arguments and has a  *)
(* module to run.  With two exceptions, which the load lets pass: the names *)
(* of commands behind an alias may be keywords, and a command without a     *)
(* value is listed and then always refused.                                 *)
AcceptedIsUsable == Reachable /\ AcceptedRuns /\ RunsSomething

(* What was typed after the command reaches the modules as it was typed: a  *)
(* passthrough module gets exactly these words; any other module gets its   *)
(* configured words, with a reference to a declared name replaced by the    *)
(* typed word, whose own `${...}` stays as it is, and nothing else changed; *)
(* and words nobody declared are refused, not dropped.                      *)
ArgsDelivered ==
  \A i \in DOMAIN calls :
    LET req == calls[i].req
        got == calls[i].answer.moduleArgs
        cmd == config.devs[req.device][req.command]
        Value(n) == req.args[SelectLastInSeq(cmd.args, LAMBDA x : x = n)]
        Part(t) == IF t.kind = "ref" THEN Value(t.text) ELSE <<t>>
    IN  got # <<>> =>
          /\ Len(got) = Len(cmd.uses)
          /\ HasPassthrough(cmd) \/ Len(req.args) = Len(cmd.args)
          /\ \A m \in DOMAIN got :
               IF cmd.uses[m].passthrough THEN got[m] = req.args
               ELSE /\ Len(got[m]) = Len(cmd.uses[m].args)
                    /\ \A w \in DOMAIN got[m] :
                         LET conf == cmd.uses[m].args[w]
                             end[k \in 0..Len(conf)] == IF k = 0 THEN 0 ELSE end[k - 1] + Len(Part(conf[k]))
                         IN  /\ Len(got[m][w]) = end[Len(conf)]
                             /\ \A t \in DOMAIN conf :
                                  SubSeq(got[m][w], end[t - 1] + 1, end[t]) = Part(conf[t])

(* No handler runs for a client of another major version, whichever side is *)
(* newer: nothing is locked by this shell and no module runs (the version   *)
(* enforcer is asked before every handler).                                 *)
NoMajorMix ==
  LET a == setup.agent
      c == setup.client
  IN  a.valid /\ c.valid /\ a.major # c.major =>
        /\ \A i \in DOMAIN calls : calls[i].status # "answered"
        /\ \A d \in DOMAIN locks : ~locks[d].mine

(* The exit code tells the truth: 0 only if the agent carried the request   *)
(* out, or none was needed; 130 only after a signal, and never when the call *)
(* had returned a success (a run that is signalled together with its end has *)
(* not); 1 for the rest, and then no answer that the client has seen was a   *)
(* success.                                                                 *)
ExitTrue ==
  LET call == calls[Len(calls)] IN
  pc = "exited" =>
    /\ code = 0 =>
         \/ call.status = "unsent" /\ args[1] = Word("version")
         \/ call.status = "answered" /\ call.answer.ok
    /\ code = 130 => signalled /\ err # ""
    /\ code = 1 => ~signalled /\ err # ""

Told(x) == \E k \in DOMAIN stderr : stderr[k] = x
AtMostOnce(x) ==
  \A j, k \in DOMAIN stderr : stderr[j] = x /\ stderr[k] = x => j = k

(* Warnings are neither lost nor repeated: a drift of the agent's version   *)
(* is told exactly once by a successful call in the modes that show it, the *)
(* long lock too, nothing is told in mode "none", and the summary comes     *)
(* before the error.  A run that sent no message tells of no drift: its     *)
(* stream ends before anything is received.                                 *)
WarningsTold ==
  LET call == calls[Len(calls)]
      shows == setup.mode # "none"
      heard == call.req.rpc # "run" \/ call.answer.said > 0
  IN  pc = "exited" =>
        /\ buf = <<>>
        /\ AtMostOnce("drift") /\ AtMostOnce("long")
        /\ Told("drift") => shows /\ drifts(setup.client, setup.agent)
        /\ Told("long") => shows
        /\ code = 0 /\ shows /\ heard /\ call.status = "answered" =>
             (Told("drift") <=> drifts(setup.client, setup.agent))
        /\ call.req.rpc = "lock" /\ 2 * call.req.seconds > LongLock /\ shows =>
             Told("long")
        /\ \A k \in 1..(Len(stderr) - 1) :
             stderr[k] \in {"error", "interrupted"} => stderr[k + 1] = "usage"

(* What dutctl prints and exits with is true, whatever a signal, the        *)
(* deadline or the version of the agent did to the call.                    *)
RequestInv == RequestTypeOK /\ ExitTrue /\ WarningsTold

(* A lock of a second or more lasts as long as was asked for: less than a   *)
(* second short of it, never longer unless it extends an earlier lock.  The *)
(* agent's default is what anything below one second gets, not only a lock  *)
(* without a duration: the seconds sent are 0 for both.                     *)
GrantedAsAsked ==
  \A i \in DOMAIN calls :
    LET asked == parseLockDuration(SubSeq(args, 3, Len(args))).duration
        got == calls[i].answer.granted
    IN  i = Len(calls) /\ calls[i].req.rpc = "lock" /\ calls[i].answer.ok =>
          /\ asked >= 2 => got > asked - 2
          /\ asked >= 2 /\ calls[i].answer.fresh => got <= asked
          /\ asked < 2 => got >= DefaultLock
          /\ asked < 2 /\ calls[i].answer.fresh => got = DefaultLock

(* A lock taken from this shell can be released from this shell, if USER is *)
(* set: the next invocation presents the owner's name (requireNamed keeps   *)
(* callers whose name is fresh in every request from locking).  And only    *)
(* then: without USER the client makes up a name the agent cannot tell from *)
(* a real one, and the next invocation makes up another.                    *)
LockReleasable ==
  \A d \in DOMAIN locks :
    locks[d].mine =>
      LET i == Len(calls) + 1
          id == identify(Default(setup.user, i), i)
      IN  ~id.anonymous /\ (locks[d].owner = id.user <=> setup.user # "unset")

(* A lock is the one that was asked for, down to a second, and the shell    *)
(* that took it can end it, if it has a USER.                               *)
LockAsAsked == GrantedAsAsked /\ LockReleasable

(* dutctl comes back: every call but a run within its deadline, and a run   *)
(* once it is interrupted, whatever the agent does.                         *)
DutctlReturns ==
  (pc = "waiting" /\ (signalled \/ calls[Len(calls)].req.rpc # "run")) ~> pc = "exited"
=============================================================================
