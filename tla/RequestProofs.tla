--------------------------- MODULE RequestProofs ----------------------------
(***************************************************************************)
(* Proofs about Request: for any configuration, command lines, versions,   *)
(* users and number of invocations, the agent serves no client of another  *)
(* major version, a lock is the one that was asked for, and what dutctl    *)
(* prints and exits with is true; the error of a configuration that is     *)
(* refused names the first fault where it is, what is accepted can be      *)
(* addressed and run, and what was typed reaches the modules as typed.     *)
(*                                                                         *)
(* RequestIInv is about the calls, the locks and the client; ServedIInv,   *)
(* proved on top of it, about the configuration and what was run with it.  *)
(* What a first fault, a last entry or a join of sequences is for every    *)
(* length is shown by sets of numbers: a set with 0 and each successor     *)
(* holds them all (LadderOf).                                              *)
(***************************************************************************)
EXTENDS Request, TLAPS, WellFoundedInduction, FiniteSetTheorems

-----------------------------------------------------------------------------
(* The inductive invariant.                                                 *)

Rpcs == {"lock", "unlock", "run", "list", "commands", "details"}

(* A lock that was granted lasts at least as long as the seconds sent stand *)
(* for, and exactly as long if it is fresh.                                 *)
GrantOK(req, a) ==
  req.rpc = "lock" /\ a.ok =>
    /\ a.granted \in Int
    /\ a.granted >= lockDuration(req.seconds)
    /\ a.fresh => a.granted = lockDuration(req.seconds)

(* A call has its fields; it has a request from the moment it is sent, and  *)
(* an answer that says something only once it was answered.                 *)
CallOK(c) ==
  /\ DOMAIN c = {"req", "status", "answer"}
  /\ DOMAIN c.req = {"rpc", "device", "command", "args", "seconds", "force", "err"}
  /\ DOMAIN c.answer = {"ok", "granted", "fresh", "moduleArgs", "said"}
  /\ c.status \in {"unsent", "inflight", "answered", "rejected", "lost"}
  /\ c.status # "unsent" => c.req.rpc \in Rpcs
  /\ c.status = "unsent" => c.req.rpc = "none"
  /\ c.req.seconds \in Int
  /\ c.answer.ok \in BOOLEAN
  /\ c.status # "answered" => c.answer = Unhandled
  /\ GrantOK(c.req, c.answer)

CallsOK ==
  /\ calls \in Seq(Range(calls))
  /\ Len(calls) <= setup.invocations
  /\ \A i \in DOMAIN calls : CallOK(calls[i])

(* A lock has its fields and a time left that fits the type; one taken from *)
(* this shell by a user with a name is in that name.                        *)
LockOK(l) ==
  /\ DOMAIN l = {"owner", "mine", "left"}
  /\ l.mine \in BOOLEAN
  /\ l.left \in 1..(HalfWord - 1)
  /\ l.mine /\ setup.user # "unset" =>
       setup.user # "" /\ l.owner = <<setup.user, 0>>

LocksOK == \A d \in DOMAIN locks : LockOK(locks[d])

Errors == {"", "rpc", "cmdline", "duration"}
last == calls[Len(calls)]

ClientTypes ==
  /\ setup \in Setups
  /\ pc \in {"load", "refused", "shell", "start", "waiting", "returned", "exited"}
  /\ foreign \in BOOLEAN /\ signalled \in BOOLEAN
  /\ args \in Seq(Seq(Token)) /\ err \in Errors /\ code \in {-1, 0, 1, 130}

(* Where the invocation is and what it knows by then.                       *)
ClientOK ==
  /\ ClientTypes
  /\ pc \in {"start", "waiting", "returned", "exited"} => calls # <<>>
  /\ pc = "start" => last.status = "unsent"
  /\ pc = "waiting" => last.status # "unsent"
  /\ pc \in {"returned", "exited"} /\ err = "" =>
       \/ last.status = "unsent" /\ args[1] = Word("version")
       \/ last.status = "answered" /\ last.answer.ok
  /\ pc = "exited" =>
       /\ code = 0 => err = ""
       /\ code = 130 => err # "" /\ signalled
       /\ code = 1 => err # "" /\ ~signalled
  /\ calls # <<>> /\ last.status # "unsent" => last.req = route(args)

(* Nothing, a warning of a long lock, of a drift, or both, in this order.   *)
Warnings == {<<>>, <<"long">>, <<"drift">>, <<"long", "drift">>}
Endings == {<<>>, <<"error">>, <<"interrupted">>, <<"error", "usage">>}

Says(s, x) == \E k \in DOMAIN s : s[k] = x
Heard(c) == c.req.rpc # "run" \/ c.answer.said > 0

(* In each mode the warnings are in one place until the exit joins them.    *)
WarnOK ==
  /\ pc \in {"start", "waiting", "returned"} =>
       /\ buf \in Warnings /\ stderr \in Warnings
       /\ setup.mode # "warn" => buf = <<>>
       /\ setup.mode # "debug" => stderr = <<>>
       /\ pc = "start" => buf = <<>> /\ stderr = <<>>
       /\ pc = "waiting" => ~Says(buf, "drift") /\ ~Says(stderr, "drift")
  /\ pc = "exited" =>
       /\ buf = <<>>
       /\ \E w \in Warnings, e \in Endings :
            stderr = w \o e /\ (setup.mode = "none" => w = <<>>)
  /\ pc \in {"waiting", "returned", "exited"} =>
       /\ Says(buf, "drift") \/ Says(stderr, "drift") => drifts(setup.client, setup.agent)
       /\ last.req.rpc = "lock" /\ 2 * last.req.seconds > LongLock /\ setup.mode # "none" =>
            Says(buf, "long") \/ Says(stderr, "long")
  /\ pc \in {"returned", "exited"} /\ err = "" /\ last.status = "answered"
       /\ Heard(last) /\ setup.mode # "none" /\ drifts(setup.client, setup.agent) =>
       Says(buf, "drift") \/ Says(stderr, "drift")
  /\ Range(buf) \subseteq {"drift", "long"}
  /\ Range(stderr) \subseteq {"drift", "long", "error", "usage", "interrupted"}

RequestIInv == CallsOK /\ LocksOK /\ NoMajorMix /\ ClientOK /\ WarnOK

-----------------------------------------------------------------------------
(* Durations.                                                               *)

(* A word holds what fits and wraps the rest into its range.                *)
LEMMA WrapFits ==
  ASSUME NEW x \in Int
  PROVE  /\ Wrap(x) \in (-HalfWord)..(HalfWord - 1)
         /\ x \in 0..(HalfWord - 1) => Wrap(x) = x
<1>1. x % (2 * HalfWord) \in 0..(2 * HalfWord - 1)
  BY WordAssumption
<1>2. x \in 0..(HalfWord - 1) => x % (2 * HalfWord) = x
  BY WordAssumption
<1> QED
  BY <1>1, <1>2, WordAssumption DEF Wrap

(* The Lock handler asks for a duration that fits, the default for none.    *)
LEMMA LockDurationFits ==
  ASSUME NEW s \in Int
  PROVE  /\ lockDuration(s) \in (-HalfWord)..(HalfWord - 1)
         /\ s = 0 => lockDuration(s) = DefaultLock
         /\ s > 0 /\ 2 * s < HalfWord => lockDuration(s) = 2 * s
<1>1. 2 * s \in Int
  OBVIOUS
<1>2. /\ Wrap(2 * s) \in (-HalfWord)..(HalfWord - 1)
      /\ 2 * s \in 0..(HalfWord - 1) => Wrap(2 * s) = 2 * s
  BY <1>1, WrapFits
<1> QED
  BY <1>2, WordAssumption, DurationsAssumption DEF lockDuration

(* The duration of a command line is none or a positive one that fits.      *)
LEMMA ParsedDuration ==
  ASSUME NEW a
  PROVE  /\ parseLockDuration(a).err \in {"", "duration"}
         /\ parseLockDuration(a).duration \in 0..(HalfWord - 1)
         /\ a = <<>> => parseLockDuration(a).duration = 0
<1> DEFINE t == Name(a[1])
<1>1. CASE a = <<>> \/ a[1] = <<>>
  BY <1>1, WordAssumption DEF parseLockDuration
<1>2. CASE ~(a = <<>> \/ a[1] = <<>>) /\ (t \notin DOMAIN ParseDuration \/ ParseDuration[t] <= 0)
  BY <1>2, WordAssumption DEF parseLockDuration
<1>3. CASE ~(a = <<>> \/ a[1] = <<>>) /\ ~(t \notin DOMAIN ParseDuration \/ ParseDuration[t] <= 0)
  <2>1. ParseDuration[t] \in 0..(HalfWord - 1)
    BY <1>3, WordAssumption, DurationsAssumption
  <2> QED
    BY <1>3, <2>1 DEF parseLockDuration
<1> QED
  BY <1>1, <1>2, <1>3

(* Whole seconds of a duration that is not negative.                        *)
LEMMA SecondsOf ==
  ASSUME NEW d \in 0..(HalfWord - 1)
  PROVE  /\ Seconds(d) \in Nat
         /\ 2 * Seconds(d) <= d /\ d < 2 * Seconds(d) + 2
  BY WordAssumption DEF Seconds

-----------------------------------------------------------------------------
(* The command line.                                                        *)

(* The duration typed on a command line, 0 for none.                        *)
Asked(a) == parseLockDuration(SubSeq(a, 3, Len(a))).duration

(* What route makes of a command line: an error that stops it, or a request *)
(* that carries the seconds of the duration typed.                          *)
Routed(a, req) ==
  /\ DOMAIN req = {"rpc", "device", "command", "args", "seconds", "force", "err"}
  /\ req.rpc \in Rpcs \cup {"none"}
  /\ req.seconds \in Int
  /\ req.rpc = "none" => req.err \in {"cmdline", "duration"}
  /\ req.rpc = "lock" =>
       /\ Len(a) \in {2, 3}
       /\ req.seconds = Seconds(Asked(a))

(* An error of the command line has no request.                             *)
LEMMA NoRpcRouted ==
  ASSUME NEW a, NEW e \in {"cmdline", "duration"}
  PROVE  Routed(a, NoRpc(e))
  BY DEF Routed, NoRpc, Rpc, Rpcs

(* All requests but a lock carry no seconds.                                *)
LEMMA PlainRouted ==
  ASSUME NEW a, NEW r \in Rpcs \ {"lock"}, NEW d, NEW c, NEW m
  PROVE  Routed(a, Rpc(r, d, c, m))
  BY DEF Routed, Rpc, Rpcs

(* lockRPC of the words after the command.                                  *)
LEMMA LockRouted ==
  ASSUME NEW a \in Seq(Seq(Token)), Len(a) \in {2, 3}, NEW d
  PROVE  Routed(a, lockRPC(d, SubSeq(a, 3, Len(a))))
<1>0. PICK p : p = parseLockDuration(SubSeq(a, 3, Len(a)))
  OBVIOUS
<1>a. Asked(a) = p.duration
  BY <1>0 DEF Asked
<1>b. lockRPC(d, SubSeq(a, 3, Len(a))) =
        IF p.err # "" THEN NoRpc(p.err)
        ELSE [Rpc("lock", d, "", <<>>) EXCEPT !.seconds = Seconds(p.duration)]
  BY <1>0, Zenon DEF lockRPC
<1>1. p.err \in {"", "duration"} /\ p.duration \in 0..(HalfWord - 1)
  BY <1>0, ParsedDuration
<1>2. Seconds(p.duration) \in Nat
  BY <1>1, SecondsOf
<1>3. CASE p.err # ""
  <2>1. lockRPC(d, SubSeq(a, 3, Len(a))) = NoRpc("duration")
    BY <1>1, <1>3, <1>b
  <2> QED
    BY <2>1, NoRpcRouted
<1>4. CASE p.err = ""
  <2>1. PICK s : s = Seconds(p.duration)
    OBVIOUS
  <2>2. PICK q : q = [rpc |-> "lock", device |-> d, command |-> "", args |-> <<>>,
                      seconds |-> s, force |-> FALSE, err |-> ""]
    OBVIOUS
  <2>3. lockRPC(d, SubSeq(a, 3, Len(a))) = q
    BY <1>4, <1>b, <2>1, <2>2 DEF Rpc
  <2>4. s \in Int /\ s = Seconds(Asked(a))
    BY <1>a, <1>2, <2>1
  <2>5. /\ DOMAIN q = {"rpc", "device", "command", "args", "seconds", "force", "err"}
        /\ q.rpc = "lock" /\ q.seconds = s
    BY <2>2
  <2>6. Routed(a, q)
    BY <2>4, <2>5 DEF Routed, Rpcs
  <2> QED
    BY <2>3, <2>6
<1> QED
  BY <1>3, <1>4

(* What dispatchCommand makes of a device, a command and more words.        *)
LEMMA CommandRouted ==
  ASSUME NEW a \in Seq(Seq(Token)), Len(a) >= 2, NEW d, NEW c
  PROVE  Routed(a, dispatchCommand(d, c, SubSeq(a, 3, Len(a))))
<1> DEFINE more == SubSeq(a, 3, Len(a))
<1>0. Len(a) > 3 => Len(more) > 1
  OBVIOUS
<1> HIDE DEF more
<1>1. CASE c = "lock"
  <2>1. dispatchCommand(d, c, more) = IF Len(more) > 1 THEN NoRpc("cmdline") ELSE lockRPC(d, more)
    BY <1>1 DEF dispatchCommand
  <2>2. PICK n \in Nat : n = Len(a)
    OBVIOUS
  <2>3. Len(more) > 1 \/ Len(a) \in {2, 3}
    BY <1>0, <2>2
  <2> QED
    BY <2>1, <2>3, NoRpcRouted, LockRouted DEF more
<1>2. CASE c = "unlock"
  <2>1. dispatchCommand(d, c, more) = parseUnlockArgs(d, more)
    BY <1>2 DEF dispatchCommand
  <2>2. \/ parseUnlockArgs(d, more) = Rpc("unlock", d, "", <<>>)
        \/ parseUnlockArgs(d, more) = [Rpc("unlock", d, "", <<>>) EXCEPT !.force = TRUE]
        \/ parseUnlockArgs(d, more) = NoRpc("cmdline")
    BY DEF parseUnlockArgs
  <2>3. Routed(a, [Rpc("unlock", d, "", <<>>) EXCEPT !.force = TRUE])
    BY DEF Routed, Rpc, Rpcs
  <2>4. Routed(a, Rpc("unlock", d, "", <<>>)) /\ Routed(a, NoRpc("cmdline"))
    BY PlainRouted, NoRpcRouted DEF Rpcs
  <2> QED
    BY <2>1, <2>2, <2>3, <2>4 DEF more
<1>3. CASE c \notin {"lock", "unlock"}
  <2>1. \/ dispatchCommand(d, c, more) = NoRpc("cmdline")
        \/ dispatchCommand(d, c, more) = Rpc("details", d, c, <<>>)
        \/ dispatchCommand(d, c, more) = Rpc("run", d, c, more)
    BY <1>3 DEF dispatchCommand
  <2>2. Routed(a, Rpc("details", d, c, <<>>)) /\ Routed(a, Rpc("run", d, c, more))
    BY PlainRouted DEF Rpcs
  <2> QED
    BY <2>1, <2>2, NoRpcRouted DEF more
<1> QED
  BY <1>1, <1>2, <1>3

(* route, for every command line.                                           *)
LEMMA RouteRouted ==
  ASSUME NEW a \in Seq(Seq(Token))
  PROVE  Routed(a, route(a))
<1> DEFINE whole == dispatchCommand(Name(a[1]), Name(a[2]), SubSeq(a, 3, Len(a)))
<1> HIDE DEF whole
<1>a. PICK n \in Nat : n = Len(a)
  OBVIOUS
<1>b. Len(a) = 0 => a = <<>>
  OBVIOUS
<1>0. a = <<>> \/ Len(a) = 1 \/ Len(a) >= 2
  BY <1>a, <1>b
<1>1. \/ route(a) = Rpc("list", "", "", <<>>)
      \/ route(a) = NoRpc("cmdline")
      \/ route(a) = Rpc("commands", Name(a[1]), "", <<>>)
      \/ Len(a) >= 2 /\ route(a) = whole
  BY <1>0 DEF route, whole
<1>2. Routed(a, Rpc("list", "", "", <<>>)) /\ Routed(a, Rpc("commands", Name(a[1]), "", <<>>))
  BY PlainRouted DEF Rpcs
<1>3. Len(a) >= 2 => Routed(a, whole)
  BY CommandRouted DEF whole
<1> QED
  BY <1>1, <1>2, <1>3, NoRpcRouted

-----------------------------------------------------------------------------
(* What the steps do to the calls and to the locks.                         *)

(* One call is replaced.                                                    *)
LEMMA CallReplaced ==
  ASSUME calls \in Seq(Range(calls)), NEW i \in DOMAIN calls, NEW c,
         calls' = [calls EXCEPT ![i] = c]
  PROVE  /\ DOMAIN calls' = DOMAIN calls /\ Len(calls') = Len(calls)
         /\ calls' \in Seq(Range(calls'))
         /\ calls'[i] = c
         /\ \A j \in DOMAIN calls : j # i => calls'[j] = calls[j]
<1>1. /\ DOMAIN calls' = DOMAIN calls /\ calls'[i] = c
      /\ \A j \in DOMAIN calls : j # i => calls'[j] = calls[j]
  OBVIOUS
<1>2. Len(calls) \in Nat /\ DOMAIN calls = 1..Len(calls)
  OBVIOUS
<1>3. \A j \in 1..Len(calls) : calls'[j] \in Range(calls')
  BY <1>1, <1>2 DEF Range
<1>4. calls' = [j \in 1..Len(calls) |-> calls'[j]]
  BY <1>1, <1>2
<1>5. \A R : (\A j \in 1..Len(calls) : calls'[j] \in R) =>
              [j \in 1..Len(calls) |-> calls'[j]] \in Seq(R)
  BY <1>2
<1>6. calls' \in Seq(Range(calls'))
  BY <1>3, <1>4, <1>5
<1>7. Len(calls') = Len(calls)
  BY <1>1, <1>2, <1>6
<1> QED
  BY <1>1, <1>6, <1>7

(* The last call is one of the calls.                                       *)
LEMMA LastCall ==
  ASSUME calls \in Seq(Range(calls)), calls # <<>>
  PROVE  Len(calls) \in DOMAIN calls /\ Len(calls) \in Nat \ {0}
  OBVIOUS

(* What is left of a hold fits its type.                                    *)
LEMMA LeftFits ==
  ASSUME LocksOK, NEW d, NEW left \in LeftOf(d)
  PROVE  left \in 0..(HalfWord - 1)
<1>1. CASE d \in DOMAIN locks
  <2>1. locks[d].left \in 1..(HalfWord - 1)
    BY <1>1 DEF LocksOK, LockOK
  <2> QED
    BY <1>1, <2>1, WordAssumption DEF LeftOf
<1>2. CASE d \notin DOMAIN locks
  BY <1>2, WordAssumption DEF LeftOf
<1> QED
  BY <1>1, <1>2

Longer(left, dur) == IF left > dur THEN left ELSE dur

(* A hold lasts at least as long as asked, exactly as long if it is fresh.  *)
LEMMA LongerFits ==
  ASSUME NEW left \in 0..(HalfWord - 1), NEW dur \in 1..(HalfWord - 1)
  PROVE  /\ Longer(left, dur) \in 1..(HalfWord - 1) /\ Longer(left, dur) \in Int
         /\ Longer(left, dur) >= dur
         /\ left = 0 => Longer(left, dur) = dur
  BY WordAssumption DEF Longer

-----------------------------------------------------------------------------
(* What a handler leaves behind.                                            *)

(* A call that was in flight has been answered, or rejected, for the        *)
(* request it carried, and answered only by an agent that accepts the       *)
(* client's version.                                                        *)
Handled(i, c) ==
  /\ calls' = [calls EXCEPT ![i] = c]
  /\ CallOK(c) /\ c.req = calls[i].req
  /\ c.status \in {"answered", "rejected"}
  /\ c.status = "answered" => enforce(setup.agent, setup.client)

(* The locks are those of before, except for some this shell has taken.     *)
OwnLocks ==
  \A d \in DOMAIN locks' :
    \/ d \in DOMAIN locks /\ locks'[d] = locks[d]
    \/ enforce(setup.agent, setup.client) /\ LockOK(locks'[d])

AnswerFields == {"ok", "granted", "fresh", "moduleArgs", "said"}

(* Fields of an answer.                                                     *)
LEMMA AnswerShape ==
  ASSUME NEW ok
  PROVE  /\ DOMAIN Answer(ok) = AnswerFields
         /\ Answer(ok).ok = ok /\ Answer(ok).granted = 0
  BY DEF Answer, AnswerFields

(* Only the status of a call in flight changes: nothing was done for it.    *)
LEMMA RefusedCall ==
  ASSUME NEW o, CallOK(o), o.status = "inflight", NEW s \in {"answered", "rejected", "lost"},
         NEW c, c = [o EXCEPT !.status = s]
  PROVE  CallOK(c) /\ c.req = o.req /\ c.status = s /\ c.answer = Unhandled
<1>1. DOMAIN c = {"req", "status", "answer"} /\ c.req = o.req /\ c.status = s /\ c.answer = o.answer
  BY DEF CallOK
<1>2. o.answer = Unhandled /\ o.answer.ok = FALSE
  BY AnswerShape DEF CallOK, Unhandled
<1> QED
  BY <1>1, <1>2 DEF CallOK, GrantOK

(* The name under which the shell's request i arrives: the user's own for a *)
(* user with a name, and anonymous for one without.                         *)
LEMMA Identity ==
  ASSUME NEW i, NEW id, id = identify(Default(setup.user, i), i), requireNamed(id),
         setup.user # "unset"
  PROVE  setup.user # "" /\ id.user = <<setup.user, 0>>
  BY DEF identify, Default, requireNamed

(* Refusing a request changes the status of its call only.                  *)
LEMMA RefusalHandled ==
  ASSUME CallsOK, NEW i \in DOMAIN calls, calls[i].status = "inflight",
         NEW s \in {"answered", "rejected"},
         s = "answered" => enforce(setup.agent, setup.client),
         calls' = [calls EXCEPT ![i].status = s]
  PROVE  \E c : Handled(i, c)
<1>1. PICK o : o = calls[i] /\ CallOK(o)
  BY DEF CallsOK
<1>2. PICK c : c = [o EXCEPT !.status = s]
  OBVIOUS
<1>3. CallOK(c) /\ c.req = o.req /\ c.status = s
  BY <1>1, <1>2, RefusedCall
<1>4. calls' = [calls EXCEPT ![i] = c]
  BY <1>1, <1>2
<1> QED
  BY <1>1, <1>3, <1>4 DEF Handled

(* Answering a request other than a lock changes its call only.             *)
LEMMA AnswerHandled ==
  ASSUME CallsOK, NEW i \in DOMAIN calls, calls[i].status = "inflight",
         enforce(setup.agent, setup.client), NEW a,
         DOMAIN a = AnswerFields, a.ok \in BOOLEAN,
         GrantOK(calls[i].req, a),
         calls' = [calls EXCEPT ![i].status = "answered", ![i].answer = a]
  PROVE  \E c : Handled(i, c)
<1>1. PICK o : o = calls[i] /\ CallOK(o)
  BY DEF CallsOK
<1>2. PICK c : c = [o EXCEPT !.status = "answered", !.answer = a]
  OBVIOUS
<1>3. CallOK(c) /\ c.req = o.req /\ c.status = "answered"
  <2>1. o.status = "inflight" /\ GrantOK(o.req, a)
    BY <1>1
  <2>2. DOMAIN c = {"req", "status", "answer"}
    BY <1>1, <1>2 DEF CallOK
  <2>3. c.req = o.req /\ c.status = "answered" /\ c.answer = a
    BY <1>1, <1>2 DEF CallOK
  <2> QED
    BY <1>1, <2>1, <2>2, <2>3 DEF CallOK, AnswerFields
<1>4. calls' = [calls EXCEPT ![i] = c]
  BY <1>1, <1>2
<1> QED
  BY <1>1, <1>3, <1>4 DEF Handled

(* The Lock handler.                                                        *)
LEMMA LockHandled ==
  ASSUME CallsOK, LocksOK, NEW i \in DOMAIN calls, calls[i].status = "inflight",
         enforce(setup.agent, setup.client), calls[i].req.rpc = "lock",
         Lock(i, calls[i].req, identify(Default(setup.user, i), i))
  PROVE  (\E c : Handled(i, c)) /\ OwnLocks
<1>0. PICK id : id = identify(Default(setup.user, i), i)
  OBVIOUS
<1>1. PICK req : req = calls[i].req
  OBVIOUS
<1> DEFINE dur == lockDuration(req.seconds)
<1>a. req.seconds \in Int
  BY <1>1 DEF CallsOK, CallOK
<1>b. dur \in (-HalfWord)..(HalfWord - 1)
  BY <1>a, LockDurationFits
<1>2. \/ calls' = [calls EXCEPT ![i].status = "answered"] /\ UNCHANGED locks
      \/ /\ requireNamed(id) /\ dur > 0
         /\ \E left \in LeftOf(req.device) :
              /\ Grant(req.device, id, dur, TRUE, left)
              /\ calls' = [calls EXCEPT ![i].status = "answered",
                             ![i].answer = [Answer(TRUE) EXCEPT
                               !.granted = locks'[req.device].left,
                               !.fresh = left = 0]]
  BY <1>0, <1>1 DEF Lock
<1> HIDE DEF dur
<1>3. CASE calls' = [calls EXCEPT ![i].status = "answered"] /\ UNCHANGED locks
  BY <1>3, RefusalHandled DEF OwnLocks
<1>4. ASSUME requireNamed(id), dur > 0, NEW left \in LeftOf(req.device),
             Grant(req.device, id, dur, TRUE, left),
             calls' = [calls EXCEPT ![i].status = "answered",
                         ![i].answer = [Answer(TRUE) EXCEPT
                           !.granted = locks'[req.device].left,
                           !.fresh = left = 0]]
      PROVE  (\E c : Handled(i, c)) /\ OwnLocks
  <2>1. left \in 0..(HalfWord - 1) /\ dur \in 1..(HalfWord - 1)
    BY <1>4, <1>b, LeftFits, WordAssumption
  <2>2. PICK n : n = Longer(left, dur)
    OBVIOUS
  <2>3. n \in 1..(HalfWord - 1) /\ n \in Int /\ n >= dur /\ (left = 0 => n = dur)
    BY <2>1, <2>2, LongerFits
  <2>4. PICK l : l = [owner |-> id.user, mine |-> TRUE, left |-> n]
    OBVIOUS
  <2>5. /\ DOMAIN locks' = DOMAIN locks \cup {req.device}
        /\ \A x \in DOMAIN locks : x # req.device => locks'[x] = locks[x]
        /\ locks'[req.device] = l
    BY <1>4, <2>2, <2>4 DEF Grant, Longer
  <2>6. setup.user # "unset" => setup.user # "" /\ id.user = <<setup.user, 0>>
    BY <1>0, <1>4, Identity
  <2>7. LockOK(l) /\ l.left = n
    BY <2>3, <2>4, <2>6 DEF LockOK
  <2>8. OwnLocks
    BY <2>5, <2>7 DEF OwnLocks
  <2>9. PICK a : a = [Answer(TRUE) EXCEPT !.granted = n, !.fresh = left = 0]
    OBVIOUS
  <2>10. DOMAIN a = AnswerFields /\ a.ok = TRUE /\ a.granted = n /\ (a.fresh => left = 0)
    BY <2>9 DEF Answer, AnswerFields
  <2>11. calls' = [calls EXCEPT ![i].status = "answered", ![i].answer = a]
    BY <1>4, <2>5, <2>7, <2>9
  <2>12. GrantOK(calls[i].req, a)
    BY <2>3, <2>10, <1>1 DEF dur, GrantOK
  <2>13. \E c : Handled(i, c)
    BY <2>10, <2>11, <2>12, AnswerHandled
  <2> QED
    BY <2>8, <2>13
<1> QED
  BY <1>2, <1>3, <1>4

(* The Unlock handler.                                                      *)
LEMMA UnlockHandled ==
  ASSUME CallsOK, NEW i \in DOMAIN calls, calls[i].status = "inflight",
         enforce(setup.agent, setup.client), calls[i].req.rpc = "unlock",
         NEW id, Unlock(i, calls[i].req, id)
  PROVE  (\E c : Handled(i, c)) /\ OwnLocks
<1>1. PICK req : req = calls[i].req
  OBVIOUS
<1> DEFINE cleared == /\ req.device \in DOMAIN locks
                      /\ \/ req.force
                         \/ requireNamed(id) /\ locks[req.device].owner = id.user
<1>2. PICK ok \in BOOLEAN : ok = cleared
  OBVIOUS
<1>3. PICK a : a = Answer(ok)
  OBVIOUS
<1>4. /\ locks' = IF cleared THEN Without(req.device) ELSE locks
      /\ calls' = [calls EXCEPT ![i].status = "answered", ![i].answer = Answer(cleared)]
  BY <1>1, Zenon DEF Unlock
<1>5. calls' = [calls EXCEPT ![i].status = "answered", ![i].answer = a]
  BY <1>2, <1>3, <1>4
<1>6. OwnLocks
  BY <1>4 DEF OwnLocks, Without
<1>7. DOMAIN a = AnswerFields /\ a.ok \in BOOLEAN
  BY <1>2, <1>3 DEF Answer, AnswerFields
<1>8. GrantOK(calls[i].req, a)
  BY DEF GrantOK
<1> QED
  BY <1>5, <1>6, <1>7, <1>8, AnswerHandled

(* The Run handler.                                                         *)
LEMMA RunHandled ==
  ASSUME CallsOK, NEW i \in DOMAIN calls, calls[i].status = "inflight",
         enforce(setup.agent, setup.client), calls[i].req.rpc = "run",
         NEW id, Run(i, calls[i].req, id)
  PROVE  (\E c : Handled(i, c)) /\ OwnLocks
<1>1. PICK req : req = calls[i].req
  OBVIOUS
<1> DEFINE cmd == config.devs[req.device][req.command]
<1>2. /\ UNCHANGED locks
      /\ \/ calls' = [calls EXCEPT ![i].status = "answered"]
         \/ \E ok \in BOOLEAN, said \in 0..2 :
              calls' = [calls EXCEPT ![i].status = "answered",
                          ![i].answer = [Answer(ok) EXCEPT
                            !.moduleArgs = ModuleArgs(cmd, req.args), !.said = said]]
  BY <1>1, Zenon DEF Run
<1>3. OwnLocks
  BY <1>2 DEF OwnLocks
<1>4. CASE calls' = [calls EXCEPT ![i].status = "answered"]
  BY <1>3, <1>4, RefusalHandled
<1>5. ASSUME NEW ok \in BOOLEAN, NEW said \in 0..2,
             calls' = [calls EXCEPT ![i].status = "answered",
                          ![i].answer = [Answer(ok) EXCEPT
                            !.moduleArgs = ModuleArgs(cmd, req.args), !.said = said]]
      PROVE  \E c : Handled(i, c)
  <2>1. PICK m : m = ModuleArgs(cmd, req.args)
    OBVIOUS
  <2>2. PICK a : a = [Answer(ok) EXCEPT !.moduleArgs = m, !.said = said]
    OBVIOUS
  <2>3. DOMAIN a = AnswerFields /\ a.ok \in BOOLEAN
    BY <2>2 DEF Answer, AnswerFields
  <2>4. GrantOK(calls[i].req, a)
    BY DEF GrantOK
  <2>5. calls' = [calls EXCEPT ![i].status = "answered", ![i].answer = a]
    BY <1>5, <2>1, <2>2, Zenon
  <2> QED
    BY <2>3, <2>4, <2>5, AnswerHandled
<1> QED
  BY <1>2, <1>3, <1>4, <1>5

(* The handlers of List, Commands and Details.                              *)
LEMMA LookupHandled ==
  ASSUME CallsOK, NEW i \in DOMAIN calls, calls[i].status = "inflight",
         enforce(setup.agent, setup.client),
         calls[i].req.rpc \in {"list", "commands", "details"}, Lookup(i, calls[i].req)
  PROVE  (\E c : Handled(i, c)) /\ OwnLocks
<1>1. PICK req : req = calls[i].req
  OBVIOUS
<1> DEFINE found == CASE req.rpc = "list" -> TRUE
                      [] req.rpc = "commands" -> Find(config.devs, req.device)
                      [] req.rpc = "details" ->
                           FindCmd(config.devs, req.device, req.command) = ""
<1>2. found \in BOOLEAN
  <2>1. CASE req.rpc = "list"
    <3>1. found = TRUE
      BY <2>1
    <3> QED
      BY <3>1
  <2>2. CASE req.rpc = "commands"
    <3>1. found = Find(config.devs, req.device)
      BY <2>2
    <3> HIDE DEF found
    <3>2. Find(config.devs, req.device) \in BOOLEAN
      BY DEF Find
    <3> QED
      BY <3>1, <3>2
  <2>3. CASE req.rpc = "details"
    <3>1. found = (FindCmd(config.devs, req.device, req.command) = "")
      BY <2>3
    <3> QED
      BY <3>1, Zenon
  <2> QED
    BY <1>1, <2>1, <2>2, <2>3
<1>3. PICK a : a = Answer(found)
  OBVIOUS
<1>4. UNCHANGED locks /\ calls' = [calls EXCEPT ![i].status = "answered", ![i].answer = a]
  BY <1>1, <1>3, Zenon DEF Lookup
<1> HIDE DEF found
<1>5. DOMAIN a = AnswerFields /\ a.ok \in BOOLEAN
  BY <1>2, <1>3 DEF Answer, AnswerFields
<1>6. GrantOK(calls[i].req, a)
  BY DEF GrantOK
<1>7. OwnLocks
  BY <1>4 DEF OwnLocks
<1> QED
  BY <1>4, <1>5, <1>6, <1>7, AnswerHandled

(* A request that arrives is rejected or handled; the client is not touched. *)
LEMMA HandleHandles ==
  ASSUME CallsOK, LocksOK, NEW i \in DOMAIN calls, handle(i)
  PROVE  /\ calls[i].status = "inflight"
         /\ (\E c : Handled(i, c)) /\ OwnLocks
         /\ UNCHANGED <<setup, config, foreign, clientVars>>
<1>1. calls[i].status = "inflight" /\ UNCHANGED <<setup, config, foreign, clientVars>>
  BY DEF handle
<1>2. calls[i].req.rpc \in Rpcs
  BY <1>1 DEF CallsOK, CallOK
<1>3. PICK id : id = identify(Default(setup.user, i), i)
  OBVIOUS
<1>4. CASE ~enforce(setup.agent, setup.client)
  <2>1. calls' = [calls EXCEPT ![i].status = "rejected"] /\ UNCHANGED locks
    BY <1>4 DEF handle
  <2> QED
    BY <1>1, <2>1, RefusalHandled DEF OwnLocks
<1>5. CASE enforce(setup.agent, setup.client)
  <2>1. CASE calls[i].req.rpc = "lock"
    <3>1. Lock(i, calls[i].req, identify(Default(setup.user, i), i))
      BY <1>5, <2>1 DEF handle
    <3> QED
      BY <1>1, <1>5, <2>1, <3>1, LockHandled
  <2>2. CASE calls[i].req.rpc = "unlock"
    <3>1. Unlock(i, calls[i].req, id)
      BY <1>3, <1>5, <2>2 DEF handle
    <3> QED
      BY <1>1, <1>5, <2>2, <3>1, UnlockHandled
  <2>3. CASE calls[i].req.rpc = "run"
    <3>1. Run(i, calls[i].req, id)
      BY <1>3, <1>5, <2>3 DEF handle
    <3> QED
      BY <1>1, <1>5, <2>3, <3>1, RunHandled
  <2>4. CASE calls[i].req.rpc \in {"list", "commands", "details"}
    <3>1. Lookup(i, calls[i].req)
      BY <1>5, <2>4 DEF handle
    <3> QED
      BY <1>1, <1>5, <2>4, <3>1, LookupHandled
  <2> QED
    BY <1>2, <2>1, <2>2, <2>3, <2>4 DEF Rpcs
<1> QED
  BY <1>1, <1>4, <1>5

-----------------------------------------------------------------------------
(* The steps keep the invariant.                                            *)

(* The version enforcer lets no client of another major version through.    *)
LEMMA EnforceMajor ==
  ASSUME NEW a, NEW c, a.valid, c.valid, a.major # c.major
  PROVE  ~enforce(a, c)
<1>1. PICK n : n = semverCompare(a, c)
  OBVIOUS
<1>2. Compare(a, c) = [verdict |-> "incompatible", field |-> "major", cmp |-> n, valid |-> TRUE]
  BY <1>1 DEF Compare
<1> QED
  BY <1>2 DEF enforce

(* Steps that leave calls and locks alone.                                  *)
LEMMA CallsAndLocksStay ==
  ASSUME CallsOK, LocksOK, NoMajorMix, UNCHANGED <<setup, calls, locks>>
  PROVE  CallsOK' /\ LocksOK' /\ NoMajorMix'
<1>1. setup' = setup /\ calls' = calls /\ locks' = locks
  OBVIOUS
<1>2. CallsOK'
  BY <1>1 DEF CallsOK, CallOK, GrantOK
<1>3. LocksOK'
  BY <1>1 DEF LocksOK, LockOK
<1>4. NoMajorMix'
  BY <1>1 DEF NoMajorMix
<1> QED
  BY <1>2, <1>3, <1>4

(* Two short sequences, one after the other.                                *)
LEMMA Joined == \A a, b : <<a>> \o <<b>> = <<a, b>>
<1> TAKE a, b
<1>1. PICK u : u = <<a>> \o <<b>>
  OBVIOUS
<1>2. <<a>> \in Seq({a, b}) /\ <<b>> \in Seq({a, b})
  OBVIOUS
<1>3. u \in Seq({a, b}) /\ Len(u) = 2
  BY <1>1, <1>2
<1>4. u[1] = a /\ u[2] = b
  BY <1>1, <1>2
<1>5. u = <<u[1], u[2]>>
  BY <1>3
<1> QED
  BY <1>1, <1>4, <1>5

(* A warning is added to the ones given before.                             *)
LEMMA Warned ==
  ASSUME pc = "waiting", WarnOK, NEW w \in {<<>>, <<"drift">>}
  PROVE  /\ Logged(w) \in Warnings /\ Written(w) \in Warnings
         /\ setup.mode # "warn" => Logged(w) = <<>>
         /\ setup.mode # "debug" => Written(w) = <<>>
         /\ Says(buf, "long") => Says(Logged(w), "long")
         /\ Says(stderr, "long") => Says(Written(w), "long")
         /\ Says(Logged(w), "drift") \/ Says(Written(w), "drift") => w # <<>>
         /\ w # <<>> /\ setup.mode \in {"warn", "debug"} =>
              Says(Logged(w), "drift") \/ Says(Written(w), "drift")
<1>1. buf \in {<<>>, <<"long">>} /\ stderr \in {<<>>, <<"long">>}
  BY DEF WarnOK, Warnings, Says
<1>2. /\ setup.mode # "warn" => buf = <<>>
      /\ setup.mode # "debug" => stderr = <<>>
  BY DEF WarnOK
<1>3. /\ <<>> \o <<>> = <<>> /\ <<"long">> \o <<>> = <<"long">>
      /\ <<>> \o <<"drift">> = <<"drift">> /\ <<"long">> \o <<"drift">> = <<"long", "drift">>
  <2>1. \A a, b : <<a>> \o <<b>> = <<a, b>>
    BY Joined
  <2> QED
    BY <2>1
<1>4. /\ Says(<<"drift">>, "drift") /\ Says(<<"long", "drift">>, "drift")
      /\ Says(<<"long">>, "long") /\ Says(<<"long", "drift">>, "long")
      /\ ~Says(<<>>, "drift") /\ ~Says(<<"long">>, "drift")
      /\ ~Says(<<>>, "long")
  BY DEF Says
<1>5. \/ Logged(w) = buf \/ (setup.mode = "warn" /\ w = <<"drift">> /\ buf = <<>> /\ Logged(w) = <<"drift">>)
      \/ (setup.mode = "warn" /\ w = <<"drift">> /\ buf = <<"long">> /\ Logged(w) = <<"long", "drift">>)
  BY <1>1, <1>3 DEF Logged
<1>6. \/ Written(w) = stderr \/ (setup.mode = "debug" /\ w = <<"drift">> /\ stderr = <<>> /\ Written(w) = <<"drift">>)
      \/ (setup.mode = "debug" /\ w = <<"drift">> /\ stderr = <<"long">> /\ Written(w) = <<"long", "drift">>)
  BY <1>1, <1>3 DEF Written
<1>7. /\ setup.mode = "warn" /\ w = <<"drift">> => Logged(w) # buf
      /\ setup.mode = "debug" /\ w = <<"drift">> => Written(w) # stderr
  BY <1>1, <1>3 DEF Logged, Written
<1> HIDE DEF Says
<1> QED
  BY <1>1, <1>2, <1>4, <1>5, <1>6, <1>7 DEF Warnings

(* The agent handles a request.                                             *)
LEMMA HandleKeeps ==
  ASSUME RequestIInv, NEW i \in DOMAIN calls, handle(i)
  PROVE  RequestIInv'
<1> USE DEF RequestIInv
<1>1. /\ calls[i].status = "inflight" /\ OwnLocks
      /\ UNCHANGED <<setup, config, foreign, pc, args, signalled, err, buf, stderr, code>>
  BY HandleHandles DEF clientVars
<1>2. PICK c : Handled(i, c)
  BY HandleHandles
<1>3. /\ DOMAIN calls' = DOMAIN calls /\ Len(calls') = Len(calls)
      /\ calls' \in Seq(Range(calls')) /\ calls'[i] = c
      /\ \A j \in DOMAIN calls : j # i => calls'[j] = calls[j]
  BY <1>2, CallReplaced DEF Handled, CallsOK
<1>4. CallOK(c) /\ c.req = calls[i].req /\ c.status \in {"answered", "rejected"}
  BY <1>2 DEF Handled
<1>5. CallsOK'
  BY <1>1, <1>3, <1>4 DEF CallsOK
<1>6. LocksOK'
  BY <1>1 DEF LocksOK, LockOK, OwnLocks
<1>7. NoMajorMix'
  <2>1. SUFFICES ASSUME setup.agent.valid, setup.client.valid,
                        setup.agent.major # setup.client.major
                 PROVE  /\ \A j \in DOMAIN calls' : calls'[j].status # "answered"
                        /\ \A d \in DOMAIN locks' : ~locks'[d].mine
    BY <1>1 DEF NoMajorMix
  <2>2. ~enforce(setup.agent, setup.client)
    BY <2>1, EnforceMajor
  <2>3. /\ \A j \in DOMAIN calls : calls[j].status # "answered"
        /\ \A d \in DOMAIN locks : ~locks[d].mine
    BY <2>1 DEF NoMajorMix
  <2>4. c.status # "answered"
    BY <1>2, <2>2 DEF Handled
  <2> QED
    BY <1>1, <1>3, <2>2, <2>3, <2>4 DEF OwnLocks
<1>8. calls # <<>> /\ calls' # <<>>
  BY <1>3, LastCall DEF CallsOK
<1>9. IF i = Len(calls) THEN last.status = "inflight" /\ last' = c /\ c.req = last.req
      ELSE last' = last
  BY <1>1, <1>3, <1>4, <1>8, LastCall DEF last, CallsOK
<1>10. ClientOK'
  <2>1. ClientTypes'
    BY <1>1 DEF ClientOK, ClientTypes
  <2> QED
    BY <1>1, <1>4, <1>8, <1>9, <2>1 DEF ClientOK
<1>11. WarnOK'
  BY <1>1, <1>9, Zenon DEF WarnOK, ClientOK, Heard
<1> QED
  BY <1>5, <1>6, <1>7, <1>10, <1>11

(* bob takes a lock.                                                        *)
LEMMA BobKeeps ==
  ASSUME RequestIInv, NEW d \in DOMAIN config.devs, NEW s \in setup.seconds, bobLocks(d, s)
  PROVE  RequestIInv'
<1> USE DEF RequestIInv
<1>1. /\ UNCHANGED <<setup, config, calls, pc, args, signalled, err, buf, stderr, code>>
      /\ foreign' = TRUE
  BY DEF bobLocks, clientVars
<1>2. s \in Int
  BY SetupsAssumption DEF ClientOK, ClientTypes
<1> DEFINE dur == lockDuration(s)
<1>3. dur \in (-HalfWord)..(HalfWord - 1)
  BY <1>2, LockDurationFits
<1>4. \/ UNCHANGED locks
      \/ /\ dur > 0
         /\ \E left \in LeftOf(d) :
              Grant(d, [user |-> <<"bob", 0>>, anonymous |-> FALSE], dur, FALSE, left)
  BY DEF bobLocks
<1> HIDE DEF dur
<1>5. \A x \in DOMAIN locks' : \/ x \in DOMAIN locks /\ locks'[x] = locks[x]
                               \/ LockOK(locks'[x]) /\ ~locks'[x].mine
  <2>1. CASE UNCHANGED locks
    BY <2>1
  <2>2. ASSUME dur > 0, NEW left \in LeftOf(d),
               Grant(d, [user |-> <<"bob", 0>>, anonymous |-> FALSE], dur, FALSE, left)
        PROVE  \A x \in DOMAIN locks' : \/ x \in DOMAIN locks /\ locks'[x] = locks[x]
                                        \/ LockOK(locks'[x]) /\ ~locks'[x].mine
    <3>1. left \in 0..(HalfWord - 1) /\ dur \in 1..(HalfWord - 1)
      BY <1>3, <2>2, LeftFits, WordAssumption
    <3>2. PICK n : n = Longer(left, dur)
      OBVIOUS
    <3>3. n \in 1..(HalfWord - 1)
      BY <3>1, <3>2, LongerFits
    <3>4. PICK l : l = [owner |-> <<"bob", 0>>, mine |-> FALSE, left |-> n]
      OBVIOUS
    <3>5. /\ DOMAIN locks' = DOMAIN locks \cup {d} /\ locks'[d] = l
          /\ \A x \in DOMAIN locks : x # d => locks'[x] = locks[x]
      BY <2>2, <3>2, <3>4 DEF Grant, Longer
    <3>6. LockOK(l) /\ ~l.mine
      BY <3>3, <3>4 DEF LockOK
    <3> QED
      BY <3>5, <3>6
  <2> QED
    BY <1>4, <2>1, <2>2
<1>6. CallsOK'
  BY <1>1 DEF CallsOK, CallOK, GrantOK
<1>7. LocksOK'
  BY <1>1, <1>5 DEF LocksOK, LockOK
<1>8. NoMajorMix'
  BY <1>1, <1>5 DEF NoMajorMix
<1>9. ClientOK'
  <2>1. ClientTypes'
    BY <1>1 DEF ClientOK, ClientTypes
  <2>2. last' = last
    BY <1>1 DEF last
  <2> QED
    BY <1>1, <2>1, <2>2 DEF ClientOK
<1>10. WarnOK'
  BY <1>1 DEF WarnOK, last
<1> QED
  BY <1>6, <1>7, <1>8, <1>9, <1>10

(* A lock runs out.                                                         *)
LEMMA ExpiryKeeps ==
  ASSUME RequestIInv, NEW d \in DOMAIN locks, expires(d)
  PROVE  RequestIInv'
<1> USE DEF RequestIInv
<1>1. /\ UNCHANGED <<setup, config, foreign, calls, pc, args, signalled, err, buf, stderr, code>>
      /\ \A x \in DOMAIN locks' : x \in DOMAIN locks /\ locks'[x] = locks[x]
  BY DEF expires, Without, clientVars
<1>2. CallsOK'
  BY <1>1 DEF CallsOK, CallOK, GrantOK
<1>3. LocksOK'
  BY <1>1 DEF LocksOK, LockOK
<1>4. NoMajorMix'
  BY <1>1 DEF NoMajorMix
<1>5. ClientOK'
  <2>1. ClientTypes'
    BY <1>1 DEF ClientOK, ClientTypes
  <2>2. last' = last
    BY <1>1 DEF last
  <2> QED
    BY <1>1, <2>1, <2>2 DEF ClientOK
<1>6. WarnOK'
  BY <1>1 DEF WarnOK, last
<1> QED
  BY <1>2, <1>3, <1>4, <1>5, <1>6

(* Steps of the client that touch neither calls nor locks: the agent loads  *)
(* its configuration; `version`; a signal; back in the shell.               *)
LEMMA IdleKeeps ==
  ASSUME RequestIInv, loadConfig \/ start \/ signal \/ again
  PROVE  RequestIInv'
<1> USE DEF RequestIInv
<1>1. /\ UNCHANGED <<setup, calls, locks, foreign, args, err, buf, stderr, code>>
      /\ last' = last
  BY DEF loadConfig, start, signal, again, agentVars, last
<1>2. CallsOK' /\ LocksOK' /\ NoMajorMix'
  BY <1>1, CallsAndLocksStay
<1>3. CASE loadConfig
  <2>1. pc = "load" /\ pc' \in {"shell", "refused"} /\ signalled' = signalled
    BY <1>3 DEF loadConfig
  <2>2. ClientTypes'
    BY <1>1, <2>1 DEF ClientOK, ClientTypes
  <2>3. ClientOK'
    BY <1>1, <2>1, <2>2 DEF ClientOK
  <2>4. WarnOK'
    BY <1>1, <2>1 DEF WarnOK
  <2> QED
    BY <1>2, <2>3, <2>4
<1>4. CASE start
  <2>1. /\ pc = "start" /\ pc' = "returned" /\ signalled' = signalled
        /\ args[1] = Word("version")
    BY <1>4 DEF start
  <2>2. ClientTypes'
    BY <1>1, <2>1 DEF ClientOK, ClientTypes
  <2>3. last.status = "unsent" /\ calls # <<>>
    BY <2>1 DEF ClientOK
  <2>4. ClientOK'
    BY <1>1, <2>1, <2>2, <2>3 DEF ClientOK
  <2>5. buf = <<>> /\ stderr = <<>> /\ last.req.rpc # "lock"
    BY <2>1, <2>3, LastCall DEF WarnOK, CallsOK, CallOK, last
  <2>6. WarnOK'
    BY <1>1, <2>1, <2>3, <2>5 DEF WarnOK, Warnings, Says
  <2> QED
    BY <1>2, <2>4, <2>6
<1>5. CASE signal
  <2>1. pc \in {"start", "waiting", "returned"} /\ pc' = pc /\ signalled' = TRUE
    BY <1>5 DEF signal
  <2>2. ClientTypes'
    BY <1>1, <2>1 DEF ClientOK, ClientTypes
  <2>3. ClientOK'
    BY <1>1, <2>1, <2>2 DEF ClientOK
  <2>4. WarnOK'
    BY <1>1, <2>1 DEF WarnOK
  <2> QED
    BY <1>2, <2>3, <2>4
<1>6. CASE again
  <2>1. pc' = "shell" /\ signalled' = signalled
    BY <1>6 DEF again
  <2>2. ClientTypes'
    BY <1>1, <2>1 DEF ClientOK, ClientTypes
  <2>3. ClientOK'
    BY <1>1, <2>1, <2>2 DEF ClientOK
  <2>4. WarnOK'
    BY <1>1, <2>1 DEF WarnOK
  <2> QED
    BY <1>2, <2>3, <2>4
<1> QED
  BY <1>3, <1>4, <1>5, <1>6

(* A new invocation starts with a call that is not sent yet.                *)
LEMMA InvokeKeeps ==
  ASSUME RequestIInv, NEW a \in setup.lines, invoke(a)
  PROVE  RequestIInv'
<1> USE DEF RequestIInv
<1>0. PICK n : n = [req |-> NoRpc(""), status |-> "unsent", answer |-> Unhandled]
  OBVIOUS
<1>1. /\ UNCHANGED <<setup, config, locks, foreign>>
      /\ pc = "shell" /\ Len(calls) < setup.invocations
      /\ args' = a /\ pc' = "start" /\ signalled' = FALSE
      /\ err' = "" /\ buf' = <<>> /\ stderr' = <<>> /\ code' = -1
      /\ calls' = Append(calls, n)
  BY <1>0 DEF invoke, agentVars
<1>a. calls' = Append(calls, n)
  BY <1>1
<1>b. n.status = "unsent" /\ n.answer = Unhandled /\ DOMAIN n = {"req", "status", "answer"}
  BY <1>0
<1>2. PICK R : R = Range(calls) /\ calls \in Seq(R)
  BY DEF CallsOK
<1>3. /\ calls' \in Seq(R \cup {n}) /\ Len(calls') = Len(calls) + 1
      /\ calls'[Len(calls) + 1] = n
      /\ \A j \in 1..Len(calls) : calls'[j] = calls[j]
  <2>1. PICK Q : Q = R \cup {n}
    OBVIOUS
  <2>2. calls \in Seq(Q) /\ n \in Q
    BY <1>2, <2>1
  <2> QED
    BY <1>a, <2>1, <2>2
<1>4. DOMAIN calls' = 1..(Len(calls) + 1) /\ Len(calls) \in Nat
  BY <1>2, <1>3
<1>5. calls' \in Seq(Range(calls'))
  <2>1. \A j \in 1..Len(calls') : calls'[j] \in Range(calls')
    BY <1>3, <1>4 DEF Range
  <2>2. calls' = [j \in 1..Len(calls') |-> calls'[j]] /\ Len(calls') \in Nat
    BY <1>3
  <2>3. \A Q : (\A j \in 1..Len(calls') : calls'[j] \in Q) =>
               [j \in 1..Len(calls') |-> calls'[j]] \in Seq(Q)
    BY <2>2
  <2> QED
    BY <2>1, <2>2, <2>3
<1>6. CallOK(n)
  <2>1. n.req.rpc = "none" /\ n.req.seconds = 0
        /\ DOMAIN n.req = {"rpc", "device", "command", "args", "seconds", "force", "err"}
    BY <1>0 DEF NoRpc, Rpc
  <2>3. DOMAIN Unhandled = {"ok", "granted", "fresh", "moduleArgs", "said"} /\ Unhandled.ok = FALSE
    BY DEF Unhandled, Answer
  <2>4. n.answer.ok = FALSE
    BY <1>b, <2>3
  <2>5. GrantOK(n.req, n.answer)
    BY <2>1 DEF GrantOK
  <2> QED
    <3>1. n.req.seconds \in Int
      BY <2>1
    <3>2. n.status # "answered" /\ n.status # "inflight"
      BY <1>b
    <3>3. n.answer.ok \in BOOLEAN
      BY <2>4
    <3> QED
      BY <1>b, <2>1, <2>3, <2>5, <3>1, <3>2, <3>3, Zenon DEF CallOK
<1>7. setup.invocations \in Nat /\ a \in Seq(Seq(Token))
  BY SetupsAssumption DEF ClientOK, ClientTypes
<1>8. CallsOK'
  <2>1. DOMAIN calls = 1..Len(calls)
    BY <1>2
  <2>2. \A j \in DOMAIN calls' : CallOK(calls'[j])
    BY <1>3, <1>4, <1>6, <2>1 DEF CallsOK
  <2>3. Len(calls') <= setup'.invocations
    <3>1. setup' = setup /\ Len(calls) < setup.invocations
      BY <1>1
    <3> QED
      BY <1>3, <1>4, <1>7, <3>1
  <2> QED
    BY <1>5, <2>2, <2>3 DEF CallsOK
<1>9. LocksOK'
  BY <1>1 DEF LocksOK, LockOK
<1>10. NoMajorMix'
  <2>1. DOMAIN calls = 1..Len(calls)
    BY <1>2
  <2>2. setup' = setup /\ locks' = locks
    BY <1>1
  <2>3. (\A j \in DOMAIN calls : calls[j].status # "answered") =>
          \A j \in DOMAIN calls' : calls'[j].status # "answered"
    BY <1>b, <1>3, <1>4, <2>1
  <2> QED
    BY <2>2, <2>3 DEF NoMajorMix
<1>11. calls' # <<>> /\ last' = n
  BY <1>3, <1>4 DEF last
<1>12. ClientTypes'
  BY <1>1, <1>7 DEF ClientOK, ClientTypes, Errors
<1>13. ClientOK'
  BY <1>0, <1>1, <1>11, <1>12 DEF ClientOK
<1>14. WarnOK'
  <2>1. Range(<<>>) = {}
    BY DEF Range
  <2> QED
    BY <1>1, <2>1 DEF WarnOK, Warnings
<1> QED
  BY <1>8, <1>9, <1>10, <1>13, <1>14

(* The warning of a long lock is given for every request that asks for one. *)
LEMMA LongWarned ==
  ASSUME args \in Seq(Seq(Token)), NEW req, req = route(args), req.rpc = "lock",
         2 * req.seconds > LongLock
  PROVE  Len(args) = 3 /\ parseLockDuration(SubSeq(args, 3, 3)).duration > LongLock
<1>1. Routed(args, req)
  BY RouteRouted
<1>2. Len(args) \in {2, 3} /\ req.seconds = Seconds(Asked(args))
  BY <1>1 DEF Routed
<1>3. PICK asked : asked = Asked(args)
  OBVIOUS
<1>4. asked \in 0..(HalfWord - 1)
  BY <1>3, ParsedDuration DEF Asked
<1>5. asked > LongLock
  BY <1>2, <1>3, <1>4, SecondsOf, WordAssumption, DurationsAssumption
<1>6. Len(args) = 3
  <2>1. SUFFICES ASSUME Len(args) = 2 PROVE FALSE
    BY <1>2
  <2>2. SubSeq(args, 3, Len(args)) = <<>>
    BY <2>1
  <2>3. asked = 0
    BY <1>3, <2>2, ParsedDuration DEF Asked
  <2> QED
    BY <1>5, <2>3, WordAssumption, DurationsAssumption
<1> QED
  BY <1>3, <1>5, <1>6 DEF Asked

(* dispatch stops with an error of the command line or sends the request.   *)
LEMMA DispatchKeeps ==
  ASSUME RequestIInv, dispatch
  PROVE  RequestIInv'
<1> USE DEF RequestIInv
<1>0. PICK req : req = route(args)
  OBVIOUS
<1> DEFINE long == IF /\ req.rpc = "lock" /\ Len(args) = 3
                      /\ parseLockDuration(SubSeq(args, 3, 3)).duration > LongLock
                   THEN <<"long">> ELSE <<>>
<1>1. /\ pc = "start" /\ UNCHANGED <<setup, config, locks, foreign, args, signalled, code>>
      /\ \/ /\ req.rpc = "none" /\ err' = req.err /\ pc' = "returned"
            /\ UNCHANGED <<calls, buf, stderr>>
         \/ /\ req.rpc # "none"
            /\ calls' = [calls EXCEPT ![Len(calls)].req = req, ![Len(calls)].status = "inflight"]
            /\ buf' = Logged(long) /\ stderr' = Written(long)
            /\ pc' = "waiting" /\ UNCHANGED err
  BY <1>0, Zenon DEF dispatch, agentVars
<1>2. Routed(args, req)
  BY <1>0, RouteRouted DEF ClientOK, ClientTypes
<1>3. calls # <<>> /\ last.status = "unsent" /\ buf = <<>> /\ stderr = <<>>
  BY <1>1 DEF ClientOK, WarnOK
<1>4. Len(calls) \in DOMAIN calls /\ CallOK(last) /\ last = calls[Len(calls)]
  BY <1>3, LastCall DEF CallsOK, last
<1>5. CASE req.rpc = "none"
  <2>1. /\ UNCHANGED <<setup, locks, foreign, args, signalled, code, calls, buf, stderr>>
        /\ err' = req.err /\ pc' = "returned"
    BY <1>1, <1>5
  <2>2. last' = last
    BY <2>1 DEF last
  <2>3. CallsOK' /\ LocksOK' /\ NoMajorMix'
    BY <2>1, CallsAndLocksStay
  <2>4. err' \in {"cmdline", "duration"}
    BY <1>2, <1>5, <2>1 DEF Routed
  <2>5. ClientTypes'
    BY <2>1, <2>4 DEF ClientOK, ClientTypes, Errors
  <2>6. ClientOK'
    BY <1>3, <2>1, <2>2, <2>4, <2>5 DEF ClientOK
  <2>7. last.req.rpc # "lock"
    BY <1>3, <1>4 DEF CallOK
  <2>8. WarnOK'
    <3>1. ~Says(<<>>, "drift") /\ Range(<<>>) = {}
      BY DEF Says, Range
    <3>2. buf' = <<>> /\ stderr' = <<>> /\ err' # "" /\ pc' = "returned" /\ setup' = setup
      BY <1>3, <2>1, <2>4
    <3> QED
      BY <2>2, <2>7, <3>1, <3>2 DEF WarnOK, Warnings
  <2> QED
    BY <2>3, <2>6, <2>8
<1>6. CASE req.rpc # "none"
  <2>1. PICK w : w = long
    OBVIOUS
  <2>2. /\ UNCHANGED <<setup, locks, foreign, args, signalled, code, err>>
        /\ buf' = Logged(w) /\ stderr' = Written(w) /\ pc' = "waiting"
    BY <1>1, <1>6, <2>1
  <2>3. PICK c : c = [last EXCEPT !.req = req, !.status = "inflight"]
    OBVIOUS
  <2>4. calls' = [calls EXCEPT ![Len(calls)] = c]
    BY <1>1, <1>4, <1>6, <2>3
  <2>5. /\ DOMAIN calls' = DOMAIN calls /\ Len(calls') = Len(calls)
        /\ calls' \in Seq(Range(calls')) /\ calls'[Len(calls)] = c
        /\ \A j \in DOMAIN calls : j # Len(calls) => calls'[j] = calls[j]
    BY <1>4, <2>4, CallReplaced DEF CallsOK
  <2>6. c.req = req /\ c.status = "inflight" /\ c.answer = Unhandled
        /\ DOMAIN c = {"req", "status", "answer"}
    BY <1>3, <1>4, <2>3 DEF CallOK
  <2>7. CallOK(c)
    <3>1. DOMAIN Unhandled = {"ok", "granted", "fresh", "moduleArgs", "said"} /\ Unhandled.ok = FALSE
      BY DEF Unhandled, Answer
    <3>2. req.rpc \in Rpcs /\ req.seconds \in Int
          /\ DOMAIN req = {"rpc", "device", "command", "args", "seconds", "force", "err"}
      BY <1>2, <1>6 DEF Routed
    <3>3. c.answer.ok = FALSE
      BY <2>6, <3>1
    <3> QED
      BY <2>6, <3>1, <3>2, <3>3 DEF CallOK, GrantOK
  <2>8. CallsOK'
    BY <2>2, <2>5, <2>7 DEF CallsOK
  <2>9. LocksOK'
    BY <2>2 DEF LocksOK, LockOK
  <2>10. NoMajorMix'
    BY <2>2, <2>5, <2>6 DEF NoMajorMix
  <2>11. last' = c /\ calls' # <<>>
    BY <1>4, <2>5 DEF last
  <2>12. ClientTypes'
    BY <2>2 DEF ClientOK, ClientTypes
  <2>13. ClientOK'
    BY <1>0, <2>2, <2>6, <2>11, <2>12 DEF ClientOK
  <2>14. w \in {<<>>, <<"long">>}
    BY <2>1
  <2>15. /\ buf' = IF setup.mode = "warn" THEN w ELSE <<>>
         /\ stderr' = IF setup.mode = "debug" THEN w ELSE <<>>
    <3>1. <<>> \o <<>> = <<>> /\ <<>> \o <<"long">> = <<"long">>
      OBVIOUS
    <3> QED
      BY <1>3, <2>2, <2>14, <3>1 DEF Logged, Written
  <2>16. req.rpc = "lock" /\ 2 * req.seconds > LongLock => w = <<"long">>
    BY <1>0, <2>1, LongWarned DEF ClientOK, ClientTypes
  <2>17. setup.mode \in {"none", "warn", "debug"}
    BY SetupsAssumption DEF ClientOK, ClientTypes
  <2>18. Says(<<"long">>, "long") /\ ~Says(<<"long">>, "drift") /\ ~Says(<<>>, "drift")
    BY DEF Says
  <2>19. Range(<<>>) = {} /\ Range(<<"long">>) = {"long"}
    BY DEF Range
  <2>20. WarnOK'
    BY <2>2, <2>6, <2>11, <2>14, <2>15, <2>16, <2>17, <2>18, <2>19 DEF WarnOK, Warnings
  <2> QED
    BY <2>8, <2>9, <2>10, <2>13, <2>20
<1> QED
  BY <1>5, <1>6

LEMMA WarningWords ==
  ASSUME NEW s \in Warnings
  PROVE  \A k \in DOMAIN s : s[k] \in {"drift", "long"}
<1>1. CASE s = <<>>
  BY <1>1
<1>2. CASE s = <<"long">>
  BY <1>2
<1>3. CASE s = <<"drift">>
  BY <1>3
<1>4. CASE s = <<"long", "drift">>
  BY <1>4
<1> QED
  BY <1>1, <1>2, <1>3, <1>4 DEF Warnings

(* The client stops waiting: what it has by then is what it says.           *)
LEMMA GiveUpKeeps ==
  ASSUME RequestIInv, pc = "waiting", pc' = "returned", err' \in Errors,
         NEW w \in {<<>>, <<"drift">>}, buf' = Logged(w), stderr' = Written(w),
         w # <<>> => drifts(setup.client, setup.agent),
         UNCHANGED <<setup, config, locks, foreign, args, signalled, code>>,
         CallsOK', NoMajorMix', calls' # <<>>,
         last'.req = last.req /\ last'.status # "unsent",
         err' = "" => last'.status = "answered" /\ last'.answer.ok,
         err' = "" /\ Heard(last') /\ drifts(setup.client, setup.agent) => w # <<>>
  PROVE  RequestIInv'
<1> USE DEF RequestIInv
<1>1. LocksOK'
  BY DEF LocksOK, LockOK
<1>2. ClientTypes'
  BY DEF ClientOK, ClientTypes
<1>3. calls # <<>> /\ last.status # "unsent" /\ last.req = route(args)
  BY DEF ClientOK
<1>4. ClientOK'
  BY <1>2, <1>3 DEF ClientOK
<1>5. setup.mode \in {"none", "warn", "debug"}
  BY SetupsAssumption DEF ClientOK, ClientTypes
<1>6. /\ buf' \in Warnings /\ stderr' \in Warnings
      /\ setup.mode # "warn" => buf' = <<>>
      /\ setup.mode # "debug" => stderr' = <<>>
      /\ Says(buf, "long") => Says(buf', "long")
      /\ Says(stderr, "long") => Says(stderr', "long")
      /\ Says(buf', "drift") \/ Says(stderr', "drift") => w # <<>>
      /\ w # <<>> /\ setup.mode \in {"warn", "debug"} => Says(buf', "drift") \/ Says(stderr', "drift")
  BY Warned
<1>7. \A s \in Warnings : Range(s) \subseteq {"drift", "long"}
  BY WarningWords DEF Range
<1>8. last.req.rpc = "lock" /\ 2 * last.req.seconds > LongLock /\ setup.mode # "none" =>
        Says(buf, "long") \/ Says(stderr, "long")
  BY DEF WarnOK
<1>9. WarnOK'
  BY <1>5, <1>6, <1>7, <1>8 DEF WarnOK
<1> QED
  BY <1>1, <1>4, <1>9

(* The answer arrives, or does not, and the client returns.                 *)
LEMMA ReturnKeeps ==
  ASSUME RequestIInv, returns \/ unaryTimeout \/ cancelled \/ unreachable
  PROVE  RequestIInv'
<1> USE DEF RequestIInv
<1>1. /\ pc = "waiting" /\ pc' = "returned"
      /\ UNCHANGED <<setup, config, locks, foreign, args, signalled, code>>
  BY DEF returns, unaryTimeout, cancelled, unreachable, agentVars
<1>2. calls # <<>> /\ last.status # "unsent"
  BY <1>1 DEF ClientOK
<1>3. Len(calls) \in DOMAIN calls /\ CallOK(last) /\ last = calls[Len(calls)]
  BY <1>2, LastCall DEF CallsOK, last
<1>4. /\ report(last) \in {<<>>, <<"drift">>}
      /\ report(last) # <<>> => drifts(setup.client, setup.agent)
  BY DEF report
<1>5. Logged(<<>>) = buf /\ Written(<<>>) = stderr
  <2>1. buf \in Warnings /\ stderr \in Warnings
    BY <1>1 DEF WarnOK
  <2>2. buf \o <<>> = buf /\ stderr \o <<>> = stderr
    BY <2>1 DEF Warnings
  <2> QED
    BY <2>2 DEF Logged, Written
<1>6. UNCHANGED calls => CallsOK' /\ NoMajorMix' /\ calls' # <<>> /\ last' = last
  BY <1>1, <1>2, CallsAndLocksStay DEF last
<1>7. CASE returns
  <2>1. /\ UNCHANGED calls /\ last.status \in {"answered", "rejected"}
        /\ err' = IF last.answer.ok THEN "" ELSE "rpc"
        /\ buf' = Logged(report(last)) /\ stderr' = Written(report(last))
    BY <1>7 DEF returns, last
  <2>2. err' \in Errors
    BY <2>1 DEF Errors
  <2>3. last.status = "rejected" => last.answer.ok = FALSE
    BY <1>3, AnswerShape DEF CallOK, Unhandled
  <2>4. err' = "" => last.status = "answered" /\ last.answer.ok
    BY <2>1, <2>3
  <2>5. err' = "" /\ Heard(last) /\ drifts(setup.client, setup.agent) => report(last) # <<>>
    BY <2>4 DEF report, Heard
  <2> QED
    BY <1>1, <1>2, <1>4, <1>6, <2>1, <2>2, <2>4, <2>5, GiveUpKeeps
<1>8. CASE unaryTimeout
  <2>1. UNCHANGED <<calls, buf, stderr>> /\ err' = "rpc"
    BY <1>8 DEF unaryTimeout
  <2>2. err' \in Errors /\ err' # ""
    BY <2>1 DEF Errors
  <2>3. buf' = Logged(<<>>) /\ stderr' = Written(<<>>)
    BY <1>5, <2>1
  <2> QED
    BY <1>1, <1>2, <1>6, <2>1, <2>2, <2>3, GiveUpKeeps
<1>9. CASE cancelled
  <2>1. UNCHANGED calls /\ err' = "rpc"
    BY <1>9 DEF cancelled
  <2>2. err' \in Errors /\ err' # ""
    BY <2>1 DEF Errors
  <2>3. PICK w \in {<<>>, report(last)} : buf' = Logged(w) /\ stderr' = Written(w)
    BY <1>9 DEF cancelled, last
  <2>4. w \in {<<>>, <<"drift">>} /\ (w # <<>> => drifts(setup.client, setup.agent))
    BY <1>4, <2>3
  <2> QED
    BY <1>1, <1>2, <1>6, <2>1, <2>2, <2>3, <2>4, GiveUpKeeps
<1>10. CASE unreachable
  <2>1. /\ UNCHANGED <<buf, stderr>> /\ err' = "rpc" /\ last.status = "inflight"
        /\ calls' = [calls EXCEPT ![Len(calls)].status = "lost"]
    BY <1>10 DEF unreachable, last
  <2>2. err' \in Errors /\ err' # ""
    BY <2>1 DEF Errors
  <2>3. buf' = Logged(<<>>) /\ stderr' = Written(<<>>)
    BY <1>5, <2>1
  <2>4. PICK c : c = [last EXCEPT !.status = "lost"]
    OBVIOUS
  <2>5. CallOK(c) /\ c.req = last.req /\ c.status = "lost"
    BY <1>3, <2>1, <2>4, RefusedCall
  <2>6. calls' = [calls EXCEPT ![Len(calls)] = c]
    BY <1>3, <2>1, <2>4
  <2>7. /\ DOMAIN calls' = DOMAIN calls /\ Len(calls') = Len(calls)
        /\ calls' \in Seq(Range(calls')) /\ calls'[Len(calls)] = c
        /\ \A j \in DOMAIN calls : j # Len(calls) => calls'[j] = calls[j]
    BY <1>3, <2>6, CallReplaced DEF CallsOK
  <2>8. CallsOK' /\ NoMajorMix'
    BY <1>1, <2>5, <2>7 DEF CallsOK, NoMajorMix
  <2>9. calls' # <<>> /\ last' = c
    BY <1>3, <2>7 DEF last
  <2> QED
    BY <1>1, <2>2, <2>3, <2>5, <2>8, <2>9, GiveUpKeeps
<1> QED
  BY <1>7, <1>8, <1>9, <1>10

(* The parts of what is written at the exit, place by place.                *)
LEMMA Places ==
  ASSUME NEW w \in Warnings, NEW e \in Endings
  PROVE  \E n \in {0, 1, 2}, m \in {0, 1, 2} :
           /\ Len(w) = n /\ Len(e) = m /\ Len(w \o e) = n + m
           /\ DOMAIN w = 1..n /\ DOMAIN e = 1..m /\ DOMAIN (w \o e) = 1..(n + m)
           /\ \A k \in 1..n : (w \o e)[k] = w[k]
           /\ \A k \in 1..m : (w \o e)[n + k] = e[k]
<1>0. PICK W : W = {"drift", "long", "error", "usage", "interrupted"}
  OBVIOUS
<1>a. "drift" \in W /\ "long" \in W /\ "error" \in W /\ "usage" \in W /\ "interrupted" \in W
  BY <1>0
<1>1. w \in Seq(W) /\ e \in Seq(W)
  <2>0. \A x, y \in W : <<>> \in Seq(W) /\ <<x>> \in Seq(W) /\ <<x, y>> \in Seq(W)
    OBVIOUS
  <2>1. w \in Seq(W)
    BY <1>a, <2>0, Zenon DEF Warnings
  <2>2. e \in Seq(W)
    BY <1>a, <2>0, Zenon DEF Endings
  <2> QED
    BY <2>1, <2>2
<1>2. Len(w) \in {0, 1, 2} /\ Len(e) \in {0, 1, 2}
  <2>1. Len(w) \in {0, 1, 2}
    BY DEF Warnings
  <2>2. Len(e) \in {0, 1, 2}
    BY DEF Endings
  <2> QED
    BY <2>1, <2>2
<1>3. /\ Len(w \o e) = Len(w) + Len(e)
      /\ DOMAIN w = 1..Len(w) /\ DOMAIN e = 1..Len(e)
      /\ DOMAIN (w \o e) = 1..(Len(w) + Len(e))
  BY <1>1
<1>4. \A k \in 1..Len(w) : (w \o e)[k] = w[k]
  BY <1>1
<1>5. \A k \in 1..Len(e) : (w \o e)[Len(w) + k] = e[k]
  BY <1>1
<1> QED
  BY <1>2, <1>3, <1>4, <1>5

(* Warnings stand before the error and are told once; the error is last.    *)
LEMMA SaidAtExit ==
  ASSUME NEW w \in Warnings, NEW e \in Endings
  PROVE  /\ Says(w \o e, "drift") <=> Says(w, "drift")
         /\ Says(w \o e, "long") <=> Says(w, "long")
         /\ Range(w \o e) \subseteq {"drift", "long", "error", "usage", "interrupted"}
         /\ \A x \in {"drift", "long"} : \A j, k \in DOMAIN (w \o e) :
              (w \o e)[j] = x /\ (w \o e)[k] = x => j = k
         /\ \A k \in 1..(Len(w \o e) - 1) :
              (w \o e)[k] \in {"error", "interrupted"} => (w \o e)[k + 1] = "usage"
<1> DEFINE s == w \o e
<1>1. PICK n \in {0, 1, 2}, m \in {0, 1, 2} :
           /\ Len(s) = n + m
           /\ DOMAIN w = 1..n /\ DOMAIN e = 1..m /\ DOMAIN s = 1..(n + m)
           /\ \A k \in 1..n : s[k] = w[k]
           /\ \A k \in 1..m : s[n + k] = e[k]
  BY Places
<1>2. \A k \in DOMAIN w : w[k] \in {"drift", "long"}
  BY WarningWords
<1>3. \A k \in DOMAIN e : e[k] \in {"error", "usage", "interrupted"}
  BY DEF Endings
<1> HIDE DEF s
<1>4. \A k \in DOMAIN s :
        \/ k \in DOMAIN w /\ s[k] = w[k]
        \/ k - n \in DOMAIN e /\ s[k] = e[k - n]
  <2>1. SUFFICES ASSUME NEW k \in 1..(n + m) 
                 PROVE \/ k \in DOMAIN w /\ s[k] = w[k]
                       \/ k - n \in DOMAIN e /\ s[k] = e[k - n]
    BY <1>1
  <2>2. CASE k <= n
    BY <1>1, <2>2
  <2>3. CASE k > n
    <3>1. k - n \in 1..m /\ n + (k - n) = k
      BY <2>3
    <3> QED
      BY <1>1, <3>1
  <2> QED
    BY <2>2, <2>3
<1>5. \A k \in DOMAIN w : k \in DOMAIN s /\ s[k] = w[k]
  BY <1>1
<1>6. \A x \in {"drift", "long"} : Says(s, x) <=> Says(w, x)
  BY <1>3, <1>4, <1>5 DEF Says
<1>7. Range(s) \subseteq {"drift", "long", "error", "usage", "interrupted"}
  BY <1>2, <1>3, <1>4 DEF Range
<1>8. \A j, k \in DOMAIN w : w[j] = w[k] => j = k
  <2>1. CASE w = <<>>
    BY <2>1
  <2>2. CASE w = <<"long">>
    BY <2>2
  <2>3. CASE w = <<"drift">>
    BY <2>3
  <2>4. CASE w = <<"long", "drift">>
    BY <2>4
  <2> QED
    BY <2>1, <2>2, <2>3, <2>4 DEF Warnings
<1>9. \A j \in DOMAIN e : j + 1 \in DOMAIN e => e[j + 1] = "usage"
  <2>1. CASE e = <<>>
    BY <2>1
  <2>2. CASE e = <<"error">>
    BY <2>2
  <2>3. CASE e = <<"interrupted">>
    BY <2>3
  <2>4. CASE e = <<"error", "usage">>
    BY <2>4
  <2> QED
    BY <2>1, <2>2, <2>3, <2>4 DEF Endings
<1>10. \A x \in {"drift", "long"} : \A j, k \in DOMAIN s : s[j] = x /\ s[k] = x => j = k
  BY <1>3, <1>4, <1>8
<1>11. ASSUME NEW k \in 1..(n + m - 1), s[k] \in {"error", "interrupted"}
       PROVE  s[k + 1] = "usage"
  <2>1. k \in DOMAIN s
    BY <1>1
  <2>2. k - n \in DOMAIN e
    BY <1>2, <1>4, <1>11, <2>1
  <2>3. PICK j \in 1..m : j = k - n
    BY <1>1, <2>2
  <2>4. j + 1 \in 1..m /\ n + (j + 1) = k + 1
    BY <2>3
  <2> QED
    BY <1>1, <1>9, <2>3, <2>4
<1>12. \A k \in 1..(Len(s) - 1) : s[k] \in {"error", "interrupted"} => s[k + 1] = "usage"
  BY <1>1, <1>11
<1> QED
  BY <1>6, <1>7, <1>10, <1>12 DEF s

(* exit writes the warnings, then the error, and turns it into a code.      *)
LEMMA ExitKeeps ==
  ASSUME RequestIInv, exit
  PROVE  RequestIInv'
<1> USE DEF RequestIInv
<1>0. PICK e : e = asInterrupt(err)
  OBVIOUS
<1>1. PICK t : t = CASE e = "" -> <<>>
                     [] e = "cmdline" -> <<"error", "usage">>
                     [] e = "interrupted" -> <<"interrupted">>
                     [] e \in {"rpc", "duration"} -> <<"error">>
  OBVIOUS
<1>2. /\ pc = "returned" /\ pc' = "exited" /\ buf' = <<>>
      /\ UNCHANGED <<setup, config, locks, foreign, calls, args, signalled, err>>
      /\ stderr' = stderr \o buf \o t
      /\ code' = CASE e = "" -> 0
                   [] e = "interrupted" -> 130
                   [] e \notin {"", "interrupted"} -> 1
  BY <1>0, <1>1, Zenon DEF exit, agentVars
<1>3. err \in Errors /\ last' = last
  BY <1>2 DEF ClientOK, ClientTypes, last
<1>4. /\ e \in {"", "interrupted", "cmdline", "rpc", "duration"}
      /\ e = "" <=> err = ""
      /\ e = "interrupted" <=> err # "" /\ signalled
  <2>1. signalled \in BOOLEAN
    BY DEF ClientOK, ClientTypes
  <2> QED
    BY <1>0, <1>3, <2>1, Zenon DEF asInterrupt, Errors
<1>5. /\ code' \in {0, 1, 130}
      /\ code' = 0 => err = ""
      /\ code' = 130 => err # "" /\ signalled
      /\ code' = 1 => err # "" /\ ~signalled
  <2>1. CASE e = ""
    <3>1. code' = 0
      BY <1>2, <2>1
    <3>2. code' # 1 /\ code' # 130 /\ code' \in {0, 1, 130}
      BY <3>1
    <3> QED
      BY <1>4, <2>1, <3>1, <3>2, Zenon
  <2>2. CASE e = "interrupted"
    <3>1. code' = 130
      BY <1>2, <2>2
    <3>2. code' # 0 /\ code' # 1 /\ code' \in {0, 1, 130}
      BY <3>1
    <3> QED
      BY <1>4, <2>2, <3>1, <3>2, Zenon
  <2>3. CASE e \notin {"", "interrupted"}
    <3>1. code' = 1
      BY <1>2, <2>3
    <3>2. code' # 0 /\ code' # 130 /\ code' \in {0, 1, 130}
      BY <3>1
    <3> QED
      BY <1>4, <2>3, <3>1, <3>2, Zenon
  <2> QED
    BY <2>1, <2>2, <2>3
<1>6. t \in Endings
  <2>1. e = "" => t = <<>>
    BY <1>1
  <2>2. e = "cmdline" => t = <<"error", "usage">>
    BY <1>1
  <2>3. e = "interrupted" => t = <<"interrupted">>
    BY <1>1
  <2>4. e \in {"rpc", "duration"} => t = <<"error">>
    BY <1>1
  <2> QED
    BY <1>4, <2>1, <2>2, <2>3, <2>4 DEF Endings
<1>7. PICK w \in Warnings :
        /\ stderr' = w \o t
        /\ setup.mode = "none" => w = <<>>
        /\ w = buf \/ w = stderr
        /\ \A x \in {"drift", "long"} : Says(buf, x) \/ Says(stderr, x) <=> Says(w, x)
  <2>1. /\ buf \in Warnings /\ stderr \in Warnings
        /\ setup.mode # "warn" => buf = <<>>
        /\ setup.mode # "debug" => stderr = <<>>
    BY <1>2 DEF WarnOK
  <2>2. \A x \in {"drift", "long"} : ~Says(<<>>, x)
    BY DEF Says
  <2>3. \A s \in Warnings : <<>> \o s = s /\ s \o <<>> = s
    BY DEF Warnings
  <2>4. CASE buf = <<>>
    <3>1. stderr \o buf = stderr
      BY <2>1, <2>3, <2>4
    <3>2. stderr' = stderr \o t
      BY <1>2, <3>1
    <3> QED
      BY <2>1, <2>2, <2>4, <3>2
  <2>5. CASE stderr = <<>>
    <3>1. stderr \o buf = buf
      BY <2>1, <2>3, <2>5
    <3>2. stderr' = buf \o t
      BY <1>2, <3>1
    <3> QED
      BY <2>1, <2>2, <2>5, <3>2
  <2> QED
    BY <2>1, <2>4, <2>5
<1>8. CallsOK' /\ LocksOK' /\ NoMajorMix'
  BY <1>2, CallsAndLocksStay
<1>9. ClientTypes'
  BY <1>2, <1>5 DEF ClientOK, ClientTypes
<1>10. ClientOK'
  <2>1. calls # <<>>
    BY <1>2 DEF ClientOK
  <2> QED
    BY <1>2, <1>3, <1>5, <1>9, <2>1 DEF ClientOK
<1>11. /\ Says(stderr', "drift") <=> Says(buf, "drift") \/ Says(stderr, "drift")
       /\ Says(stderr', "long") <=> Says(buf, "long") \/ Says(stderr, "long")
       /\ Range(stderr') \subseteq {"drift", "long", "error", "usage", "interrupted"}
  BY <1>6, <1>7, SaidAtExit
<1>12. WarnOK'
  <2>1. Range(<<>>) = {}
    BY DEF Range
  <2>2. \E w2 \in Warnings, e2 \in Endings :
          stderr' = w2 \o e2 /\ (setup.mode = "none" => w2 = <<>>)
    BY <1>6, <1>7
  <2>3. /\ Says(buf, "drift") \/ Says(stderr, "drift") => drifts(setup.client, setup.agent)
        /\ last.req.rpc = "lock" /\ 2 * last.req.seconds > LongLock /\ setup.mode # "none" =>
             Says(buf, "long") \/ Says(stderr, "long")
        /\ err = "" /\ last.status = "answered" /\ Heard(last) /\ setup.mode # "none"
             /\ drifts(setup.client, setup.agent) => Says(buf, "drift") \/ Says(stderr, "drift")
    BY <1>2 DEF WarnOK
  <2>4. Heard(last)' <=> Heard(last)
    BY <1>3 DEF Heard
  <2> QED
    BY <1>2, <1>3, <1>11, <2>1, <2>2, <2>3, <2>4 DEF WarnOK
<1> QED
  BY <1>8, <1>10, <1>12

(* Nothing happens.                                                         *)
LEMMA StutterKeeps ==
  ASSUME RequestIInv, UNCHANGED vars
  PROVE  RequestIInv'
<1> USE DEF RequestIInv
<1>1. UNCHANGED <<setup, config, locks, foreign, calls, pc, args, signalled, err, buf, stderr, code>>
  BY DEF vars, agentVars, clientVars
<1>2. CallsOK' /\ LocksOK' /\ NoMajorMix'
  BY <1>1, CallsAndLocksStay
<1>3. last' = last
  BY <1>1 DEF last
<1>4. ClientTypes'
  BY <1>1 DEF ClientOK, ClientTypes
<1>5. ClientOK'
  BY <1>1, <1>3, <1>4 DEF ClientOK
<1>6. WarnOK'
  BY <1>1, <1>3 DEF WarnOK
<1> QED
  BY <1>2, <1>5, <1>6

LEMMA RequestInitOK ==
  ASSUME RequestInit
  PROVE  RequestIInv
<1>1. /\ setup \in Setups /\ locks = <<>> /\ calls = <<>> /\ pc = "load"
      /\ args = <<>> /\ err = "" /\ buf = <<>> /\ stderr = <<>> /\ code = -1
  BY DEF RequestInit
<1>2. signalled = FALSE /\ foreign = FALSE
  BY DEF RequestInit
<1>3. CallsOK
  <2>1. setup.invocations \in Nat
    BY <1>1, SetupsAssumption
  <2>2. PICK R : R = Range(calls)
    OBVIOUS
  <2>3. <<>> \in Seq(R) /\ Len(<<>>) = 0 /\ DOMAIN <<>> = {}
    OBVIOUS
  <2>4. calls \in Seq(Range(calls)) /\ Len(calls) = 0 /\ DOMAIN calls = {}
    BY <1>1, <2>2, <2>3
  <2> QED
    BY <2>1, <2>4 DEF CallsOK
<1>4. LocksOK /\ NoMajorMix
  <2>a. DOMAIN <<>> = {}
    OBVIOUS
  <2>0. locks = <<>> /\ calls = <<>> /\ DOMAIN <<>> = {}
    BY <1>1, <2>a, Zenon
  <2>1. DOMAIN locks = {} /\ DOMAIN calls = {}
    BY <2>0, Zenon
  <2> QED
    BY <2>1, Zenon DEF LocksOK, NoMajorMix
<1>5. ClientOK
  <2>0. \A S : <<>> \in Seq(S)
    OBVIOUS
  <2>1. args \in Seq(Seq(Token))
    BY <1>1, <2>0, Zenon
  <2>2. foreign \in BOOLEAN /\ signalled \in BOOLEAN
    BY <1>2
  <2>3. ClientTypes
    BY <1>1, <2>1, <2>2 DEF ClientTypes, Errors
  <2> QED
    BY <1>1, <2>3 DEF ClientOK
<1>6. WarnOK
  <2>1. Range(<<>>) = {}
    BY DEF Range
  <2> QED
    BY <1>1, <2>1 DEF WarnOK
<1> QED
  BY <1>3, <1>4, <1>5, <1>6 DEF RequestIInv

LEMMA RequestStep ==
  ASSUME RequestIInv, [RequestNext]_vars
  PROVE  RequestIInv'
<1>1. CASE \E a \in setup.lines : invoke(a)
  BY <1>1, InvokeKeeps
<1>2. CASE loadConfig \/ start \/ signal \/ again
  BY <1>2, IdleKeeps
<1>3. CASE dispatch
  BY <1>3, DispatchKeeps
<1>4. CASE returns \/ unaryTimeout \/ cancelled \/ unreachable
  BY <1>4, ReturnKeeps
<1>5. CASE exit
  BY <1>5, ExitKeeps
<1>6. CASE \E i \in DOMAIN calls : handle(i)
  BY <1>6, HandleKeeps
<1>7. CASE \E d \in DOMAIN config.devs, s \in setup.seconds : bobLocks(d, s)
  BY <1>7, BobKeeps
<1>8. CASE \E d \in DOMAIN locks : expires(d)
  BY <1>8, ExpiryKeeps
<1>9. CASE UNCHANGED vars
  BY <1>9, StutterKeeps
<1> QED
  BY <1>1, <1>2, <1>3, <1>4, <1>5, <1>6, <1>7, <1>8, <1>9, Zenon
  DEF RequestNext, ClientStep, Finished

(* Every state satisfies the invariant.                                     *)
THEOREM RequestInvariant == RequestSpec => []RequestIInv
BY RequestInitOK, RequestStep, PTL DEF RequestSpec

-----------------------------------------------------------------------------
(* What follows from it.                                                    *)

(* No handler runs for a client of another major version (the version       *)
(* enforcer in front of every handler).                                     *)
THEOREM NoMajorMixAlways == RequestSpec => []NoMajorMix
<1>1. RequestIInv => NoMajorMix
  BY DEF RequestIInv
<1> QED
  BY <1>1, RequestInvariant, PTL

(* A lock lasts as long as the duration on the command line says.           *)
LEMMA AskedIsGranted ==
  ASSUME RequestIInv
  PROVE  GrantedAsAsked
<1> USE DEF RequestIInv
<1>0. SUFFICES ASSUME calls # <<>>, last.req.rpc = "lock", last.answer.ok,
                      NEW asked, asked = Asked(args),
                      NEW got, got = last.answer.granted
               PROVE  /\ asked >= 2 => got > asked - 2
                      /\ asked >= 2 /\ last.answer.fresh => got <= asked
                      /\ asked < 2 => got >= DefaultLock
                      /\ asked < 2 /\ last.answer.fresh => got = DefaultLock
  <2>1. ASSUME NEW i \in DOMAIN calls PROVE calls # <<>>
    BY <2>1
  <2> QED
    BY <2>1 DEF GrantedAsAsked, Asked, last
<1>1. CallOK(last)
  BY <1>0, LastCall DEF CallsOK, last
<1>2. last.status # "unsent"
  BY <1>0, <1>1 DEF CallOK
<1>3. last.req = route(args) /\ args \in Seq(Seq(Token))
  BY <1>0, <1>2 DEF ClientOK, ClientTypes
<1>4. PICK r : r = last.req
  OBVIOUS
<1>5. Routed(args, r)
  BY <1>3, <1>4, RouteRouted
<1>6. r.seconds = Seconds(asked)
  BY <1>0, <1>4, <1>5 DEF Routed
<1>7. asked \in 0..(HalfWord - 1)
  BY <1>0, ParsedDuration DEF Asked
<1>8. PICK sec : sec = r.seconds
  OBVIOUS
<1>9. sec \in Nat /\ 2 * sec <= asked /\ asked < 2 * sec + 2
  BY <1>6, <1>7, <1>8, SecondsOf
<1>10. PICK dur : dur = lockDuration(sec)
  OBVIOUS
<1>11. /\ dur \in Int
       /\ sec = 0 => dur = DefaultLock
       /\ sec > 0 /\ 2 * sec < HalfWord => dur = 2 * sec
  <2>1. sec \in Int
    BY <1>9
  <2>2. (-HalfWord)..(HalfWord - 1) \subseteq Int
    BY WordAssumption
  <2> QED
    BY <1>10, <2>1, <2>2, LockDurationFits
<1>12. got \in Int /\ got >= dur /\ (last.answer.fresh => got = dur)
  <2>1. GrantOK(last.req, last.answer)
    BY <1>1 DEF CallOK
  <2> QED
    BY <1>0, <1>4, <1>8, <1>10, <2>1, Zenon DEF GrantOK
<1>13. asked >= 2 => sec > 0 /\ 2 * sec < HalfWord /\ dur = 2 * sec
  BY <1>7, <1>9, <1>11, WordAssumption
<1>14. asked < 2 => sec = 0
  BY <1>7, <1>9, WordAssumption
<1>15. asked >= 2 => dur > asked - 2 /\ dur <= asked
  BY <1>7, <1>9, <1>13
<1>16. asked >= 2 => got > asked - 2
  BY <1>7, <1>11, <1>12, <1>15, WordAssumption
<1>17. asked >= 2 /\ last.answer.fresh => got <= asked
  BY <1>12, <1>15, Zenon
<1>18. asked < 2 => dur = DefaultLock
  BY <1>11, <1>14, Zenon
<1>19. asked < 2 => got >= DefaultLock
  BY <1>12, <1>18, Zenon
<1>20. asked < 2 /\ last.answer.fresh => got = DefaultLock
  BY <1>12, <1>18, Zenon
<1> QED
  BY <1>16, <1>17, <1>19, <1>20

(* A lock that a shell without USER has taken is in the name that one of    *)
(* its calls has made up.                                                   *)
MadeUp ==
  \A d \in DOMAIN locks : locks[d].mine /\ setup.user = "unset" =>
    \E j \in DOMAIN calls : locks[d].owner = <<"unknown", j>>

(* The name a shell without USER presents.                                  *)
LEMMA MadeUpName ==
  ASSUME setup.user = "unset", NEW i
  PROVE  identify(Default(setup.user, i), i) = [user |-> <<"unknown", i>>, anonymous |-> FALSE]
<1>1. Default(setup.user, i) = <<"unknown", i>> /\ <<"unknown", i>> # <<"", 0>>
  BY DEF Default
<1> QED
  BY <1>1, Zenon DEF identify

(* Only a Lock request of the shell takes a lock for it, in its own name.   *)
LEMMA LocksTaken ==
  ASSUME CallsOK, NEW i \in DOMAIN calls, handle(i), NEW d \in DOMAIN locks'
  PROVE  \/ d \in DOMAIN locks /\ locks'[d] = locks[d]
         \/ locks'[d].owner = identify(Default(setup.user, i), i).user
<1>1. PICK id : id = identify(Default(setup.user, i), i)
  OBVIOUS
<1>2. PICK req : req = calls[i].req
  OBVIOUS
<1>3. CASE UNCHANGED locks
  BY <1>3
<1>4. CASE Unlock(i, req, id)
  BY <1>4 DEF Unlock, Without
<1>5. CASE Lock(i, req, id) /\ ~UNCHANGED locks
  <2>1. PICK dur, left : Grant(req.device, id, dur, TRUE, left)
    BY <1>5 DEF Lock
  <2> QED
    BY <1>1, <2>1 DEF Grant
<1>6. req.rpc \in Rpcs
  BY <1>2 DEF CallsOK, CallOK, handle
<1>7. UNCHANGED locks \/ Unlock(i, req, id) \/ Lock(i, req, id)
  BY <1>1, <1>2, <1>6, Zenon DEF handle, Run, Lookup, Rpcs
<1> QED
  BY <1>3, <1>4, <1>5, <1>7

(* Calls are never forgotten, and the setup does not change.                *)
LEMMA CallsKept ==
  ASSUME RequestIInv, [RequestNext]_vars
  PROVE  DOMAIN calls \subseteq DOMAIN calls' /\ setup' = setup
<1> USE DEF RequestIInv
<1>1. CASE \E a \in setup.lines : invoke(a)
  <2>1. PICK c : calls' = Append(calls, c) /\ setup' = setup
    BY <1>1 DEF invoke, agentVars
  <2>2. calls \in Seq(Range(calls))
    BY DEF CallsOK
  <2>3. Len(calls) \in Nat /\ DOMAIN calls = 1..Len(calls)
    BY <2>2
  <2>4. DOMAIN Append(calls, c) = 1..(Len(calls) + 1)
    BY <2>2
  <2> QED
    BY <2>1, <2>3, <2>4
<1>2. CASE loadConfig \/ start \/ signal \/ again
  BY <1>2 DEF loadConfig, start, signal, again, agentVars
<1>3. CASE dispatch
  BY <1>3 DEF dispatch, agentVars
<1>4. CASE returns \/ unaryTimeout \/ cancelled \/ unreachable
  BY <1>4 DEF returns, unaryTimeout, cancelled, unreachable, agentVars
<1>5. CASE exit
  BY <1>5 DEF exit, agentVars
<1>6. ASSUME NEW i \in DOMAIN calls, handle(i)
      PROVE  DOMAIN calls \subseteq DOMAIN calls' /\ setup' = setup
  <2>1. PICK c : Handled(i, c)
    BY <1>6, HandleHandles
  <2>2. DOMAIN calls' = DOMAIN calls
    BY <2>1 DEF Handled
  <2> QED
    BY <1>6, <2>2 DEF handle
<1>7. CASE \E d \in DOMAIN config.devs, s \in setup.seconds : bobLocks(d, s)
  BY <1>7 DEF bobLocks
<1>8. CASE \E d \in DOMAIN locks : expires(d)
  BY <1>8 DEF expires
<1>9. CASE UNCHANGED vars
  BY <1>9 DEF vars, agentVars
<1> QED
  BY <1>1, <1>2, <1>3, <1>4, <1>5, <1>6, <1>7, <1>8, <1>9, Zenon
  DEF RequestNext, ClientStep, Finished

(* A step leaves a lock as it is, gives it to bob, or takes it in the name  *)
(* of a call of this shell.                                                 *)
LEMMA LocksFrom ==
  ASSUME RequestIInv, [RequestNext]_vars, NEW d \in DOMAIN locks'
  PROVE  \/ d \in DOMAIN locks /\ locks'[d] = locks[d]
         \/ ~locks'[d].mine
         \/ \E j \in DOMAIN calls : locks'[d].owner = identify(Default(setup.user, j), j).user
<1>1. CASE \E i \in DOMAIN calls : handle(i)
  BY <1>1, LocksTaken, Zenon DEF RequestIInv
<1>2. CASE \E x \in DOMAIN config.devs, s \in setup.seconds : bobLocks(x, s)
  <2>1. PICK x, s : bobLocks(x, s)
    BY <1>2
  <2>2. CASE UNCHANGED locks
    BY <2>2
  <2>3. ASSUME NEW id, NEW dur, NEW left, Grant(x, id, dur, FALSE, left)
        PROVE  (d \in DOMAIN locks /\ locks'[d] = locks[d]) \/ ~locks'[d].mine
    BY <2>3 DEF Grant
  <2> QED
    BY <2>1, <2>2, <2>3, Zenon DEF bobLocks
<1>3. CASE \E x \in DOMAIN locks : expires(x)
  BY <1>3 DEF expires, Without
<1>4. CASE \/ \E a \in setup.lines : invoke(a)
          \/ loadConfig \/ start \/ signal \/ again \/ dispatch \/ exit
          \/ returns \/ unaryTimeout \/ cancelled \/ unreachable \/ UNCHANGED vars
  <2>1. UNCHANGED locks
    BY <1>4, Zenon DEF invoke, loadConfig, start, signal, again, dispatch, exit, returns,
       unaryTimeout, cancelled, unreachable, vars, agentVars
  <2> QED
    BY <2>1
<1> QED
  BY <1>1, <1>2, <1>3, <1>4, Zenon DEF RequestNext, ClientStep, Finished

(* Made-up names stay those of calls.                                       *)
LEMMA MadeUpKeeps ==
  ASSUME RequestIInv, MadeUp, [RequestNext]_vars
  PROVE  MadeUp'
<1>1. SUFFICES ASSUME NEW d \in DOMAIN locks', locks'[d].mine, setup'.user = "unset"
               PROVE  \E j \in DOMAIN calls' : locks'[d].owner = <<"unknown", j>>
  BY Zenon DEF MadeUp
<1>2. DOMAIN calls \subseteq DOMAIN calls' /\ setup' = setup
  BY CallsKept
<1>3. setup.user = "unset"
  BY <1>1, <1>2
<1>4. CASE d \in DOMAIN locks /\ locks'[d] = locks[d]
  <2>1. locks[d].mine
    BY <1>1, <1>4, Zenon
  <2>2. \E j \in DOMAIN calls : locks[d].owner = <<"unknown", j>>
    BY <1>3, <1>4, <2>1, Zenon DEF MadeUp
  <2> QED
    BY <1>2, <1>4, <2>2, Zenon
<1>5. ASSUME NEW j \in DOMAIN calls, locks'[d].owner = identify(Default(setup.user, j), j).user
      PROVE  locks'[d].owner = <<"unknown", j>>
  <2>1. PICK id : id = identify(Default(setup.user, j), j)
    OBVIOUS
  <2>2. id = [user |-> <<"unknown", j>>, anonymous |-> FALSE]
    BY <1>3, <2>1, MadeUpName, Zenon
  <2> QED
    BY <1>5, <2>1, <2>2
<1> QED
  BY <1>1, <1>2, <1>4, <1>5, LocksFrom, Zenon

(* The name that took a lock from this shell is presented again, unless it  *)
(* was made up.                                                             *)
LEMMA OwnerReturns ==
  ASSUME RequestIInv, MadeUp
  PROVE  LockReleasable
<1>1. SUFFICES ASSUME NEW d \in DOMAIN locks, locks[d].mine, NEW i, i = Len(calls) + 1,
                      NEW id, id = identify(Default(setup.user, i), i)
               PROVE  ~id.anonymous /\ (locks[d].owner = id.user <=> setup.user # "unset")
  BY DEF LockReleasable
<1>2. CASE setup.user # "unset"
  <2>1. setup.user # "" /\ locks[d].owner = <<setup.user, 0>>
    BY <1>1, <1>2 DEF RequestIInv, LocksOK, LockOK
  <2>2. Default(setup.user, i) = <<setup.user, 0>> /\ <<setup.user, 0>> # <<"", 0>>
    BY <1>2, <2>1 DEF Default
  <2>3. id = [user |-> <<setup.user, 0>>, anonymous |-> FALSE]
    BY <1>1, <2>2, Zenon DEF identify
  <2>4. id.anonymous = FALSE /\ id.user = <<setup.user, 0>>
    BY <2>3
  <2> QED
    BY <1>2, <2>1, <2>4, Zenon
<1>3. CASE setup.user = "unset"
  <2>1. id = [user |-> <<"unknown", i>>, anonymous |-> FALSE]
    BY <1>1, <1>3, MadeUpName, Zenon
  <2>2. id.anonymous = FALSE /\ id.user = <<"unknown", i>>
    BY <2>1
  <2>3. PICK j \in DOMAIN calls : locks[d].owner = <<"unknown", j>>
    BY <1>1, <1>3, Zenon DEF MadeUp
  <2>4. j # i
    <3>1. calls \in Seq(Range(calls))
      BY DEF RequestIInv, CallsOK
    <3>2. Len(calls) \in Nat /\ DOMAIN calls = 1..Len(calls)
      BY <3>1
    <3> QED
      BY <1>1, <3>2
  <2>5. <<"unknown", j>> # <<"unknown", i>>
    BY <2>4
  <2> QED
    BY <1>3, <2>2, <2>3, <2>5, Zenon
<1> QED
  BY <1>2, <1>3

(* A lock is the one that was asked for, down to a second, below which it is *)
(* the agent's default; and the shell that took it can end it exactly if it *)
(* has a USER (parseLockDuration and lockRPC to the Lock handler, auth and  *)
(* requireNamed).                                                           *)
THEOREM LockAsAskedAlways == RequestSpec => []LockAsAsked
<1>1. RequestInit => MadeUp
  <2>1. SUFFICES ASSUME RequestInit PROVE MadeUp
    OBVIOUS
  <2>2. locks = <<>>
    BY <2>1 DEF RequestInit
  <2>3. DOMAIN locks = {}
    BY <2>2
  <2> QED
    BY <2>3, Zenon DEF MadeUp
<1>2. RequestIInv /\ MadeUp /\ [RequestNext]_vars => MadeUp'
  BY MadeUpKeeps
<1>3. RequestIInv /\ MadeUp => LockAsAsked
  BY AskedIsGranted, OwnerReturns DEF LockAsAsked
<1> QED
  BY <1>1, <1>2, <1>3, RequestInvariant, PTL DEF RequestSpec

(* Every warning is told once, before the error, and only if it is true.    *)
LEMMA WarningsAreTold ==
  ASSUME RequestIInv
  PROVE  WarningsTold
<1> USE DEF RequestIInv
<1>1. SUFFICES ASSUME pc = "exited" PROVE WarningsTold
  BY DEF WarningsTold
<1>2. PICK w \in Warnings, e \in Endings :
        stderr = w \o e /\ (setup.mode = "none" => w = <<>>)
  BY <1>1 DEF WarnOK
<1>3. buf = <<>>
  BY <1>1 DEF WarnOK
<1>4. \A x : ~Says(buf, x)
  BY <1>3 DEF Says
<1>5. \A x : Told(x) <=> Says(stderr, x)
  BY DEF Told, Says
<1>6. AtMostOnce("drift") /\ AtMostOnce("long")
  BY <1>2, SaidAtExit DEF AtMostOnce
<1>7. \A k \in 1..(Len(stderr) - 1) :
        stderr[k] \in {"error", "interrupted"} => stderr[k + 1] = "usage"
  BY <1>2, SaidAtExit
<1>8. \A x \in {"drift", "long"} : Told(x) => setup.mode # "none"
  <2>1. \A x \in {"drift", "long"} : Says(stderr, x) => Says(w, x)
    BY <1>2, SaidAtExit
  <2>2. \A x : ~Says(<<>>, x)
    BY DEF Says
  <2> QED
    BY <1>2, <1>5, <2>1, <2>2, Zenon
<1>9. /\ Told("drift") => drifts(setup.client, setup.agent)
      /\ last.req.rpc = "lock" /\ 2 * last.req.seconds > LongLock /\ setup.mode # "none" =>
           Told("long")
      /\ err = "" /\ last.status = "answered" /\ Heard(last) /\ setup.mode # "none"
           /\ drifts(setup.client, setup.agent) => Told("drift")
  BY <1>1, <1>4, <1>5 DEF WarnOK
<1>10. code = 0 => err = ""
  BY <1>1 DEF ClientOK
<1> QED
  BY <1>3, <1>6, <1>7, <1>8, <1>9, <1>10, Zenon DEF WarningsTold, Heard, last

(* What dutctl prints and exits with is true (exit, the summary of          *)
(* warnings, asInterrupt).                                                  *)
THEOREM RequestCorrect == RequestSpec => []RequestInv
<1>1. ASSUME RequestIInv PROVE RequestInv
  <2> USE <1>1 DEF RequestIInv
  <2>1. RequestTypeOK
    BY DEF RequestTypeOK, ClientOK, ClientTypes, CallsOK, CallOK, LocksOK, LockOK, WarnOK
  <2>2. ExitTrue
    BY Zenon DEF ExitTrue, ClientOK, last
  <2>3. WarningsTold
    BY WarningsAreTold
  <2> QED
    BY <2>1, <2>2, <2>3 DEF RequestInv
<1> QED
  BY <1>1, RequestInvariant, PTL

-----------------------------------------------------------------------------
(* Numbers and places in sequences.                                         *)

(* A set of numbers that is not empty has a least one.                      *)
LEMMA LeastOf ==
  ASSUME NEW T, T \subseteq Nat, T # {}
  PROVE  \E x \in T : \A y \in T : x <= y
<1>1. PICK x \in T : \A y \in T : ~(<<y, x>> \in OpToRel(<, Nat))
  BY WFMin, NatLessThanWellFounded
<1>2. \A y \in T : ~(y < x)
  BY <1>1 DEF OpToRel
<1>3. \A y \in T : x <= y
  BY <1>2
<1> QED
  BY <1>3, Zenon

(* A set that holds 0 and with each number the next one holds them all.     *)
LEMMA LadderOf ==
  ASSUME NEW S, 0 \in S, \A n \in Nat : n \in S => n + 1 \in S
  PROVE  Nat \subseteq S
<1> DEFINE T == Nat \ S
<1>1. SUFFICES ASSUME T # {} PROVE FALSE
  OBVIOUS
<1>2. PICK x \in T : \A y \in T : x <= y
  BY <1>1, LeastOf
<1>3. x # 0 /\ x \in Nat
  BY <1>2
<1>4. x - 1 \in Nat /\ x - 1 \notin T
  BY <1>2, <1>3
<1> QED
  BY <1>2, <1>3, <1>4

(* The least number of a set, and the greatest of a set of places.          *)
LEMMA MinOf ==
  ASSUME NEW T, T \subseteq Nat, T # {}
  PROVE  Min(T) \in T /\ \A y \in T : Min(T) <= y
  BY LeastOf DEF Min

LEMMA MaxOf ==
  ASSUME NEW n \in Nat, NEW T, T \subseteq 1..n, T # {}
  PROVE  Max(T) \in T /\ \A y \in T : Max(T) >= y
<1> DEFINE U == {z \in Nat : \A y \in T : y <= z}
<1>1. n \in U
  OBVIOUS
<1>2. PICK b \in U : \A z \in U : b <= z
  BY <1>1, LeastOf
<1>3. b \in T
  <2>1. SUFFICES ASSUME b \notin T PROVE FALSE
    OBVIOUS
  <2>2. PICK t \in T : TRUE
    OBVIOUS
  <2>3. b - 1 \in Nat /\ \A y \in T : y <= b - 1
    BY <1>2, <2>1, <2>2
  <2>4. b - 1 \in U
    BY <2>3
  <2> QED
    BY <1>2, <2>4
<1>4. \A y \in T : b >= y
  BY <1>2
<1>5. \E x \in T : \A y \in T : x >= y
  BY <1>3, <1>4
<1> QED
  BY <1>5, Zenon DEF Max

(* A sequence has a length, and its places are counted from 1.              *)
LEMMA SeqShape ==
  ASSUME NEW S, NEW s \in Seq(S)
  PROVE  Len(s) \in Nat /\ DOMAIN s = 1..Len(s) /\ \A k \in 1..Len(s) : s[k] \in S
  OBVIOUS

(* A sequence of length 0 is the empty one.                                 *)
LEMMA EmptySeq ==
  ASSUME NEW S, NEW s \in Seq(S), Len(s) = 0
  PROVE  s = <<>> /\ \A R : s \in Seq(R)
  OBVIOUS

(* FirstFault finds the first error, 0 if there is none.                    *)
LEMMA FirstFaultFinds ==
  ASSUME NEW n \in Nat, NEW f, Len(f) = n
  PROVE  \/ FirstFault(f) = 0 /\ \A k \in 1..n : f[k] = ""
         \/ /\ FirstFault(f) \in 1..n /\ f[FirstFault(f)] # ""
            /\ \A k \in 1..n : k < FirstFault(f) => f[k] = ""
<1> DEFINE I == {i \in 1..n : f[i] # ""}
<1>1. FirstFault(f) = IF I # {} THEN Min(I) ELSE 0
  BY DEF FirstFault, SelectInSeq
<1>a. I \subseteq Nat
  <2>1. I \subseteq 1..n
    BY Zenon
  <2>2. 1..n \subseteq Nat
    OBVIOUS
  <2> QED
    BY <2>1, <2>2, Zenon
<1>c. \A i \in 1..n : i \notin I => f[i] = ""
  BY Zenon
<1>b. \A i \in I : i \in 1..n /\ f[i] # ""
  OBVIOUS
<1> HIDE DEF I
<1>2. I # {} => Min(I) \in I /\ \A y \in I : Min(I) <= y
  BY <1>a, MinOf
<1>3. CASE I = {}
  BY <1>1, <1>3, <1>c
<1>4. CASE I # {}
  <2>1. FirstFault(f) \in I /\ \A y \in I : FirstFault(f) <= y
    BY <1>1, <1>2, <1>4
  <2>2. PICK b \in 1..n : b = FirstFault(f)
    BY <2>1, <1>b
  <2>3. \A k \in 1..n : k < b => k \notin I
    BY <2>1, <2>2
  <2> QED
    BY <2>1, <2>2, <2>3, <1>c, <1>b
<1> QED
  BY <1>3, <1>4

-----------------------------------------------------------------------------
(* Loading a configuration.                                                 *)

(* The error of one device, and of one command of a mapping, on its own.    *)
EntryError(e) == IF IsReservedDeviceName(e.name) THEN "reserved" ELSE deviceError(e.value).err
CommandError(e) == IF IsReservedCommandName(e.name) THEN "reserved" ELSE commandError(e.value)

(* The devices of a document without an error.                              *)
Devices(es) ==
  [n \in DOMAIN LastWins(es) |-> LastWins(LastWins(es)[n].cmds.entries)]

(* The first of the devices that has an error.                              *)
LEMMA FirstEntryFault ==
  ASSUME NEW S, NEW es \in Seq(S), NEW errors, errors = [k \in DOMAIN es |-> EntryError(es[k])]
  PROVE  \/ FirstFault(errors) = 0 /\ \A k \in 1..Len(es) : EntryError(es[k]) = ""
         \/ \E b \in 1..Len(es) :
              /\ b = FirstFault(errors) /\ b # 0
              /\ errors[b] = EntryError(es[b]) /\ EntryError(es[b]) # ""
              /\ \A k \in 1..Len(es) : k < b => EntryError(es[k]) = ""
<1>1. PICK n \in Nat : n = Len(es) /\ DOMAIN es = 1..n
  OBVIOUS
<1>2. Len(errors) = n /\ \A k \in 1..n : errors[k] = EntryError(es[k])
  BY <1>1
<1>3. \/ FirstFault(errors) = 0 /\ \A k \in 1..n : errors[k] = ""
      \/ /\ FirstFault(errors) \in 1..n /\ errors[FirstFault(errors)] # ""
         /\ \A k \in 1..n : k < FirstFault(errors) => errors[k] = ""
  BY <1>2, FirstFaultFinds
<1>4. CASE FirstFault(errors) = 0
  <2>1. 0 \notin 1..n
    OBVIOUS
  <2>2. \A k \in 1..n : errors[k] = ""
    BY <1>3, <1>4, <2>1, Zenon
  <2> QED
    BY <1>1, <1>2, <1>4, <2>2, Zenon
<1>5. CASE FirstFault(errors) # 0
  <2>1. PICK b \in 1..n : b = FirstFault(errors)
    BY <1>3, <1>5
  <2>2. b # 0 /\ errors[b] # "" /\ \A k \in 1..n : k < b => errors[k] = ""
    BY <1>3, <1>5, <2>1
  <2>3. errors[b] = EntryError(es[b]) /\ EntryError(es[b]) # ""
    BY <1>2, <2>2
  <2>4. \A k \in 1..n : k < b => EntryError(es[k]) = ""
    BY <1>2, <2>2
  <2> QED
    BY <1>1, <2>1, <2>2, <2>3, <2>4, Zenon
<1> QED
  BY <1>4, <1>5

(* A document loads, or is refused for the first device that has an error.  *)
LEMMA LoadAccepts ==
  ASSUME NEW S, NEW doc, ~doc.null, doc.entries \in Seq(S), doc.entries # <<>>,
         \A k \in 1..Len(doc.entries) : EntryError(doc.entries[k]) = ""
  PROVE  UnmarshalYAML(doc) = Loaded(Devices(doc.entries))
<1>1. PICK errors : errors = [k \in DOMAIN doc.entries |-> EntryError(doc.entries[k])]
  OBVIOUS
<1>2. FirstFault(errors) = 0
  BY <1>1, FirstEntryFault, Zenon
<1>3. errors = [k \in DOMAIN doc.entries |->
                  IF IsReservedDeviceName(doc.entries[k].name) THEN "reserved"
                  ELSE deviceError(doc.entries[k].value).err]
  BY <1>1, Zenon DEF EntryError
<1>4. ~(~doc.null /\ FirstFault(errors) # 0)
  BY <1>2, Zenon
<1> QED
  BY <1>3, <1>4, Zenon DEF UnmarshalYAML, Devices

(* What the refusal says.                                                   *)
Refusal(e) ==
  ConfigError(e.name, IF IsReservedDeviceName(e.name) THEN "" ELSE deviceError(e.value).command,
              EntryError(e))

(* A load that meets a fault is refused for its first one.                  *)
LEMMA LoadRefuses ==
  ASSUME NEW S, NEW doc, ~doc.null, doc.entries \in Seq(S), doc.entries # <<>>,
         ~\A k \in 1..Len(doc.entries) : EntryError(doc.entries[k]) = ""
  PROVE  \E b \in 1..Len(doc.entries) :
           /\ EntryError(doc.entries[b]) # ""
           /\ \A k \in 1..Len(doc.entries) : k < b => EntryError(doc.entries[k]) = ""
           /\ UnmarshalYAML(doc) = Refusal(doc.entries[b])
<1>1. PICK errors : errors = [k \in DOMAIN doc.entries |-> EntryError(doc.entries[k])]
  OBVIOUS
<1>2. PICK b \in 1..Len(doc.entries) :
        /\ b = FirstFault(errors) /\ b # 0
        /\ errors[b] = EntryError(doc.entries[b]) /\ EntryError(doc.entries[b]) # ""
        /\ \A k \in 1..Len(doc.entries) : k < b => EntryError(doc.entries[k]) = ""
  BY <1>1, FirstEntryFault, Zenon
<1>3. errors = [k \in DOMAIN doc.entries |->
                  IF IsReservedDeviceName(doc.entries[k].name) THEN "reserved"
                  ELSE deviceError(doc.entries[k].value).err]
  BY <1>1, Zenon DEF EntryError
<1>4. ~doc.null /\ FirstFault(errors) # 0
  BY <1>2, Zenon
<1>5. UnmarshalYAML(doc) =
        ConfigError(doc.entries[b].name,
                    IF IsReservedDeviceName(doc.entries[b].name) THEN ""
                    ELSE deviceError(doc.entries[b].value).command,
                    errors[b])
  BY <1>2, <1>3, <1>4, Zenon DEF UnmarshalYAML
<1>6. UnmarshalYAML(doc) = Refusal(doc.entries[b])
  BY <1>2, <1>5, Zenon DEF Refusal
<1> QED
  BY <1>2, <1>6, Zenon

(* An empty list of devices.                                                *)
LEMMA EmptyRefused ==
  ASSUME NEW doc, ~doc.null, doc.entries = <<>>
  PROVE  UnmarshalYAML(doc) = ConfigError("", "", "empty devices")
<1>1. PICK errors : errors = [k \in DOMAIN doc.entries |-> EntryError(doc.entries[k])]
  OBVIOUS
<1>2. doc.entries \in Seq({}) /\ 1..Len(doc.entries) = {}
  OBVIOUS
<1>3. FirstFault(errors) = 0
  BY <1>1, <1>2, FirstEntryFault, Zenon
<1>4. errors = [k \in DOMAIN doc.entries |->
                  IF IsReservedDeviceName(doc.entries[k].name) THEN "reserved"
                  ELSE deviceError(doc.entries[k].value).err]
  BY <1>1, Zenon DEF EntryError
<1>5. ~(~doc.null /\ FirstFault(errors) # 0)
  BY <1>3, Zenon
<1> QED
  BY <1>4, <1>5, Zenon DEF UnmarshalYAML

(* Whether it loads.                                                        *)
LEMMA LoadOutcome ==
  ASSUME NEW S, NEW doc, ~doc.null, doc.entries \in Seq(S), doc.entries # <<>>
  PROVE  UnmarshalYAML(doc).ok <=> \A k \in 1..Len(doc.entries) : EntryError(doc.entries[k]) = ""
<1>1. CASE \A k \in 1..Len(doc.entries) : EntryError(doc.entries[k]) = ""
  <2>1. UnmarshalYAML(doc) = Loaded(Devices(doc.entries))
    BY <1>1, LoadAccepts
  <2>a. \A d : Loaded(d).ok = TRUE
    BY DEF Loaded
  <2>2. UnmarshalYAML(doc).ok = TRUE
    BY <2>1, <2>a, Zenon
  <2> QED
    BY <1>1, <2>2
<1>2. CASE ~\A k \in 1..Len(doc.entries) : EntryError(doc.entries[k]) = ""
  <2>1. \E d, c, e : UnmarshalYAML(doc) = ConfigError(d, c, e)
    BY <1>2, LoadRefuses, Zenon DEF Refusal
  <2>a. \A d, c, e : ConfigError(d, c, e).ok = FALSE
    BY DEF ConfigError
  <2>2. UnmarshalYAML(doc).ok = FALSE
    BY <2>1, <2>a, Zenon
  <2> QED
    BY <1>2, <2>2
<1> QED
  BY <1>1, <1>2

(* The first of the commands that has an error.                             *)
LEMMA FirstCommandFault ==
  ASSUME NEW S, NEW es \in Seq(S), NEW errors, errors = [k \in DOMAIN es |-> CommandError(es[k])]
  PROVE  \/ FirstFault(errors) = 0 /\ \A k \in 1..Len(es) : CommandError(es[k]) = ""
         \/ \E b \in 1..Len(es) :
              /\ b = FirstFault(errors) /\ b # 0
              /\ errors[b] = CommandError(es[b]) /\ CommandError(es[b]) # ""
              /\ \A k \in 1..Len(es) : k < b => CommandError(es[k]) = ""
<1>1. PICK n \in Nat : n = Len(es) /\ DOMAIN es = 1..n
  OBVIOUS
<1>2. Len(errors) = n /\ \A k \in 1..n : errors[k] = CommandError(es[k])
  BY <1>1
<1>3. \/ FirstFault(errors) = 0 /\ \A k \in 1..n : errors[k] = ""
      \/ /\ FirstFault(errors) \in 1..n /\ errors[FirstFault(errors)] # ""
         /\ \A k \in 1..n : k < FirstFault(errors) => errors[k] = ""
  BY <1>2, FirstFaultFinds
<1>4. CASE FirstFault(errors) = 0
  <2>1. 0 \notin 1..n
    OBVIOUS
  <2>2. \A k \in 1..n : errors[k] = ""
    BY <1>3, <1>4, <2>1, Zenon
  <2> QED
    BY <1>1, <1>2, <1>4, <2>2, Zenon
<1>5. CASE FirstFault(errors) # 0
  <2>1. PICK b \in 1..n : b = FirstFault(errors)
    BY <1>3, <1>5
  <2>2. b # 0 /\ errors[b] # "" /\ \A k \in 1..n : k < b => errors[k] = ""
    BY <1>3, <1>5, <2>1
  <2>3. errors[b] = CommandError(es[b]) /\ CommandError(es[b]) # ""
    BY <1>2, <2>2
  <2>4. \A k \in 1..n : k < b => CommandError(es[k]) = ""
    BY <1>2, <2>2
  <2> QED
    BY <1>1, <2>1, <2>2, <2>3, <2>4, Zenon
<1> QED
  BY <1>4, <1>5

(* The fields of an error of decodeCmds.                                    *)
LEMMA ErrorFields ==
  ASSUME NEW c, NEW x, NEW r, r = [command |-> c, err |-> x]
  PROVE  r.command = c /\ r.err = x
  OBVIOUS

(* A mapping of commands decodes, or its first command with an error is     *)
(* named.                                                                   *)
LEMMA MappingDecodes ==
  ASSUME NEW S, NEW cmds, cmds.shape = "mapping", cmds.entries \in Seq(S), cmds.entries # <<>>
  PROVE  \/ /\ \A k \in 1..Len(cmds.entries) : CommandError(cmds.entries[k]) = ""
            /\ decodeCmds(cmds).err = ""
         \/ \E b \in 1..Len(cmds.entries) :
              /\ CommandError(cmds.entries[b]) # ""
              /\ \A k \in 1..Len(cmds.entries) : k < b => CommandError(cmds.entries[k]) = ""
              /\ decodeCmds(cmds).command = cmds.entries[b].name
              /\ decodeCmds(cmds).err = CommandError(cmds.entries[b])
<1>1. PICK errors : errors = [k \in DOMAIN cmds.entries |-> CommandError(cmds.entries[k])]
  OBVIOUS
<1>2. PICK values : values = [k \in DOMAIN cmds.entries |-> commandError(cmds.entries[k].value)]
  OBVIOUS
<1>3. errors = [k \in DOMAIN cmds.entries |->
                  IF IsReservedCommandName(cmds.entries[k].name) THEN "reserved" ELSE values[k]]
  BY <1>1, <1>2 DEF CommandError
<1>4. "mapping" # "null" /\ "mapping" # "alias"
  OBVIOUS
<1>5. CASE FirstFault(errors) = 0
  <2>1. \A k \in 1..Len(cmds.entries) : CommandError(cmds.entries[k]) = ""
    BY <1>1, <1>5, FirstCommandFault, Zenon
  <2>2. decodeCmds(cmds) = [command |-> "", err |-> ""]
    BY <1>2, <1>3, <1>4, <1>5, Zenon DEF decodeCmds
  <2>3. decodeCmds(cmds).err = ""
    BY <2>2, ErrorFields, Zenon
  <2> QED
    BY <2>1, <2>3, Zenon
<1>6. CASE FirstFault(errors) # 0
  <2>1. PICK b \in 1..Len(cmds.entries) :
          /\ b = FirstFault(errors) /\ b # 0
          /\ errors[b] = CommandError(cmds.entries[b]) /\ CommandError(cmds.entries[b]) # ""
          /\ \A k \in 1..Len(cmds.entries) : k < b => CommandError(cmds.entries[k]) = ""
    BY <1>1, <1>6, FirstCommandFault, Zenon
  <2>2. decodeCmds(cmds) = [command |-> cmds.entries[b].name, err |-> errors[b]]
    BY <1>2, <1>3, <1>4, <1>6, <2>1, Zenon DEF decodeCmds
  <2>a. PICK n, x : n = cmds.entries[b].name /\ x = errors[b]
    OBVIOUS
  <2>b. decodeCmds(cmds).command = n /\ decodeCmds(cmds).err = x
    BY <2>2, <2>a, ErrorFields
  <2>3. decodeCmds(cmds).command = cmds.entries[b].name /\ decodeCmds(cmds).err = errors[b]
    BY <2>a, <2>b, Zenon
  <2> QED
    BY <2>1, <2>3, Zenon
<1> QED
  BY <1>5, <1>6

(* An empty mapping.                                                        *)
LEMMA EmptyDecodes ==
  ASSUME NEW cmds, cmds.shape = "mapping", cmds.entries = <<>>
  PROVE  decodeCmds(cmds).command = "" /\ decodeCmds(cmds).err = "no commands"
<1>1. PICK errors : errors = [k \in DOMAIN cmds.entries |-> CommandError(cmds.entries[k])]
  OBVIOUS
<1>2. PICK values : values = [k \in DOMAIN cmds.entries |-> commandError(cmds.entries[k].value)]
  OBVIOUS
<1>3. errors = [k \in DOMAIN cmds.entries |->
                  IF IsReservedCommandName(cmds.entries[k].name) THEN "reserved" ELSE values[k]]
  BY <1>1, <1>2 DEF CommandError
<1>4. "mapping" # "null" /\ "mapping" # "alias"
  OBVIOUS
<1>5. cmds.entries \in Seq({}) /\ 1..Len(cmds.entries) = {}
  OBVIOUS
<1>6. FirstFault(errors) = 0
  BY <1>1, <1>5, FirstCommandFault, Zenon
<1>7. decodeCmds(cmds) = [[command |-> "", err |-> ""] EXCEPT !.err = "no commands"]
  BY <1>2, <1>3, <1>4, <1>6, Zenon DEF decodeCmds
<1> QED
  BY <1>7

(* An alias names no command; it decodes only if all its commands do.       *)
LEMMA AliasDecodes ==
  ASSUME NEW S, NEW cmds, cmds.shape = "alias", cmds.entries \in Seq(S)
  PROVE  /\ decodeCmds(cmds).command = ""
         /\ decodeCmds(cmds).err = "" =>
              \A k \in 1..Len(cmds.entries) : commandError(cmds.entries[k].value) = ""
<1>1. PICK values : values = [k \in DOMAIN cmds.entries |-> commandError(cmds.entries[k].value)]
  OBVIOUS
<1>2. PICK repeats \in BOOLEAN :
        repeats = \E j, k \in DOMAIN cmds.entries : j < k /\ cmds.entries[j].name = cmds.entries[k].name
  OBVIOUS
<1>3. "alias" # "null" /\ "alias" # "mapping" /\ "malformed" # ""
  OBVIOUS
<1>4. CASE repeats
  <2>1. decodeCmds(cmds) = [[command |-> "", err |-> ""] EXCEPT !.err = "malformed"]
    BY <1>2, <1>3, <1>4, Zenon DEF decodeCmds
  <2> QED
    BY <2>1
<1>5. CASE ~repeats /\ FirstFault(values) # 0
  <2>1. decodeCmds(cmds) = [[command |-> "", err |-> ""] EXCEPT !.err = values[FirstFault(values)]]
    BY <1>1, <1>2, <1>3, <1>5, Zenon DEF decodeCmds
  <2>2. PICK n \in Nat : n = Len(cmds.entries) /\ DOMAIN cmds.entries = 1..n
    BY Zenon, SeqShape
  <2>3. Len(values) = n
    BY <1>1, <2>2
  <2>4. values[FirstFault(values)] # ""
    BY <1>5, <2>2, <2>3, FirstFaultFinds
  <2> QED
    BY <2>1, <2>4
<1>6. CASE ~repeats /\ FirstFault(values) = 0
  <2>1. decodeCmds(cmds) = [command |-> "", err |-> ""]
    BY <1>1, <1>2, <1>3, <1>6, Zenon DEF decodeCmds
  <2>2. PICK n \in Nat : n = Len(cmds.entries) /\ DOMAIN cmds.entries = 1..n
    BY Zenon, SeqShape
  <2>3. Len(values) = n /\ \A k \in 1..n : values[k] = commandError(cmds.entries[k].value)
    BY <1>1, <2>2
  <2>4. 0 \notin 1..n
    BY <2>2
  <2>5. \A k \in 1..n : values[k] = ""
    BY <1>6, <2>2, <2>3, <2>4, FirstFaultFinds, Zenon
  <2>6. \A k \in 1..Len(cmds.entries) : commandError(cmds.entries[k].value) = ""
    BY <2>2, <2>3, <2>5, Zenon
  <2>a. \A c, x : [command |-> c, err |-> x].command = c
    OBVIOUS
  <2>7. decodeCmds(cmds).command = ""
    BY <2>1, <2>a, Zenon
  <2> QED
    BY <2>6, <2>7, Zenon
<1> QED
  BY <1>2, <1>4, <1>5, <1>6, Zenon

(* Entries of the mappings of a document.                                   *)
CommandEntry == [name : STRING, value : CommandNode]
DeviceEntry == [name : STRING, value : DeviceNode]

(* The parts of a document are what yaml.v3 makes them.                     *)
LEMMA DeviceShape ==
  ASSUME NEW dev \in DeviceNode
  PROVE  /\ dev.null \in BOOLEAN /\ dev.cmds.shape \in {"null", "mapping", "alias"}
         /\ dev.cmds.entries \in Seq(CommandEntry)
         /\ dev.null => dev.cmds.shape = "null"
         /\ dev.cmds.shape = "null" => dev.cmds.entries = <<>>
         /\ DOMAIN dev = {"null", "cmds"} /\ DOMAIN dev.cmds = {"shape", "entries"}
<1>1. dev \in [null : BOOLEAN, cmds : CmdsNode] /\ (dev.null => dev.cmds.shape = "null")
  BY Zenon DEF DeviceNode
<1>2. dev.null \in BOOLEAN /\ dev.cmds \in CmdsNode /\ DOMAIN dev = {"null", "cmds"}
  BY <1>1
<1>3. PICK c : c = dev.cmds
  OBVIOUS
<1>4. /\ c \in [shape : {"null", "mapping", "alias"}, entries : Seq(CommandEntry)]
      /\ c.shape = "null" => c.entries = <<>>
  BY <1>2, <1>3, Zenon DEF CmdsNode, CommandEntry
<1>5. c.shape \in {"null", "mapping", "alias"} /\ c.entries \in Seq(CommandEntry) /\ DOMAIN c = {"shape", "entries"}
  BY <1>4
<1> QED
  BY <1>1, <1>2, <1>3, <1>4, <1>5, Zenon

(* A device that is accepted has commands, all without an error, and none   *)
(* is reserved unless they are behind an alias.                             *)
LEMMA DeviceAccepted ==
  ASSUME NEW dev \in DeviceNode, deviceError(dev).err = ""
  PROVE  /\ \A k \in 1..Len(dev.cmds.entries) : commandError(dev.cmds.entries[k].value) = ""
         /\ dev.cmds.shape # "alias" =>
              \A k \in 1..Len(dev.cmds.entries) : ~IsReservedCommandName(dev.cmds.entries[k].name)
<1>1. PICK e : e = decodeCmds(dev.cmds)
  OBVIOUS
<1>2. ~(dev.null \/ (e.err = "" /\ dev.cmds.entries = <<>>)) /\ e.err = ""
  <2>1. [command |-> "", err |-> "no commands"].err # ""
    OBVIOUS
  <2>2. ~(dev.null \/ (e.err = "" /\ dev.cmds.entries = <<>>))
    BY <1>1, <2>1, Zenon DEF deviceError
  <2>3. deviceError(dev) = e
    BY <1>1, <2>2, Zenon DEF deviceError
  <2> QED
    BY <2>2, <2>3, Zenon
<1>3. /\ dev.cmds.entries # <<>> /\ dev.cmds.entries \in Seq(CommandEntry)
      /\ dev.cmds.shape \in {"mapping", "alias"}
  BY <1>2, DeviceShape, Zenon
<1>4. CASE dev.cmds.shape = "alias"
  BY <1>1, <1>2, <1>3, <1>4, AliasDecodes, Zenon
<1>5. CASE dev.cmds.shape = "mapping"
  <2>1. \A k \in 1..Len(dev.cmds.entries) : CommandError(dev.cmds.entries[k]) = ""
    BY <1>1, <1>2, <1>3, <1>5, MappingDecodes, Zenon
  <2>2. "reserved" # ""
    OBVIOUS
  <2> QED
    BY <2>1, <2>2, Zenon DEF CommandError
<1> QED
  BY <1>3, <1>4, <1>5, Zenon

(* A mapping of commands, as the value of a device.                         *)
LEMMA MappingAccepted ==
  ASSUME NEW S, NEW dev, ~dev.null, dev.cmds.shape = "mapping",
         dev.cmds.entries \in Seq(S), dev.cmds.entries # <<>>
  PROVE  deviceError(dev).err = "" <=>
           \A k \in 1..Len(dev.cmds.entries) : CommandError(dev.cmds.entries[k]) = ""
<1>1. deviceError(dev) = decodeCmds(dev.cmds)
  BY Zenon DEF deviceError
<1>2. \/ /\ \A k \in 1..Len(dev.cmds.entries) : CommandError(dev.cmds.entries[k]) = ""
         /\ deviceError(dev).err = ""
      \/ \E b \in 1..Len(dev.cmds.entries) :
           /\ CommandError(dev.cmds.entries[b]) # ""
           /\ deviceError(dev).err = CommandError(dev.cmds.entries[b])
  <2>1. PICK cmds : cmds = dev.cmds
    OBVIOUS
  <2>2. \/ /\ \A k \in 1..Len(cmds.entries) : CommandError(cmds.entries[k]) = ""
           /\ decodeCmds(cmds).err = ""
        \/ \E b \in 1..Len(cmds.entries) :
             /\ CommandError(cmds.entries[b]) # ""
             /\ \A k \in 1..Len(cmds.entries) : k < b => CommandError(cmds.entries[k]) = ""
             /\ decodeCmds(cmds).command = cmds.entries[b].name
             /\ decodeCmds(cmds).err = CommandError(cmds.entries[b])
    <3>1. cmds.shape = "mapping" /\ cmds.entries \in Seq(S) /\ cmds.entries # <<>>
      BY <2>1, Zenon
    <3> QED
      BY <3>1, MappingDecodes, Zenon
  <2> QED
    BY <1>1, <2>1, <2>2, Zenon
<1> QED
  BY <1>2, Zenon

(* A device that is refused: it has no commands, or the first command that  *)
(* has an error is named, or its commands are behind an alias.              *)
LEMMA DeviceRefused ==
  ASSUME NEW dev \in DeviceNode, deviceError(dev).err # ""
  PROVE  \/ /\ deviceError(dev).command = ""
            /\ deviceError(dev).err = "no commands" \/ dev.cmds.shape = "alias"
         \/ /\ ~dev.null /\ dev.cmds.shape = "mapping"
            /\ \E b \in 1..Len(dev.cmds.entries) :
                 /\ deviceError(dev).command = dev.cmds.entries[b].name
                 /\ CommandError(dev.cmds.entries[b]) # ""
                 /\ \A k \in 1..Len(dev.cmds.entries) : k < b => CommandError(dev.cmds.entries[k]) = ""
<1>1. PICK e : e = decodeCmds(dev.cmds)
  OBVIOUS
<1>2. \A c, x : [command |-> c, err |-> x].err = x /\ [command |-> c, err |-> x].command = c
  OBVIOUS
<1>3. CASE dev.null \/ (e.err = "" /\ dev.cmds.entries = <<>>)
  <2>1. deviceError(dev) = [command |-> "", err |-> "no commands"]
    BY <1>1, <1>3, Zenon DEF deviceError
  <2> QED
    BY <1>2, <2>1, Zenon
<1>4. CASE ~(dev.null \/ (e.err = "" /\ dev.cmds.entries = <<>>))
  <2>1. deviceError(dev) = e
    BY <1>1, <1>4, Zenon DEF deviceError
  <2>2. dev.cmds.entries \in Seq(CommandEntry) /\ dev.cmds.shape \in {"null", "mapping", "alias"}
    BY DeviceShape, Zenon
  <2>3. CASE dev.cmds.shape = "null"
    <3>1. e = [command |-> "", err |-> ""]
      BY <1>1, <2>3, Zenon DEF decodeCmds
    <3>2. e.err = ""
      BY <1>2, <3>1, Zenon
    <3> QED
      BY <2>1, <3>2, Zenon
  <2>4. CASE dev.cmds.shape = "alias"
    BY <1>1, <2>1, <2>2, <2>4, AliasDecodes, Zenon
  <2>5. CASE dev.cmds.shape = "mapping" /\ dev.cmds.entries = <<>>
    <3>1. e.command = "" /\ e.err = "no commands"
      BY <1>1, <2>5, EmptyDecodes, Zenon
    <3> QED
      BY <2>1, <3>1, Zenon
  <2>6. CASE dev.cmds.shape = "mapping" /\ dev.cmds.entries # <<>>
    <3>1. PICK b \in 1..Len(dev.cmds.entries) :
              /\ CommandError(dev.cmds.entries[b]) # ""
              /\ \A k \in 1..Len(dev.cmds.entries) : k < b => CommandError(dev.cmds.entries[k]) = ""
              /\ e.command = dev.cmds.entries[b].name
      <4>1. decodeCmds(dev.cmds).err # ""
        BY <1>1, <2>1, Zenon
      <4> QED
        BY <1>1, <2>1, <2>2, <2>6, <4>1, MappingDecodes, Zenon
    <3> QED
      BY <1>4, <2>1, <2>6, <3>1, Zenon
  <2> QED
    BY <2>2, <2>3, <2>4, <2>5, <2>6, Zenon
<1> QED
  BY <1>3, <1>4

(* A document with one device loads if that has no error.                   *)
LEMMA OnlyEntryLoads ==
  ASSUME NEW e
  PROVE  UnmarshalYAML(OnlyEntry(e)).ok <=> EntryError(e) = ""
<1>1. PICK doc : doc = OnlyEntry(e)
  OBVIOUS
<1>2. PICK es : es = <<e>> /\ doc = [null |-> FALSE, entries |-> es]
  BY <1>1 DEF OnlyEntry
<1>3. es \in Seq({e}) /\ es # <<>> /\ 1..Len(es) = {1} /\ es[1] = e
  BY <1>2
<1>4. ~doc.null /\ doc.entries = es
  BY <1>2
<1>5. UnmarshalYAML(doc).ok <=> \A k \in 1..Len(es) : EntryError(es[k]) = ""
  <2>1. /\ doc.entries \in Seq({e}) /\ doc.entries # <<>>
    BY <1>3, <1>4, Zenon
  <2>2. UnmarshalYAML(doc).ok <=> \A k \in 1..Len(doc.entries) : EntryError(doc.entries[k]) = ""
    BY <1>4, <2>1, LoadOutcome, Zenon
  <2> QED
    BY <1>4, <2>2, Zenon
<1> QED
  BY <1>1, <1>3, <1>5, Zenon

(* The beginning of a sequence.                                             *)
LEMMA PrefixOf ==
  ASSUME NEW S, NEW s \in Seq(S), NEW m \in 1..Len(s)
  PROVE  /\ SubSeq(s, 1, m) \in Seq(S) /\ SubSeq(s, 1, m) # <<>> /\ Len(SubSeq(s, 1, m)) = m
         /\ \A k \in 1..m : SubSeq(s, 1, m)[k] = s[k]
  OBVIOUS

(* The places of a prefix are places of the whole.                          *)
LEMMA PlacesBefore ==
  ASSUME NEW n \in Nat, NEW b \in 1..n, b # 1
  PROVE  \E m \in 1..n : m = b - 1 /\ \A k \in 1..m : k \in 1..n /\ k < b
  OBVIOUS

(* The part of a document before a device loads if no device in it has an   *)
(* error.                                                                   *)
LEMMA PrefixLoads ==
  ASSUME NEW S, NEW es \in Seq(S), NEW b \in 1..Len(es),
         \A k \in 1..Len(es) : k < b => EntryError(es[k]) = ""
  PROVE  LoadsBefore(es, b)
<1>1. SUFFICES ASSUME b # 1
               PROVE  UnmarshalYAML([null |-> FALSE, entries |-> SubSeq(es, 1, b - 1)]).ok
  BY DEF LoadsBefore
<1>2. PICK p : p = SubSeq(es, 1, b - 1)
  OBVIOUS
<1>a. PICK n \in Nat : n = Len(es) /\ b \in 1..n
  BY SeqShape, Zenon
<1>b. PICK m \in 1..n : m = b - 1 /\ \A k \in 1..m : k \in 1..n /\ k < b
  BY <1>1, <1>a, PlacesBefore, Zenon
<1>3. p \in Seq(S) /\ p # <<>> /\ Len(p) = m /\ \A k \in 1..m : p[k] = es[k]
  BY <1>2, <1>a, <1>b, PrefixOf
<1>4. \A k \in 1..Len(p) : EntryError(p[k]) = ""
  BY <1>3, <1>a, <1>b, Zenon
<1>5. PICK doc : doc = [null |-> FALSE, entries |-> p]
  OBVIOUS
<1>6. ~doc.null /\ doc.entries = p
  BY <1>5
<1>7. doc.entries \in Seq(S) /\ doc.entries # <<>> /\ \A k \in 1..Len(doc.entries) : EntryError(doc.entries[k]) = ""
  BY <1>3, <1>4, <1>6, Zenon
<1>8. UnmarshalYAML(doc).ok
  BY <1>6, <1>7, LoadOutcome, Zenon
<1> QED
  BY <1>2, <1>5, <1>8, Zenon

(* The device of an entry with other commands.                              *)
WithEntries(e, es) == [e EXCEPT !.value.cmds.entries = es]

(* The rest of a device stays when its commands are replaced.               *)
LEMMA WithCommands ==
  ASSUME NEW e \in DeviceEntry, NEW es
  PROVE  /\ WithEntries(e, es).name = e.name
         /\ WithEntries(e, es).value.null = e.value.null
         /\ WithEntries(e, es).value.cmds.shape = e.value.cmds.shape
         /\ WithEntries(e, es).value.cmds.entries = es
<1>0. PICK f : f = WithEntries(e, es)
  OBVIOUS
<1>1. PICK v \in DeviceNode : v = e.value
  BY DEF DeviceEntry
<1>2. PICK c : c = v.cmds /\ DOMAIN c = {"shape", "entries"}
  BY DeviceShape, Zenon
<1>3. PICK c2 : c2 = [c EXCEPT !.entries = es]
  OBVIOUS
<1>4. PICK v2 : v2 = [v EXCEPT !.cmds = c2]
  OBVIOUS
<1>5. f = [e EXCEPT !.value = v2]
  BY <1>0, <1>1, <1>2, <1>3, <1>4 DEF WithEntries
<1>6. DOMAIN e = {"name", "value"} /\ DOMAIN v = {"null", "cmds"}
  BY DeviceShape DEF DeviceEntry
<1>7. f.name = e.name /\ f.value = v2
  BY <1>5, <1>6
<1>8. v2.null = v.null /\ v2.cmds = c2
  BY <1>4, <1>6
<1>9. c2.shape = c.shape /\ c2.entries = es
  BY <1>2, <1>3
<1> QED
  BY <1>0, <1>1, <1>2, <1>7, <1>8, <1>9, Zenon

(* The agent's configuration is what the load made of the document, and     *)
(* only a load that failed ends the agent.                                  *)
LoadOK ==
  /\ pc = "load" => config = ConfigError("", "", "") /\ calls = <<>>
  /\ pc # "load" => config = UnmarshalYAML(setup.doc)
  /\ pc = "refused" => ~config.ok

(* A document is null, or has devices.                                      *)
LEMMA DocShape ==
  ASSUME NEW doc \in DocNode
  PROVE  doc.entries \in Seq(DeviceEntry) /\ (doc.null => doc.entries = <<>>)
<1>1. doc \in [null : BOOLEAN, entries : Seq(DeviceEntry)] /\ (doc.null => doc.entries = <<>>)
  BY Zenon DEF DocNode, DeviceEntry
<1> QED
  BY <1>1

(* A sequence of one.                                                       *)
LEMMA Single ==
  ASSUME NEW c
  PROVE  <<c>> \in Seq({c}) /\ <<c>> # <<>> /\ 1 \in 1..Len(<<c>>) /\ <<c>>[1] = c
  OBVIOUS

(* A mapping of commands in the place of another.                           *)
LEMMA WithLoads ==
  ASSUME NEW e \in DeviceEntry, ~IsReservedDeviceName(e.name),
         ~e.value.null, e.value.cmds.shape = "mapping",
         NEW S, NEW es \in Seq(S), es # <<>>
  PROVE  UnmarshalYAML(OnlyEntry(WithEntries(e, es))).ok <=>
           \A k \in 1..Len(es) : CommandError(es[k]) = ""
<1>1. PICK f : f = WithEntries(e, es)
  OBVIOUS
<1>2. /\ f.name = e.name /\ f.value.cmds.shape = e.value.cmds.shape /\ f.value.cmds.entries = es
  BY <1>1, WithCommands, Zenon
<1>a. f.value.null = e.value.null
  BY <1>1, WithCommands, Zenon
<1>3. PICK v : v = f.value
  OBVIOUS
<1>4. ~v.null /\ v.cmds.shape = "mapping" /\ v.cmds.entries = es
  BY <1>2, <1>a, <1>3, Zenon
<1>5. v.cmds.entries \in Seq(S) /\ v.cmds.entries # <<>>
  BY <1>4, Zenon
<1>6. deviceError(v).err = "" <=> \A k \in 1..Len(v.cmds.entries) : CommandError(v.cmds.entries[k]) = ""
  BY <1>4, <1>5, MappingAccepted, Zenon
<1>7. EntryError(f) = deviceError(v).err
  BY <1>2, <1>3, Zenon DEF EntryError
<1>8. UnmarshalYAML(OnlyEntry(f)).ok <=> EntryError(f) = ""
  BY OnlyEntryLoads, Zenon
<1> QED
  BY <1>1, <1>4, <1>6, <1>7, <1>8, Zenon

(* The command of a device that an error names is its first with an error.  *)
LEMMA CommandLocated ==
  ASSUME NEW e \in DeviceEntry, ~IsReservedDeviceName(e.name),
         ~e.value.null, e.value.cmds.shape = "mapping",
         NEW j \in 1..Len(e.value.cmds.entries),
         CommandError(e.value.cmds.entries[j]) # "",
         \A k \in 1..Len(e.value.cmds.entries) : k < j => CommandError(e.value.cmds.entries[k]) = ""
  PROVE  LET cmds == e.value.cmds.entries
             With(es) == [e EXCEPT !.value.cmds.entries = es]
         IN  /\ j \in DOMAIN cmds
             /\ ~UnmarshalYAML(OnlyEntry(With(<<cmds[j]>>))).ok
             /\ j = 1 \/ UnmarshalYAML(OnlyEntry(With(SubSeq(cmds, 1, j - 1)))).ok
<1>1. PICK cmds \in Seq(CommandEntry) : cmds = e.value.cmds.entries
  <2>1. e.value \in DeviceNode
    BY DEF DeviceEntry
  <2> QED
    BY <2>1, DeviceShape, Zenon
<1> DEFINE With(es) == WithEntries(e, es)
<1>2. ASSUME NEW S, NEW es \in Seq(S), es # <<>>
      PROVE  UnmarshalYAML(OnlyEntry(With(es))).ok <=> \A k \in 1..Len(es) : CommandError(es[k]) = ""
  BY <1>2, WithLoads, Zenon
<1>3. Len(cmds) \in Nat /\ j \in 1..Len(cmds) /\ DOMAIN cmds = 1..Len(cmds)
  BY <1>1, SeqShape, Zenon
<1>4. ~UnmarshalYAML(OnlyEntry(With(<<cmds[j]>>))).ok
  <2>1. PICK c : c = cmds[j]
    OBVIOUS
  <2>2. PICK es : es = <<c>> /\ es \in Seq({c}) /\ es # <<>> /\ 1 \in 1..Len(es) /\ es[1] = c
    BY Single, Zenon
  <2>3. CommandError(c) # ""
    BY <1>1, <2>1, Zenon
  <2>4. ~UnmarshalYAML(OnlyEntry(With(es))).ok
    <3> HIDE DEF With
    <3> QED
      BY <1>2, <2>2, <2>3, Zenon
  <2> QED
    BY <2>1, <2>2, <2>4, Zenon
<1>5. ASSUME j # 1 PROVE UnmarshalYAML(OnlyEntry(With(SubSeq(cmds, 1, j - 1)))).ok
  <2>1. PICK n \in Nat : n = Len(cmds) /\ j \in 1..n
    BY <1>3, Zenon
  <2>2. PICK m \in 1..n : m = j - 1 /\ \A k \in 1..m : k \in 1..n /\ k < j
    BY <1>5, <2>1, PlacesBefore, Zenon
  <2>3. PICK p : p = SubSeq(cmds, 1, m)
    OBVIOUS
  <2>4. p \in Seq(CommandEntry) /\ p # <<>> /\ Len(p) = m /\ \A k \in 1..m : p[k] = cmds[k]
    BY <2>1, <2>3, PrefixOf, Zenon
  <2>5. \A k \in 1..Len(p) : CommandError(p[k]) = ""
    BY <1>1, <2>1, <2>2, <2>4, Zenon
  <2>6. UnmarshalYAML(OnlyEntry(With(p))).ok
    <3> HIDE DEF With
    <3> QED
      BY <1>2, <2>4, <2>5, Zenon
  <2>7. p = SubSeq(cmds, 1, j - 1)
    BY <2>2, <2>3, Zenon
  <2> QED
    BY <2>6, <2>7, Zenon
<1> QED
  BY <1>1, <1>3, <1>4, <1>5, Zenon DEF WithEntries

(* The fault is where the error says.                                       *)
LEMMA FaultLocated ==
  ASSUME setup \in Setups, LoadOK
  PROVE  ErrorLocated
<1>1. SUFFICES ASSUME pc = "refused", setup.doc.entries # <<>> PROVE ErrorLocated
  BY Zenon DEF ErrorLocated
<1>2. PICK doc \in DocNode : doc = setup.doc
  BY SetupsAssumption, Zenon
<1>3. doc.entries \in Seq(DeviceEntry) /\ ~doc.null /\ doc.entries # <<>>
  BY <1>1, <1>2, DocShape, Zenon
<1>4. config = UnmarshalYAML(doc) /\ ~UnmarshalYAML(doc).ok
  <2>1. "refused" # "load"
    OBVIOUS
  <2> QED
    BY <1>1, <1>2, <2>1, Zenon DEF LoadOK
<1>5. ~\A k \in 1..Len(doc.entries) : EntryError(doc.entries[k]) = ""
  BY <1>3, <1>4, LoadOutcome, Zenon
<1>6. PICK b \in 1..Len(doc.entries) :
        /\ EntryError(doc.entries[b]) # ""
        /\ \A k \in 1..Len(doc.entries) : k < b => EntryError(doc.entries[k]) = ""
        /\ config = Refusal(doc.entries[b])
  BY <1>3, <1>4, <1>5, LoadRefuses, Zenon
<1>7. PICK e \in DeviceEntry : e = doc.entries[b]
  BY <1>3, SeqShape, Zenon
<1>8. /\ config.device = e.name /\ config.err = EntryError(e)
      /\ config.command = IF IsReservedDeviceName(e.name) THEN "" ELSE deviceError(e.value).command
  BY <1>6, <1>7 DEF Refusal, ConfigError
<1>9. LoadsBefore(doc.entries, b)
  BY <1>3, <1>6, PrefixLoads, Zenon
<1>10. ~UnmarshalYAML(OnlyEntry(e)).ok
  BY <1>6, <1>7, OnlyEntryLoads, Zenon
<1>11. b \in DOMAIN doc.entries
  BY <1>3, SeqShape, Zenon
<1>12. \/ /\ config.command = ""
          /\ config.err \in {"reserved", "no commands"} \/ Aliased(e.name)
       \/ LET cmds == e.value.cmds.entries
              With(es) == [e EXCEPT !.value.cmds.entries = es]
          IN  \E j \in DOMAIN cmds :
                /\ cmds[j].name = config.command
                /\ ~UnmarshalYAML(OnlyEntry(With(<<cmds[j]>>))).ok
                /\ j = 1 \/ UnmarshalYAML(OnlyEntry(With(SubSeq(cmds, 1, j - 1)))).ok
  <2>1. CASE IsReservedDeviceName(e.name)
    BY <1>8, <2>1, Zenon DEF EntryError
  <2>2. CASE ~IsReservedDeviceName(e.name)
    <3>1. e.value \in DeviceNode
      BY <1>7 DEF DeviceEntry
    <3>2. /\ config.err = deviceError(e.value).err /\ deviceError(e.value).err # ""
          /\ config.command = deviceError(e.value).command
      BY <1>6, <1>7, <1>8, <2>2, Zenon DEF EntryError
    <3>3. CASE /\ deviceError(e.value).command = ""
               /\ deviceError(e.value).err = "no commands" \/ e.value.cmds.shape = "alias"
      <4>1. e.value.cmds.shape = "alias" => Aliased(e.name)
        BY <1>2, <1>7, <1>11, Zenon DEF Aliased, Range
      <4> QED
        BY <3>2, <3>3, <4>1, Zenon
    <3>4. CASE /\ ~e.value.null /\ e.value.cmds.shape = "mapping"
               /\ \E j \in 1..Len(e.value.cmds.entries) :
                    /\ deviceError(e.value).command = e.value.cmds.entries[j].name
                    /\ CommandError(e.value.cmds.entries[j]) # ""
                    /\ \A k \in 1..Len(e.value.cmds.entries) : k < j => CommandError(e.value.cmds.entries[k]) = ""
      <4>1. PICK j \in 1..Len(e.value.cmds.entries) :
              /\ deviceError(e.value).command = e.value.cmds.entries[j].name
              /\ CommandError(e.value.cmds.entries[j]) # ""
              /\ \A k \in 1..Len(e.value.cmds.entries) : k < j => CommandError(e.value.cmds.entries[k]) = ""
        BY <3>4, Zenon
      <4>2. e.value.cmds.entries[j].name = config.command
        BY <3>2, <4>1, Zenon
      <4>3. /\ j \in DOMAIN e.value.cmds.entries
            /\ ~UnmarshalYAML(OnlyEntry([e EXCEPT !.value.cmds.entries = <<e.value.cmds.entries[j]>>])).ok
            /\ j = 1 \/ UnmarshalYAML(OnlyEntry([e EXCEPT !.value.cmds.entries =
                                                   SubSeq(e.value.cmds.entries, 1, j - 1)])).ok
        BY <2>2, <3>4, <4>1, CommandLocated, Zenon
      <4> QED
        BY <4>2, <4>3, Zenon
    <3> QED
      BY <3>1, <3>2, <3>3, <3>4, DeviceRefused, Zenon
  <2> QED
    BY <2>1, <2>2
<1> QED
  BY <1>2, <1>7, <1>8, <1>9, <1>10, <1>11, <1>12, Zenon DEF ErrorLocated

-----------------------------------------------------------------------------
(* What the load accepts.                                                   *)

(* A name of a mapping has the value of one of its entries.                 *)
LEMMA LastWinsPicks ==
  ASSUME NEW S, NEW es \in Seq(S), NEW n \in DOMAIN LastWins(es)
  PROVE  \E k \in 1..Len(es) : es[k].name = n /\ LastWins(es)[n] = es[k].value
<1> DEFINE I == {i \in 1..Len(es) : es[i].name = n}
<1>1. n \in {e.name : e \in Range(es)} /\ LastWins(es)[n] = es[SelectLastInSeq(es, LAMBDA e : e.name = n)].value
  BY DEF LastWins
<1>2. SelectLastInSeq(es, LAMBDA e : e.name = n) = IF I # {} THEN Max(I) ELSE 0
  BY DEF SelectLastInSeq
<1>3. \E k \in 1..Len(es) : es[k].name = n
  BY <1>1, SeqShape, Zenon DEF Range
<1>4. I # {} /\ I \subseteq 1..Len(es)
  BY <1>3, Zenon
<1>5. \A i \in I : i \in 1..Len(es) /\ es[i].name = n
  BY Zenon
<1> HIDE DEF I
<1>6. Max(I) \in I
  BY <1>4, SeqShape, MaxOf, Zenon
<1> QED
  BY <1>1, <1>2, <1>4, <1>5, <1>6, Zenon

(* A device and its commands in an accepted configuration.                  *)
ServedOK(d) ==
  /\ ~IsReservedDeviceName(d)
  /\ \A c \in DOMAIN config.devs[d] :
       /\ config.devs[d][c] \in CommandNode /\ commandError(config.devs[d][c]) = ""
       /\ ~Aliased(d) => ~IsReservedCommandName(c)

(* What the agent serves has passed every check of the load.                *)
LEMMA Served ==
  ASSUME setup \in Setups, LoadOK, NEW d \in DOMAIN config.devs
  PROVE  ServedOK(d)
<1>1. PICK doc \in DocNode : doc = setup.doc
  BY SetupsAssumption, Zenon
<1>2. doc.entries \in Seq(DeviceEntry) /\ (doc.null => doc.entries = <<>>)
  BY <1>1, DocShape, Zenon
<1>3. \A x, c, y : DOMAIN ConfigError(x, c, y).devs = {}
  BY DEF ConfigError
<1>4. config = UnmarshalYAML(doc)
  BY <1>1, <1>3, Zenon DEF LoadOK
<1>5. ~doc.null
  <2>1. DOMAIN Loaded(<<>>).devs = {}
    BY DEF Loaded
  <2>2. ASSUME doc.null PROVE FALSE
    <3>1. UnmarshalYAML(doc) = Loaded(<<>>)
      BY <2>2, Zenon DEF UnmarshalYAML
    <3> QED
      BY <1>4, <2>1, <3>1, Zenon
  <2> QED
    BY <2>2
<1>6. doc.entries # <<>>
  <2>1. ASSUME doc.entries = <<>> PROVE FALSE
    <3>1. UnmarshalYAML(doc) = ConfigError("", "", "empty devices")
      BY <1>5, <2>1, EmptyRefused, Zenon
    <3> QED
      BY <1>3, <1>4, <3>1, Zenon
  <2> QED
    BY <2>1
<1>7. \A k \in 1..Len(doc.entries) : EntryError(doc.entries[k]) = ""
  <2>1. ASSUME ~\A k \in 1..Len(doc.entries) : EntryError(doc.entries[k]) = "" PROVE FALSE
    <3>1. \E x, c, y : UnmarshalYAML(doc) = ConfigError(x, c, y)
      BY <1>2, <1>5, <1>6, <2>1, LoadRefuses, Zenon DEF Refusal
    <3> QED
      BY <1>3, <1>4, <3>1, Zenon
  <2> QED
    BY <2>1
<1>8. config.devs = Devices(doc.entries)
  <2>1. UnmarshalYAML(doc) = Loaded(Devices(doc.entries))
    BY <1>2, <1>5, <1>6, <1>7, LoadAccepts, Zenon
  <2>2. \A x : Loaded(x).devs = x
    BY DEF Loaded
  <2> QED
    BY <1>4, <2>1, <2>2, Zenon
<1>9. d \in DOMAIN LastWins(doc.entries) /\ config.devs[d] = LastWins(LastWins(doc.entries)[d].cmds.entries)
  BY <1>8 DEF Devices
<1>10. PICK k \in 1..Len(doc.entries) : doc.entries[k].name = d /\ LastWins(doc.entries)[d] = doc.entries[k].value
  BY <1>2, <1>9, LastWinsPicks, Zenon
<1>11. PICK e \in DeviceEntry : e = doc.entries[k]
  BY <1>2, SeqShape, Zenon
<1>12. PICK dev \in DeviceNode : dev = e.value
  BY DEF DeviceEntry
<1>13. "reserved" # ""
  OBVIOUS
<1>14. e.name = d /\ ~IsReservedDeviceName(d) /\ deviceError(dev).err = ""
  BY <1>7, <1>10, <1>11, <1>12, <1>13, Zenon DEF EntryError
<1>15. /\ \A j \in 1..Len(dev.cmds.entries) : commandError(dev.cmds.entries[j].value) = ""
       /\ dev.cmds.shape # "alias" =>
            \A j \in 1..Len(dev.cmds.entries) : ~IsReservedCommandName(dev.cmds.entries[j].name)
  BY <1>14, DeviceAccepted, Zenon
<1>16. config.devs[d] = LastWins(dev.cmds.entries) /\ dev.cmds.entries \in Seq(CommandEntry)
  BY <1>9, <1>10, <1>11, <1>12, DeviceShape, Zenon
<1>17. dev.cmds.shape = "alias" => Aliased(d)
  <2>1. e \in Range(doc.entries)
    BY <1>2, <1>11, SeqShape, Zenon DEF Range
  <2> QED
    BY <1>1, <1>12, <1>14, <2>1, Zenon DEF Aliased
<1>18. ASSUME NEW c \in DOMAIN config.devs[d]
       PROVE  /\ config.devs[d][c] \in CommandNode /\ commandError(config.devs[d][c]) = ""
              /\ ~Aliased(d) => ~IsReservedCommandName(c)
  <2>1. PICK j \in 1..Len(dev.cmds.entries) :
          dev.cmds.entries[j].name = c /\ LastWins(dev.cmds.entries)[c] = dev.cmds.entries[j].value
    <3>1. c \in DOMAIN LastWins(dev.cmds.entries)
      BY <1>16, <1>18, Zenon
    <3> QED
      BY <1>16, <3>1, LastWinsPicks, Zenon
  <2>2. dev.cmds.entries[j] \in CommandEntry
    BY <1>16, SeqShape, Zenon
  <2>3. dev.cmds.entries[j].value \in CommandNode
    BY <2>2 DEF CommandEntry
  <2> QED
    BY <1>15, <1>16, <1>17, <2>1, <2>3, Zenon
<1> QED
  BY <1>14, <1>18, Zenon DEF ServedOK

(* The parts of a command of the document.                                  *)
LEMMA CommandShape ==
  ASSUME NEW cmd \in CommandNode
  PROVE  /\ cmd.args \in Seq(STRING) /\ cmd.uses \in Seq(ModuleNode)
         /\ cmd.null => cmd.uses = <<>>
<1>1. cmd \in [null : BOOLEAN, args : Seq(STRING), uses : Seq(ModuleNode)] /\ (cmd.null => cmd = NullCommand)
  BY Zenon DEF CommandNode
<1>2. cmd.args \in Seq(STRING) /\ cmd.uses \in Seq(ModuleNode)
  BY <1>1
<1>3. NullCommand.uses = <<>>
  BY DEF NullCommand
<1> QED
  BY <1>1, <1>2, <1>3, Zenon

(* Places are numbers.                                                      *)
LEMMA PlacesNat ==
  ASSUME NEW n \in Nat
  PROVE  1..n \subseteq Nat
  OBVIOUS

(* The checks of a command that was accepted.                               *)
LEMMA CommandAccepted ==
  ASSUME NEW cmd \in CommandNode, ~cmd.null, commandError(cmd) = ""
  PROVE  /\ cmd.uses # <<>> /\ ~(countPassthrough(cmd) > 1)
         /\ HasPassthrough(cmd) => cmd.args = <<>>
         /\ validateTemplateReferences(cmd)
<1> DEFINE J == {i \in 1..Len(cmd.uses) : cmd.uses[i].fault # ""}
<1>1. PICK faulty : faulty = SelectInSeq(cmd.uses, LAMBDA m : m.fault # "")
  OBVIOUS
<1>2. faulty = IF J # {} THEN Min(J) ELSE 0
  BY <1>1 DEF SelectInSeq
<1>3. J \subseteq Nat
  <2>1. J \subseteq 1..Len(cmd.uses)
    BY Zenon
  <2>2. Len(cmd.uses) \in Nat
    BY CommandShape, SeqShape, Zenon
  <2>3. 1..Len(cmd.uses) \subseteq Nat
    BY <2>2, PlacesNat, Zenon
  <2> QED
    BY <2>1, <2>3, Zenon
<1>4. \A i \in J : cmd.uses[i].fault # ""
  BY Zenon
<1> HIDE DEF J
<1>5. J # {} => cmd.uses[faulty].fault # ""
  BY <1>2, <1>3, <1>4, MinOf, Zenon
<1>6. faulty = 0
  <2>1. ASSUME faulty # 0 PROVE FALSE
    <3>1. commandError(cmd) = cmd.uses[faulty].fault
      BY <1>1, <2>1, Zenon DEF commandError
    <3> QED
      BY <1>2, <1>5, <2>1, <3>1, Zenon
  <2> QED
    BY <2>1
<1> DEFINE named == \E m \in Range(cmd.uses) : m.passthrough /\ m.args # <<>>
<1>7. commandError(cmd) =
        IF cmd.uses = <<>> THEN "no modules"
        ELSE IF countPassthrough(cmd) > 1 THEN "multiple passthrough"
        ELSE IF HasPassthrough(cmd) /\ cmd.args # <<>> THEN "passthrough with args"
        ELSE IF named THEN "passthrough module with args"
        ELSE IF ~validateTemplateReferences(cmd) THEN "undefined reference"
        ELSE ""
  BY <1>1, <1>6, Zenon DEF commandError
<1> HIDE DEF named
<1>8. /\ "no modules" # "" /\ "multiple passthrough" # "" /\ "passthrough with args" # ""
      /\ "passthrough module with args" # "" /\ "undefined reference" # ""
  OBVIOUS
<1>9. cmd.uses # <<>>
  BY <1>7, <1>8, Zenon
<1>10. ~(countPassthrough(cmd) > 1)
  BY <1>7, <1>8, <1>9, Zenon
<1>11. ~(HasPassthrough(cmd) /\ cmd.args # <<>>)
  BY <1>7, <1>8, <1>9, <1>10, Zenon
<1>12. validateTemplateReferences(cmd)
  BY <1>7, <1>8, <1>9, <1>10, <1>11, Zenon
<1> QED
  BY <1>9, <1>10, <1>11, <1>12, Zenon

(* The command line can address what the agent serves.                      *)
LEMMA WordNames ==
  ASSUME NEW t
  PROVE  Name(Word(t)) = t /\ \A u : Word(t) = Word(u) => t = u
<1>1. Word(t) = <<Lit(t)>> /\ Len(<<Lit(t)>>) = 1 /\ <<Lit(t)>>[1] = Lit(t)
  BY DEF Word
<1>2. \A u : Lit(u).kind = "lit" /\ Lit(u).text = u
  BY DEF Lit
<1>3. Name(Word(t)) = t
  BY <1>1, <1>2, Zenon DEF Name
<1>4. \A u : Word(u)[1] = Lit(u)
  BY DEF Word
<1>5. ASSUME NEW u, Word(t) = Word(u) PROVE t = u
  <2>1. Lit(t) = Lit(u)
    BY <1>4, <1>5, Zenon
  <2>2. t = Lit(t).text /\ u = Lit(u).text
    BY <1>2
  <2> QED
    BY <2>1, <2>2
<1> QED
  BY <1>3, <1>5, Zenon

(* Two words and three are command lines of that length.                    *)
LEMMA TwoWords ==
  ASSUME NEW v, NEW w
  PROVE  /\ <<v, w>> # <<>> /\ <<v, w>>[1] = v /\ <<v, w>>[2] = w
         /\ Len(<<v, w>>) # 1 /\ SubSeq(<<v, w>>, 3, Len(<<v, w>>)) = <<>>
<1>1. Len(<<v, w>>) = 2 /\ <<v, w>> \in Seq({v, w})
  OBVIOUS
<1>2. SubSeq(<<v, w>>, 3, 2) = <<>>
  BY <1>1
<1> QED
  BY <1>1, <1>2

LEMMA ThreeWords ==
  ASSUME NEW v, NEW w, NEW h
  PROVE  /\ Append(<<v, w>>, h) = <<v, w, h>>
         /\ <<v, w, h>> # <<>> /\ <<v, w, h>>[1] = v /\ <<v, w, h>>[2] = w
         /\ Len(<<v, w, h>>) # 1 /\ SubSeq(<<v, w, h>>, 3, Len(<<v, w, h>>)) = <<h>>
<1>1. Len(<<v, w, h>>) = 3 /\ <<v, w, h>> \in Seq({v, w, h})
  OBVIOUS
<1>2. PICK s : s = SubSeq(<<v, w, h>>, 3, 3)
  OBVIOUS
<1>3. s \in Seq({v, w, h}) /\ Len(s) = 1 /\ s[1] = h
  BY <1>1, <1>2
<1>4. s = <<s[1]>>
  BY <1>3
<1>5. PICK a : a = Append(<<v, w>>, h)
  OBVIOUS
<1>6. a \in Seq({v, w, h}) /\ Len(a) = 3 /\ a[1] = v /\ a[2] = w /\ a[3] = h
  BY <1>5
<1>7. a = <<a[1], a[2], a[3]>>
  BY <1>6
<1>8. Append(<<v, w>>, h) = <<v, w, h>>
  BY <1>5, <1>6, <1>7
<1>9. SubSeq(<<v, w, h>>, 3, Len(<<v, w, h>>)) = <<h>>
  BY <1>1, <1>2, <1>3, <1>4
<1>10. <<v, w, h>> # <<>> /\ <<v, w, h>>[1] = v /\ <<v, w, h>>[2] = w
  BY <1>1
<1> QED
  BY <1>1, <1>8, <1>9, <1>10

(* The command line can address what the agent serves.                      *)
LEMMA ServedReachable ==
  ASSUME \A d \in DOMAIN config.devs : ServedOK(d)
  PROVE  Reachable
<1>1. SUFFICES ASSUME NEW d \in DOMAIN config.devs
               PROVE  /\ route(<<Word(d)>>).rpc = "commands"
                      /\ Word(d) # Word("version")
                      /\ \A c \in DOMAIN config.devs[d] : ~Aliased(d) =>
                           LET bare == <<Word(d), Word(c)>> IN
                           /\ route(bare) = Rpc("run", d, c, <<>>)
                           /\ route(Append(bare, Word("help"))) = Rpc("details", d, c, <<>>)
  BY Zenon DEF Reachable
<1>2. d # "list" /\ d # "version"
  BY DEF ServedOK, IsReservedDeviceName
<1>3. Word(d) # Word("list") /\ Word(d) # Word("version") /\ Name(Word(d)) = d
  BY <1>2, WordNames, Zenon
<1>4. route(<<Word(d)>>).rpc = "commands"
  <2>1. PICK w : w = Word(d)
    OBVIOUS
  <2>2. <<w>> # <<>> /\ <<w>>[1] = w /\ Len(<<w>>) = 1
    OBVIOUS
  <2>3. route(<<w>>) = Rpc("commands", Name(w), "", <<>>)
    BY <1>3, <2>1, <2>2, Zenon DEF route
  <2>4. \A n : Rpc("commands", n, "", <<>>).rpc = "commands"
    BY DEF Rpc
  <2> QED
    BY <2>1, <2>3, <2>4, Zenon
<1>5. ASSUME NEW c \in DOMAIN config.devs[d], ~Aliased(d)
      PROVE  /\ route(<<Word(d), Word(c)>>) = Rpc("run", d, c, <<>>)
             /\ route(Append(<<Word(d), Word(c)>>, Word("help"))) = Rpc("details", d, c, <<>>)
  <2>1. c \notin {"lock", "unlock", "help"}
    BY <1>5 DEF ServedOK, IsReservedCommandName
  <2>2. PICK v, w, h : v = Word(d) /\ w = Word(c) /\ h = Word("help")
    OBVIOUS
  <2>3. Name(v) = d /\ Name(w) = c /\ v # Word("list")
    BY <1>3, <2>2, WordNames, Zenon
  <2>4. PICK bare : /\ bare = <<v, w>> /\ bare # <<>> /\ bare[1] = v /\ bare[2] = w
                    /\ Len(bare) # 1 /\ SubSeq(bare, 3, Len(bare)) = <<>>
    <3>1. /\ <<v, w>> # <<>> /\ <<v, w>>[1] = v /\ <<v, w>>[2] = w
          /\ Len(<<v, w>>) # 1 /\ SubSeq(<<v, w>>, 3, Len(<<v, w>>)) = <<>>
      BY TwoWords
    <3> QED
      BY <3>1, Zenon
  <2>5. PICK full : /\ full = Append(bare, h) /\ full # <<>> /\ full[1] = v /\ full[2] = w
                    /\ Len(full) # 1 /\ SubSeq(full, 3, Len(full)) = <<h>>
    <3>1. /\ Append(<<v, w>>, h) = <<v, w, h>>
          /\ <<v, w, h>> # <<>> /\ <<v, w, h>>[1] = v /\ <<v, w, h>>[2] = w
          /\ Len(<<v, w, h>>) # 1 /\ SubSeq(<<v, w, h>>, 3, Len(<<v, w, h>>)) = <<h>>
      BY ThreeWords
    <3> QED
      BY <2>4, <3>1, Zenon
  <2>6. route(bare) = dispatchCommand(d, c, <<>>)
    BY <2>3, <2>4, Zenon DEF route
  <2>7. route(full) = dispatchCommand(d, c, <<h>>)
    BY <2>3, <2>5, Zenon DEF route
  <2>8. c # "lock" /\ c # "unlock" /\ c \notin {"lock", "unlock"}
    BY <2>1
  <2>9. dispatchCommand(d, c, <<>>) = Rpc("run", d, c, <<>>)
    BY <2>8, Zenon DEF dispatchCommand
  <2>10. <<h>> # <<>> /\ <<h>>[1] = h /\ ~(Len(<<h>>) > 1)
    OBVIOUS
  <2>11. dispatchCommand(d, c, <<h>>) = Rpc("details", d, c, <<>>)
    BY <2>2, <2>8, <2>10, Zenon DEF dispatchCommand
  <2> QED
    BY <2>2, <2>4, <2>5, <2>6, <2>7, <2>9, <2>11, Zenon
<1> QED
  BY <1>3, <1>4, <1>5, Zenon

-----------------------------------------------------------------------------
(* Sequences joined into one.                                               *)

(* The first i of the sequences p, joined, for each i.                      *)
Join(f, p, i) == IF i = 1 THEN p[i] ELSE f[i - 1] \o p[i]
IsFlat(f, p) == f = [i \in 1..Len(p) |-> IF i = 1 THEN p[i] ELSE f[i - 1] \o p[i]]
Flat(p) == CHOOSE f : IsFlat(f, p)

(* The joins of all prefixes exist, by a ladder over the numbers.           *)
LEMMA FlatExists ==
  ASSUME NEW p, NEW n \in Nat, n = Len(p)
  PROVE  IsFlat(Flat(p), p)
<1> DEFINE Follows(f, k) == DOMAIN f = Nat /\ \A i \in 1..k : f[i] = Join(f, p, i)
           S == {k \in Nat : \E f : Follows(f, k)}
<1>1. 0 \in S
  <2>1. Follows([i \in Nat |-> 0], 0)
    OBVIOUS
  <2> QED
    BY <2>1, Zenon
<1>2. ASSUME NEW k \in Nat, k \in S PROVE k + 1 \in S
  <2>1. PICK f : Follows(f, k)
    BY <1>2
  <2>2. PICK v : v = Join(f, p, k + 1)
    OBVIOUS
  <2>3. PICK g : g = [f EXCEPT ![k + 1] = v]
    OBVIOUS
  <2>4. DOMAIN g = Nat /\ g[k + 1] = v /\ \A i \in 0..k : g[i] = f[i]
    BY <2>1, <2>3
  <2>5. ASSUME NEW i \in 1..(k + 1) PROVE g[i] = Join(g, p, i)
    <3>0. i - 1 \in 0..k
      OBVIOUS
    <3>1. Join(g, p, i) = Join(f, p, i)
      BY <2>4, <3>0, Zenon DEF Join
    <3>2. CASE i = k + 1
      BY <2>2, <2>4, <3>1, <3>2, Zenon
    <3>3. CASE i # k + 1
      <4>1. i \in 1..k /\ i \in 0..k
        BY <3>3
      <4>2. g[i] = f[i] /\ f[i] = Join(f, p, i)
        BY <2>1, <2>4, <4>1
      <4> QED
        BY <3>1, <4>2, Zenon
    <3> QED
      BY <3>2, <3>3
  <2>6. Follows(g, k + 1)
    BY <2>4, <2>5
  <2>7. k + 1 \in Nat
    OBVIOUS
  <2> QED
    BY <2>6, <2>7, Zenon
<1>3. n \in S
  <2> HIDE DEF S
  <2> QED
    BY <1>1, <1>2, LadderOf
<1>4. PICK f : Follows(f, n)
  BY <1>3
<1>5. PICK g : g = [i \in 1..n |-> f[i]]
  OBVIOUS
<1>a. \A i \in 1..n : g[i] = f[i]
  BY <1>5
<1>6. ASSUME NEW i \in 1..n PROVE g[i] = IF i = 1 THEN p[i] ELSE g[i - 1] \o p[i]
  <2>1. g[i] = IF i = 1 THEN p[i] ELSE f[i - 1] \o p[i]
    BY <1>4, <1>a, Zenon DEF Join
  <2>2. i # 1 => i - 1 \in 1..n
    OBVIOUS
  <2>3. i # 1 => g[i - 1] = f[i - 1]
    BY <1>a, <2>2, Zenon
  <2> QED
    BY <2>1, <2>3, Zenon
<1>7. IsFlat(g, p)
  <2>1. g = [i \in 1..n |-> g[i]]
    BY <1>5
  <2>2. g = [i \in 1..n |-> IF i = 1 THEN p[i] ELSE g[i - 1] \o p[i]]
    BY <1>6, <2>1, Zenon
  <2> QED
    BY <2>2 DEF IsFlat
<1> QED
  BY <1>7, Zenon DEF Flat

(* FlattenSeq joins them all.                                               *)
LEMMA FlattenJoins ==
  ASSUME NEW p, NEW n \in Nat, n = Len(p), n # 0
  PROVE  \E f : /\ FlattenSeq(p) = f[n] /\ f[1] = p[1]
                /\ \A k \in Nat : k + 1 \in 1..n /\ k # 0 => f[k + 1] = f[k] \o p[k + 1]
<1>1. PICK f : f = Flat(p)
  OBVIOUS
<1>2. FlattenSeq(p) = f[n]
  BY <1>1, Zenon DEF FlattenSeq, Flat, IsFlat
<1>3. f = [i \in 1..n |-> IF i = 1 THEN p[i] ELSE f[i - 1] \o p[i]]
  <2>1. IsFlat(f, p)
    BY <1>1, FlatExists
  <2> QED
    BY <2>1, Zenon DEF IsFlat
<1>4. \A i \in 1..n : f[i] = IF i = 1 THEN p[i] ELSE f[i - 1] \o p[i]
  BY <1>3, Zenon
<1>5. f[1] = p[1]
  <2>1. 1 \in 1..n
    OBVIOUS
  <2> QED
    BY <1>4, <2>1, Zenon
<1>6. ASSUME NEW k \in Nat, k + 1 \in 1..n, k # 0 PROVE f[k + 1] = f[k] \o p[k + 1]
  <2>1. k + 1 # 1 /\ (k + 1) - 1 = k
    BY <1>6
  <2> QED
    BY <1>4, <1>6, <2>1, Zenon
<1> QED
  BY <1>2, <1>5, <1>6, Zenon

(* Of sequences over S it makes one over S.                                 *)
LEMMA FlattenSeqOf ==
  ASSUME NEW S, NEW p \in Seq(Seq(S))
  PROVE  FlattenSeq(p) \in Seq(S)
<1>1. PICK n \in Nat : n = Len(p) /\ \A k \in 1..n : p[k] \in Seq(S)
  OBVIOUS
<1>2. CASE n = 0
  <2>1. FlattenSeq(p) = p
    BY <1>1, <1>2, Zenon DEF FlattenSeq
  <2>2. p \in Seq(S)
    BY <1>1, <1>2, EmptySeq, Zenon
  <2> QED
    BY <2>1, <2>2, Zenon
<1>3. CASE n # 0
  <2>1. PICK f : /\ FlattenSeq(p) = f[n] /\ f[1] = p[1]
                 /\ \A k \in Nat : k + 1 \in 1..n /\ k # 0 => f[k + 1] = f[k] \o p[k + 1]
    BY <1>1, <1>3, FlattenJoins
  <2> DEFINE T == {k \in Nat : k \in 1..n => f[k] \in Seq(S)}
  <2>2. 0 \in T
    OBVIOUS
  <2>3. ASSUME NEW k \in Nat, k \in T PROVE k + 1 \in T
    <3>1. SUFFICES ASSUME k + 1 \in 1..n PROVE f[k + 1] \in Seq(S)
      OBVIOUS
    <3>2. CASE k = 0
      BY <1>1, <1>3, <2>1, <3>2
    <3>3. CASE k # 0
      <4>1. k \in 1..n
        BY <3>1, <3>3
      <4>2. f[k] \in Seq(S) /\ p[k + 1] \in Seq(S)
        BY <1>1, <2>3, <3>1, <4>1
      <4>3. f[k + 1] = f[k] \o p[k + 1]
        BY <2>1, <3>1, <3>3
      <4> QED
        BY <4>2, <4>3
    <3> QED
      BY <3>2, <3>3
  <2>4. n \in T
    <3> HIDE DEF T
    <3> QED
      BY <2>2, <2>3, LadderOf
  <2> QED
    BY <1>3, <2>1, <2>4
<1> QED
  BY <1>2, <1>3

-----------------------------------------------------------------------------
(* What is accepted can be run.                                             *)

(* A passthrough module is counted.                                         *)
LEMMA PassthroughCounted ==
  ASSUME NEW S, NEW cmd, cmd.uses \in Seq(S), NEW i \in DOMAIN cmd.uses, cmd.uses[i].passthrough
  PROVE  HasPassthrough(cmd)
<1> DEFINE P == {j \in DOMAIN cmd.uses : cmd.uses[j].passthrough}
<1>1. i \in P
  BY Zenon
<1>2. P \subseteq DOMAIN cmd.uses
  BY Zenon
<1>3. PICK n \in Nat : DOMAIN cmd.uses = 1..n
  BY SeqShape, Zenon
<1>a. countPassthrough(cmd) = Cardinality(P)
  BY Zenon DEF countPassthrough
<1> HIDE DEF P
<1>4. IsFiniteSet(1..n)
  BY FS_Interval
<1>5. IsFiniteSet(P)
  BY <1>2, <1>3, <1>4, FS_Subset, Zenon
<1>6. Cardinality(P) \in Nat /\ Cardinality(P) # 0
  BY <1>1, <1>5, FS_CardinalityType, FS_EmptySet, Zenon
<1>7. Cardinality(P) > 0
  BY <1>6
<1> QED
  BY <1>7, <1>a, Zenon DEF HasPassthrough

(* Sequences of one, and sequences by their places.                         *)
LEMMA SingleOf ==
  ASSUME NEW S, NEW t \in S
  PROVE  <<t>> \in Seq(S)
  OBVIOUS

LEMMA MapSeq ==
  ASSUME NEW R, NEW n \in Nat, NEW p, DOMAIN p = 1..n, p = [i \in DOMAIN p |-> p[i]],
         \A i \in 1..n : p[i] \in R
  PROVE  p \in Seq(R) /\ Len(p) = n
  OBVIOUS

(* Where the last word that is n is.                                        *)
LastOf(s, n) == SelectLastInSeq(s, LAMBDA x : x = n)

(* A word of s has a last place in s.                                       *)
LEMMA LastOfPlace ==
  ASSUME NEW S, NEW s \in Seq(S), NEW n \in Range(s)
  PROVE  LastOf(s, n) \in 1..Len(s)
<1> DEFINE I == {i \in 1..Len(s) : s[i] = n}
<1>1. LastOf(s, n) = IF I # {} THEN Max(I) ELSE 0
  BY DEF LastOf, SelectLastInSeq
<1>2. \E k \in 1..Len(s) : s[k] = n
  BY SeqShape, Zenon DEF Range
<1>3. I # {} /\ I \subseteq 1..Len(s)
  BY <1>2, Zenon
<1> HIDE DEF I
<1>4. Max(I) \in I
  BY <1>3, SeqShape, MaxOf, Zenon
<1> QED
  BY <1>1, <1>3, <1>4, Zenon

(* What a token of a configured argument becomes.                           *)
PartOf(cmd, given, t) ==
  IF t.kind = "ref" THEN given[LastOf(cmd.args, t.text)] ELSE <<t>>
Parts(cmd, given, conf) == [i \in DOMAIN conf |-> PartOf(cmd, given, conf[i])]

(* An argument whose references are declared becomes its parts, joined.     *)
LEMMA SubstituteJoins ==
  ASSUME NEW cmd, NEW given, NEW conf,
         extractTemplateReferences(conf) \subseteq Range(cmd.args)
  PROVE  Substitute(conf, ArgMap(cmd, given)) = FlattenSeq(Parts(cmd, given, conf))
<1>1. PICK argMap : argMap = ArgMap(cmd, given)
  OBVIOUS
<1>2. argMap = [n \in Range(cmd.args) |-> given[LastOf(cmd.args, n)]]
  BY <1>1, Zenon DEF ArgMap, LastOf
<1>3. DOMAIN argMap = Range(cmd.args) /\ \A n \in Range(cmd.args) : argMap[n] = given[LastOf(cmd.args, n)]
  BY <1>2, Zenon
<1>4. ASSUME NEW i \in DOMAIN conf
      PROVE  (IF conf[i].kind = "ref" /\ conf[i].text \in DOMAIN argMap
              THEN argMap[conf[i].text] ELSE <<conf[i]>>) = PartOf(cmd, given, conf[i])
  <2>1. conf[i].kind = "ref" => conf[i].text \in Range(cmd.args)
    BY Zenon DEF extractTemplateReferences
  <2>2. CASE conf[i].kind = "ref"
    BY <1>3, <2>1, <2>2, Zenon DEF PartOf
  <2>3. CASE conf[i].kind # "ref"
    BY <2>3, Zenon DEF PartOf
  <2> QED
    BY <2>2, <2>3, Zenon
<1>5. [i \in DOMAIN conf |->
         IF conf[i].kind = "ref" /\ conf[i].text \in DOMAIN argMap
         THEN argMap[conf[i].text] ELSE <<conf[i]>>] = Parts(cmd, given, conf)
  BY <1>4, Zenon DEF Parts
<1>6. Substitute(conf, argMap) =
        FlattenSeq([i \in DOMAIN conf |->
                      IF conf[i].kind = "ref" /\ conf[i].text \in DOMAIN argMap
                      THEN argMap[conf[i].text] ELSE <<conf[i]>>])
  BY Zenon DEF Substitute
<1> QED
  BY <1>1, <1>5, <1>6, Zenon

(* The parts are sequences over what was given and the other tokens.        *)
LEMMA PartsSeq ==
  ASSUME NEW S, NEW cmd, cmd.args \in Seq(STRING), NEW given \in Seq(Seq(S)),
         Len(given) = Len(cmd.args), NEW conf \in Seq(Token),
         extractTemplateReferences(conf) \subseteq Range(cmd.args),
         \A i \in DOMAIN conf : conf[i].kind # "ref" => conf[i] \in S
  PROVE  /\ Parts(cmd, given, conf) \in Seq(Seq(S)) /\ Len(Parts(cmd, given, conf)) = Len(conf)
         /\ \A i \in 1..Len(conf) : Parts(cmd, given, conf)[i] = PartOf(cmd, given, conf[i])
<1>1. PICK p : p = Parts(cmd, given, conf)
  OBVIOUS
<1>2. PICK n \in Nat : n = Len(conf) /\ DOMAIN conf = 1..n
  BY SeqShape, Zenon
<1>3. p = [i \in 1..n |-> PartOf(cmd, given, conf[i])]
  BY <1>1, <1>2, Zenon DEF Parts
<1>4. ASSUME NEW i \in 1..n PROVE PartOf(cmd, given, conf[i]) \in Seq(S)
  <2>1. CASE conf[i].kind = "ref"
    <3>1. conf[i].text \in Range(cmd.args)
      BY <1>2, <2>1, Zenon DEF extractTemplateReferences
    <3>2. LastOf(cmd.args, conf[i].text) \in 1..Len(given)
      BY <3>1, LastOfPlace, Zenon
    <3>3. given[LastOf(cmd.args, conf[i].text)] \in Seq(S)
      BY <3>2, SeqShape, Zenon
    <3> QED
      BY <2>1, <3>3, Zenon DEF PartOf
  <2>2. CASE conf[i].kind # "ref"
    <3>1. conf[i] \in S
      BY <1>2, <2>2, Zenon
    <3>2. <<conf[i]>> \in Seq(S)
      BY <3>1, SingleOf, Zenon
    <3> QED
      BY <2>2, <3>2, Zenon DEF PartOf
  <2> QED
    BY <2>1, <2>2, Zenon
<1>5. p \in Seq(Seq(S)) /\ Len(p) = n
  BY <1>3, <1>4, MapSeq
<1>6. \A i \in 1..n : p[i] = PartOf(cmd, given, conf[i])
  BY <1>3, Zenon
<1> QED
  BY <1>1, <1>2, <1>5, <1>6, Zenon

(* A command with modules that passed the checks of the load.               *)
Accepted(cmd) == cmd \in CommandNode /\ ~cmd.null /\ commandError(cmd) = ""

(* The references in the arguments of a module are declared.                *)
LEMMA RefsDeclared ==
  ASSUME NEW cmd, Accepted(cmd), NEW i \in DOMAIN cmd.uses, ~cmd.uses[i].passthrough
  PROVE  /\ cmd.uses[i].args \in Seq(Seq(Token))
         /\ \A k \in DOMAIN cmd.uses[i].args :
              /\ cmd.uses[i].args[k] \in Seq(Token)
              /\ extractTemplateReferences(cmd.uses[i].args[k]) \subseteq Range(cmd.args)
<1>1. cmd.uses \in Seq(ModuleNode) /\ validateTemplateReferences(cmd)
  BY CommandShape, CommandAccepted, Zenon DEF Accepted
<1>2. PICK m \in ModuleNode : m = cmd.uses[i]
  BY <1>1, SeqShape, Zenon
<1>3. m.args \in Seq(Seq(Token))
  BY DEF ModuleNode
<1>4. m \in Range(cmd.uses) /\ ~m.passthrough
  BY <1>2, Zenon DEF Range
<1>5. ASSUME NEW k \in DOMAIN m.args
      PROVE  m.args[k] \in Seq(Token) /\ extractTemplateReferences(m.args[k]) \subseteq Range(cmd.args)
  <2>1. m.args[k] \in Seq(Token)
    BY <1>3, SeqShape, Zenon
  <2>2. m.args[k] \in Range(m.args)
    BY Zenon DEF Range
  <2> QED
    BY <1>1, <1>4, <2>1, <2>2, Zenon DEF validateTemplateReferences
<1> QED
  BY <1>2, <1>3, <1>5, Zenon

(* A word without references.                                               *)
LEMMA NoReferences ==
  ASSUME NEW S, \A t \in S : t.kind # "ref", NEW w \in Seq(S)
  PROVE  extractTemplateReferences(w) = {}
<1>1. \A j \in DOMAIN w : w[j].kind # "ref"
  BY SeqShape, Zenon
<1> QED
  BY <1>1, Zenon DEF extractTemplateReferences

(* An accepted command is found, and resolves its arguments.                *)
LEMMA AcceptedResolves ==
  ASSUME NEW cmd, Accepted(cmd), NEW given, given = [i \in DOMAIN cmd.args |-> Word("x")]
  PROVE  /\ ModuleArgsError(cmd, given) = ""
         /\ \A a \in Range(ModuleArgs(cmd, given)) : \A w \in Range(a) :
              extractTemplateReferences(w) = {}
<1> DEFINE S == {t \in Token \cup {Lit("x")} : t.kind # "ref"}
<1>1. cmd.args \in Seq(STRING) /\ cmd.uses \in Seq(ModuleNode)
  BY CommandShape, Zenon DEF Accepted
<1>2. HasPassthrough(cmd) => cmd.args = <<>>
  BY CommandAccepted, Zenon DEF Accepted
<1>3. PICK n \in Nat : n = Len(cmd.args) /\ DOMAIN cmd.args = 1..n
  BY <1>1, SeqShape, Zenon
<1>4. given \in Seq(Seq(S)) /\ Len(given) = n
  <2>1. Lit("x").kind = "lit"
    BY DEF Lit
  <2>2. Lit("x") \in S
    BY <2>1
  <2> HIDE DEF S
  <2>3. Word("x") \in Seq(S)
    BY <2>2, SingleOf, Zenon DEF Word
  <2>4. PICK R : R = Seq(S)
    OBVIOUS
  <2>5. PICK w \in R : given = [i \in 1..n |-> w]
    BY <1>3, <2>3, <2>4, Zenon
  <2>6. given \in Seq(R) /\ Len(given) = n
    BY <2>5
  <2> QED
    BY <2>4, <2>6, Zenon
<1>5. cmd.args = <<>> => given = <<>>
  <2>1. cmd.args = <<>> => Len(given) = 0
    BY <1>3, <1>4
  <2> QED
    BY <1>4, <2>1, EmptySeq, Zenon
<1>6. ModuleArgsError(cmd, given) = ""
  BY <1>3, <1>4, <1>5, Zenon DEF ModuleArgsError
<1>7. \A t \in S : t.kind # "ref"
  BY Zenon
<1>8. \A t \in Token : t.kind # "ref" => t \in S
  BY Zenon
<1> HIDE DEF S
<1>9. ASSUME NEW i \in DOMAIN cmd.uses, NEW a, a = ModuleArgs(cmd, given)[i], NEW k \in DOMAIN a
      PROVE  extractTemplateReferences(a[k]) = {}
  <2>1. a = IF cmd.uses[i].passthrough THEN given ELSE SubstituteArgs(cmd, cmd.uses[i].args, given)
    BY <1>9, Zenon DEF ModuleArgs
  <2>2. CASE cmd.uses[i].passthrough
    <3>1. a = given /\ HasPassthrough(cmd)
      BY <1>1, <2>1, <2>2, PassthroughCounted, Zenon
    <3>2. a = <<>>
      BY <1>2, <1>5, <3>1, Zenon
    <3>3. DOMAIN <<>> = {}
      OBVIOUS
    <3> QED
      BY <1>9, <3>2, <3>3, Zenon
  <2>3. CASE ~cmd.uses[i].passthrough
    <3>1. PICK words \in Seq(Seq(Token)) :
            /\ words = cmd.uses[i].args
            /\ \A j \in DOMAIN words :
                 words[j] \in Seq(Token) /\ extractTemplateReferences(words[j]) \subseteq Range(cmd.args)
      BY <2>3, RefsDeclared, Zenon
    <3>2. CASE cmd.args = <<>>
      <4>1. a = words
        BY <2>1, <2>3, <3>1, <3>2, Zenon DEF SubstituteArgs
      <4>2. Range(<<>>) = {}
        BY DEF Range
      <4> QED
        BY <1>9, <3>1, <3>2, <4>1, <4>2, Zenon
    <3>3. CASE cmd.args # <<>>
      <4>1. a = [j \in DOMAIN words |-> Substitute(words[j], ArgMap(cmd, given))]
        BY <2>1, <2>3, <3>1, <3>3, Zenon DEF SubstituteArgs
      <4>2. k \in DOMAIN words /\ a[k] = Substitute(words[k], ArgMap(cmd, given))
        BY <1>9, <4>1, Zenon
      <4>3. PICK conf \in Seq(Token) :
              conf = words[k] /\ extractTemplateReferences(conf) \subseteq Range(cmd.args)
        BY <3>1, <4>2, Zenon
      <4>4. a[k] = FlattenSeq(Parts(cmd, given, conf))
        BY <4>2, <4>3, SubstituteJoins, Zenon
      <4>5. \A j \in DOMAIN conf : conf[j].kind # "ref" => conf[j] \in S
        BY <1>8, SeqShape, Zenon
      <4>6. Len(given) = Len(cmd.args)
        BY <1>3, <1>4, Zenon
      <4>7. Parts(cmd, given, conf) \in Seq(Seq(S))
        BY <1>1, <1>4, <4>3, <4>5, <4>6, PartsSeq, Zenon
      <4>8. a[k] \in Seq(S)
        BY <4>4, <4>7, FlattenSeqOf, Zenon
      <4> QED
        BY <1>7, <4>8, NoReferences, Zenon
    <3> QED
      BY <3>2, <3>3
  <2> QED
    BY <2>2, <2>3
<1>10. ASSUME NEW a \in Range(ModuleArgs(cmd, given)), NEW w \in Range(a)
       PROVE  extractTemplateReferences(w) = {}
  <2>1. PICK i \in DOMAIN cmd.uses : a = ModuleArgs(cmd, given)[i]
    BY Zenon DEF ModuleArgs, Range
  <2>2. PICK k \in DOMAIN a : w = a[k]
    BY Zenon DEF Range
  <2> QED
    BY <1>9, <2>1, <2>2, Zenon
<1> QED
  BY <1>6, <1>10, Zenon

(* A command without modules has no passthrough module.                     *)
LEMMA NoneCounted ==
  ASSUME NEW cmd, cmd.uses = <<>>
  PROVE  ~(countPassthrough(cmd) > 1)
<1>1. DOMAIN <<>> = {}
  OBVIOUS
<1>2. {i \in DOMAIN cmd.uses : cmd.uses[i].passthrough} = {}
  BY <1>1, Zenon
<1>3. countPassthrough(cmd) = 0
  BY <1>2, FS_EmptySet, Zenon DEF countPassthrough
<1> QED
  BY <1>3

(* The commands the agent serves can be run.                                *)
LEMMA ServedRuns ==
  ASSUME \A d \in DOMAIN config.devs : ServedOK(d)
  PROVE  AcceptedRuns
<1>1. SUFFICES ASSUME NEW d \in DOMAIN config.devs, NEW c \in DOMAIN config.devs[d],
                      NEW cmd, cmd = config.devs[d][c],
                      NEW given, given = [i \in DOMAIN cmd.args |-> Word("x")], ~cmd.null
               PROVE  /\ FindCmd(config.devs, d, c) = ""
                      /\ ModuleArgsError(cmd, given) = ""
                      /\ \A a \in Range(ModuleArgs(cmd, given)) : \A w \in Range(a) :
                           extractTemplateReferences(w) = {}
  <2>1. ASSUME NEW d \in DOMAIN config.devs, NEW c \in DOMAIN config.devs[d], config.devs[d][c].null
        PROVE  FindCmd(config.devs, d, c) = "no modules"
    <3>1. config.devs[d][c] \in CommandNode
      BY <2>1, Zenon DEF ServedOK
    <3>2. config.devs[d][c].uses = <<>>
      BY <2>1, <3>1, CommandShape, Zenon
    <3>3. ~(countPassthrough(config.devs[d][c]) > 1)
      BY <3>2, NoneCounted, Zenon
    <3> QED
      BY <2>1, <3>2, <3>3, Zenon DEF FindCmd, Find
  <2> QED
    BY <2>1, Zenon DEF AcceptedRuns
<1>2. Accepted(cmd)
  BY <1>1, Zenon DEF ServedOK, Accepted
<1>3. cmd.uses # <<>> /\ ~(countPassthrough(cmd) > 1)
  BY <1>2, CommandAccepted, Zenon DEF Accepted
<1>4. FindCmd(config.devs, d, c) = ""
  BY <1>1, <1>3, Zenon DEF FindCmd, Find
<1> QED
  BY <1>1, <1>2, <1>4, AcceptedResolves, Zenon

-----------------------------------------------------------------------------
(* Where the parts are.                                                     *)

(* Two sequences, one after the other.                                      *)
LEMMA ConcatPlaces ==
  ASSUME NEW S, NEW u \in Seq(S), NEW v \in Seq(S)
  PROVE  /\ u \o v \in Seq(S) /\ Len(u \o v) = Len(u) + Len(v)
         /\ SubSeq(u \o v, Len(u) + 1, Len(u) + Len(v)) = v
         /\ \A a \in Nat \ {0}, b \in Nat : b <= Len(u) => SubSeq(u \o v, a, b) = SubSeq(u, a, b)
<1>1. PICK m \in Nat : m = Len(u)
  OBVIOUS
<1>2. PICK n \in Nat : n = Len(v)
  OBVIOUS
<1>a. u \o v \in Seq(S)
  OBVIOUS
<1>3. PICK w \in Seq(S) : w = u \o v
  BY <1>a, Zenon
<1>4. Len(w) = m + n /\ \A k \in 1..m : w[k] = u[k]
  BY <1>1, <1>2, <1>3
<1>5. \A k \in 1..n : w[m + k] = v[k]
  BY <1>1, <1>2, <1>3
<1>6. SubSeq(w, m + 1, m + n) = v
  <2>1. PICK x : x = SubSeq(w, m + 1, m + n)
    OBVIOUS
  <2>2. x = [k \in 1..n |-> w[(m + 1) + k - 1]]
    BY <2>1
  <2>3. \A k \in 1..n : (m + 1) + k - 1 = m + k
    OBVIOUS
  <2>4. \A k \in 1..n : x[k] = v[k]
    BY <1>5, <2>2, <2>3
  <2>5. DOMAIN x = 1..n /\ x = [k \in 1..n |-> x[k]]
    BY <2>2
  <2>6. v = [k \in 1..n |-> v[k]]
    BY <1>2
  <2>7. x = v
    BY <2>4, <2>5, <2>6, Zenon
  <2> QED
    BY <2>1, <2>7
<1>7. ASSUME NEW a \in Nat \ {0}, NEW b \in Nat, b <= m
      PROVE  SubSeq(w, a, b) = SubSeq(u, a, b)
  <2>1. \A k \in 1..(b - a + 1) : a + k - 1 \in 1..m
    BY <1>7
  <2>2. \A k \in 1..(b - a + 1) : w[a + k - 1] = u[a + k - 1]
    BY <1>4, <2>1
  <2>3. SubSeq(w, a, b) = [k \in 1..(b - a + 1) |-> w[a + k - 1]]
    OBVIOUS
  <2>4. SubSeq(u, a, b) = [k \in 1..(b - a + 1) |-> u[a + k - 1]]
    OBVIOUS
  <2> QED
    BY <2>2, <2>3, <2>4, Zenon
<1> QED
  BY <1>1, <1>2, <1>3, <1>4, <1>6, <1>7, Zenon

(* Small facts about places.                                                *)
LEMMA Further ==
  ASSUME NEW a \in Nat, NEW b \in Nat, NEW c \in Nat, NEW l \in Nat, b <= c
  PROVE  a + 1 \in Nat \ {0} /\ b <= c + l
  OBVIOUS

LEMMA WholeSeq ==
  ASSUME NEW S, NEW u \in Seq(S)
  PROVE  SubSeq(u, 1, Len(u)) = u
  OBVIOUS

(* e says where each part of p ends when they are joined, w has them there. *)
StepsIn(e, p) ==
  e[0] = 0 /\ \A k \in Nat : k + 1 \in 1..Len(p) => e[k + 1] = e[k] + Len(p[k + 1])
PlacedIn(w, e, p) ==
  Len(w) = e[Len(p)] /\ \A t \in 1..Len(p) : SubSeq(w, e[t - 1] + 1, e[t]) = p[t]

(* The parts of a joined sequence are where the lengths of those before     *)
(* them put them.                                                           *)
LEMMA FlattenPlaces ==
  ASSUME NEW S, NEW p \in Seq(Seq(S)), NEW e, StepsIn(e, p)
  PROVE  PlacedIn(FlattenSeq(p), e, p)
<1>a. PICK n \in Nat : n = Len(p)
  OBVIOUS
<1>b. SUFFICES ASSUME n = Len(p), e[0] = 0,
                      \A k \in Nat : k + 1 \in 1..n => e[k + 1] = e[k] + Len(p[k + 1])
               PROVE  /\ Len(FlattenSeq(p)) = e[n]
                      /\ \A t \in 1..n : SubSeq(FlattenSeq(p), e[t - 1] + 1, e[t]) = p[t]
  BY <1>a, Zenon DEF StepsIn, PlacedIn
<1> USE <1>b
<1>1. CASE n = 0
  <2>1. FlattenSeq(p) = p
    BY <1>1, Zenon DEF FlattenSeq
  <2>2. Len(p) = 0 /\ 1..n = {}
    BY <1>1
  <2> QED
    BY <1>1, <2>1, <2>2, Zenon
<1>2. CASE n # 0
  <2>1. PICK f : /\ FlattenSeq(p) = f[n] /\ f[1] = p[1]
                 /\ \A k \in Nat : k + 1 \in 1..n /\ k # 0 => f[k + 1] = f[k] \o p[k + 1]
    BY <1>2, FlattenJoins, Zenon
  <2>2. \A k \in 1..n : p[k] \in Seq(S) /\ Len(p[k]) \in Nat
    <3>1. \A k \in 1..n : p[k] \in Seq(S)
      BY SeqShape, Zenon
    <3> QED
      BY <3>1, SeqShape, Zenon
  <2> DEFINE Placed(k) == /\ f[k] \in Seq(S) /\ Len(f[k]) = e[k]
                          /\ \A t \in 1..k :
                               /\ e[t - 1] \in Nat /\ e[t] \in Nat /\ e[t] <= e[k]
                               /\ SubSeq(f[k], e[t - 1] + 1, e[t]) = p[t]
             T == {k \in Nat : k <= n => e[k] \in Nat /\ (k # 0 => Placed(k))}
  <2>3. 0 \in T
    OBVIOUS
  <2>4. ASSUME NEW k \in Nat, k \in T PROVE k + 1 \in T
    <3>1. SUFFICES ASSUME k + 1 <= n PROVE e[k + 1] \in Nat /\ Placed(k + 1)
      OBVIOUS
    <3>2. k + 1 \in 1..n /\ k <= n
      BY <3>1
    <3>3. e[k] \in Nat /\ (k # 0 => Placed(k))
      BY <2>4, <3>2
    <3>4. PICK q \in Seq(S) : q = p[k + 1]
      BY <2>2, <3>2
    <3>5. PICK l \in Nat : l = Len(q)
      BY SeqShape, Zenon
    <3>6. e[k + 1] = e[k] + l
      BY <3>2, <3>4, <3>5
    <3>7. e[k + 1] \in Nat
      BY <3>3, <3>6
    <3>8. CASE k = 0
      <4>1. f[k + 1] = q
        BY <2>1, <3>4, <3>8
      <4>2. e[k + 1] = l /\ e[k] = 0
        BY <3>6, <3>8
      <4>3. SubSeq(q, 1, l) = q
        BY <3>5, WholeSeq
      <4>4. SubSeq(f[k + 1], e[k] + 1, e[k + 1]) = q
        BY <4>1, <4>2, <4>3
      <4>5. ASSUME NEW t \in 1..(k + 1)
            PROVE  /\ e[t - 1] \in Nat /\ e[t] \in Nat /\ e[t] <= e[k + 1]
                   /\ SubSeq(f[k + 1], e[t - 1] + 1, e[t]) = p[t]
        <5>1. t = k + 1 /\ t - 1 = k
          BY <3>8
        <5> QED
          BY <3>3, <3>4, <3>7, <4>4, <5>1
      <4> QED
        BY <3>5, <3>7, <4>1, <4>2, <4>5
    <3>9. CASE k # 0
      <4>1. PICK u \in Seq(S) : u = f[k]
        BY <3>3, <3>9
      <4>2. f[k + 1] = u \o q
        BY <2>1, <3>2, <3>4, <3>9, <4>1
      <4>3. Len(u) = e[k]
        BY <3>3, <3>9, <4>1
      <4>4. PICK w \in Seq(S) :
              /\ w = u \o q /\ Len(w) = Len(u) + Len(q)
              /\ SubSeq(w, Len(u) + 1, Len(u) + Len(q)) = q
              /\ \A a \in Nat \ {0}, b \in Nat : b <= Len(u) => SubSeq(w, a, b) = SubSeq(u, a, b)
        <5>1. /\ u \o q \in Seq(S) /\ Len(u \o q) = Len(u) + Len(q)
              /\ SubSeq(u \o q, Len(u) + 1, Len(u) + Len(q)) = q
              /\ \A a \in Nat \ {0}, b \in Nat : b <= Len(u) => SubSeq(u \o q, a, b) = SubSeq(u, a, b)
          BY ConcatPlaces
        <5> QED
          BY <5>1, Zenon
      <4>5. /\ f[k + 1] = w /\ Len(w) = e[k + 1]
            /\ SubSeq(w, e[k] + 1, e[k + 1]) = q
            /\ \A a \in Nat \ {0}, b \in Nat : b <= e[k] => SubSeq(w, a, b) = SubSeq(u, a, b)
        BY <3>5, <3>6, <4>2, <4>3, <4>4, Zenon
      <4>6. ASSUME NEW t \in 1..(k + 1)
            PROVE  /\ e[t - 1] \in Nat /\ e[t] \in Nat /\ e[t] <= e[k + 1]
                   /\ SubSeq(f[k + 1], e[t - 1] + 1, e[t]) = p[t]
        <5>1. CASE t = k + 1
          <6>1. t - 1 = k
            BY <5>1
          <6>2. e[t - 1] \in Nat /\ e[t] \in Nat /\ e[t] <= e[k + 1]
            BY <3>3, <3>7, <5>1, <6>1
          <6> QED
            BY <3>4, <4>5, <5>1, <6>1, <6>2, Zenon
        <5>2. CASE t # k + 1
          <6>1. t \in 1..k
            BY <5>2
          <6>2. /\ e[t - 1] \in Nat /\ e[t] \in Nat /\ e[t] <= e[k]
                /\ SubSeq(u, e[t - 1] + 1, e[t]) = p[t]
            BY <3>3, <3>9, <4>1, <6>1
          <6>3. e[t - 1] + 1 \in Nat \ {0} /\ e[t] <= e[k + 1]
            <7>1. PICK a \in Nat, b \in Nat, c \in Nat :
                    a = e[t - 1] /\ b = e[t] /\ c = e[k] /\ b <= c /\ e[k + 1] = c + l
              BY <3>3, <3>6, <6>2, Zenon
            <7>2. a + 1 \in Nat \ {0} /\ b <= c + l
              BY <7>1, Further, Zenon
            <7> QED
              BY <7>1, <7>2, Zenon
          <6> QED
            BY <4>5, <6>2, <6>3, Zenon
        <5> QED
          BY <5>1, <5>2
      <4> QED
        BY <3>7, <4>5, <4>6, Zenon
    <3> QED
      BY <3>8, <3>9
  <2>5. n \in T
    <3> HIDE DEF T
    <3> QED
      BY <2>3, <2>4, LadderOf
  <2>6. Placed(n)
    BY <1>2, <2>5
  <2> QED
    BY <2>1, <2>6, Zenon
<1> QED
  BY <1>1, <1>2

(* Where each part ends.                                                    *)
EndAt(f, cmd, given, conf, k) ==
  IF k = 0 THEN 0 ELSE f[k - 1] + Len(PartOf(cmd, given, conf[k]))
IsEnd(f, cmd, given, conf) ==
  f = [k \in 0..Len(conf) |-> IF k = 0 THEN 0 ELSE f[k - 1] + Len(PartOf(cmd, given, conf[k]))]
Ends(cmd, given, conf) == CHOOSE f : IsEnd(f, cmd, given, conf)

(* The ends of all parts exist, by a ladder over the numbers.               *)
LEMMA EndsExist ==
  ASSUME NEW cmd, NEW given, NEW conf, NEW n \in Nat, n = Len(conf)
  PROVE  IsEnd(Ends(cmd, given, conf), cmd, given, conf)
<1> DEFINE At(f, k) == EndAt(f, cmd, given, conf, k)
           Follows(f, k) == DOMAIN f = Nat /\ \A i \in 0..k : f[i] = At(f, i)
           S == {k \in Nat : \E f : Follows(f, k)}
<1>1. 0 \in S
  <2>1. PICK f : f = [i \in Nat |-> 0]
    OBVIOUS
  <2>2. DOMAIN f = Nat /\ f[0] = 0 /\ 0..0 = {0}
    BY <2>1
  <2>3. Follows(f, 0)
    BY <2>2, Zenon DEF EndAt
  <2>4. 0 \in Nat
    OBVIOUS
  <2> QED
    BY <2>3, <2>4, Zenon
<1>2. ASSUME NEW k \in Nat, k \in S PROVE k + 1 \in S
  <2>1. PICK f : Follows(f, k)
    BY <1>2, Zenon
  <2>2. PICK v : v = At(f, k + 1)
    OBVIOUS
  <2>3. PICK g : g = [f EXCEPT ![k + 1] = v]
    OBVIOUS
  <2>a. DOMAIN f = Nat
    BY <2>1, Zenon
  <2>4. DOMAIN g = Nat /\ g[k + 1] = v /\ \A i \in 0..k : g[i] = f[i]
    BY <2>a, <2>3
  <2>5. ASSUME NEW i \in 0..(k + 1) PROVE g[i] = At(g, i)
    <3>0. i # 0 => i - 1 \in 0..k
      OBVIOUS
    <3>1. At(g, i) = At(f, i)
      BY <2>4, <3>0, Zenon DEF EndAt
    <3>2. CASE i = k + 1
      BY <2>2, <2>4, <3>1, <3>2, Zenon
    <3>3. CASE i # k + 1
      <4>1. i \in 0..k
        BY <3>3
      <4>2. g[i] = f[i] /\ f[i] = At(f, i)
        BY <2>1, <2>4, <4>1, Zenon
      <4> QED
        BY <3>1, <4>2, Zenon
    <3> QED
      BY <3>2, <3>3
  <2>6. Follows(g, k + 1)
    BY <2>4, <2>5, Zenon
  <2>7. k + 1 \in Nat
    OBVIOUS
  <2> QED
    BY <2>6, <2>7, Zenon
<1>3. n \in S
  <2> HIDE DEF S
  <2> QED
    BY <1>1, <1>2, LadderOf
<1>4. PICK f : Follows(f, n)
  BY <1>3, Zenon
<1>5. PICK g : g = [i \in 0..n |-> f[i]]
  OBVIOUS
<1>a. \A i \in 0..n : g[i] = f[i]
  BY <1>5, Zenon
<1>6. ASSUME NEW i \in 0..n
      PROVE  g[i] = IF i = 0 THEN 0 ELSE g[i - 1] + Len(PartOf(cmd, given, conf[i]))
  <2>1. g[i] = IF i = 0 THEN 0 ELSE f[i - 1] + Len(PartOf(cmd, given, conf[i]))
    BY <1>4, <1>a, Zenon DEF EndAt
  <2>2. i # 0 => i - 1 \in 0..n
    OBVIOUS
  <2>3. i # 0 => g[i - 1] = f[i - 1]
    BY <1>a, <2>2, Zenon
  <2> QED
    BY <2>1, <2>3, Zenon
<1>7. IsEnd(g, cmd, given, conf)
  <2>1. g = [i \in 0..n |-> g[i]]
    BY <1>5, <1>a, Zenon
  <2>2. g = [i \in 0..n |-> IF i = 0 THEN 0 ELSE g[i - 1] + Len(PartOf(cmd, given, conf[i]))]
    BY <1>6, <2>1, Zenon
  <2> QED
    BY <2>2, Zenon DEF IsEnd
<1> QED
  BY <1>7, Zenon DEF Ends

(* Each part ends its own length behind the one before it.                  *)
LEMMA EndsStep ==
  ASSUME NEW cmd, NEW given, NEW conf, NEW n \in Nat, n = Len(conf)
  PROVE  /\ Ends(cmd, given, conf)[0] = 0
         /\ \A k \in Nat : k + 1 \in 1..n =>
              Ends(cmd, given, conf)[k + 1] =
                Ends(cmd, given, conf)[k] + Len(PartOf(cmd, given, conf[k + 1]))
<1>1. PICK e : e = Ends(cmd, given, conf)
  OBVIOUS
<1>2. e = [k \in 0..n |-> IF k = 0 THEN 0 ELSE e[k - 1] + Len(PartOf(cmd, given, conf[k]))]
  <2>1. IsEnd(e, cmd, given, conf)
    BY <1>1, EndsExist, Zenon
  <2> QED
    BY <2>1, Zenon DEF IsEnd
<1>3. \A k \in 0..n : e[k] = IF k = 0 THEN 0 ELSE e[k - 1] + Len(PartOf(cmd, given, conf[k]))
  BY <1>2, Zenon
<1>4. e[0] = 0
  <2>1. 0 \in 0..n
    OBVIOUS
  <2> QED
    BY <1>3, <2>1, Zenon
<1>5. ASSUME NEW k \in Nat, k + 1 \in 1..n
      PROVE  e[k + 1] = e[k] + Len(PartOf(cmd, given, conf[k + 1]))
  <2>1. k + 1 \in 0..n /\ k + 1 # 0 /\ (k + 1) - 1 = k
    BY <1>5
  <2> QED
    BY <1>3, <2>1, Zenon
<1> QED
  BY <1>1, <1>4, <1>5, Zenon

(* A word w is the configured argument conf with its references replaced:   *)
(* the parts of conf, each in its place, and nothing else.                  *)
Replaced(cmd, given, conf, w) ==
  /\ Len(w) = Ends(cmd, given, conf)[Len(conf)]
  /\ \A t \in DOMAIN conf :
       SubSeq(w, Ends(cmd, given, conf)[t - 1] + 1, Ends(cmd, given, conf)[t]) = PartOf(cmd, given, conf[t])

(* What is not empty has a first place.                                     *)
LEMMA FirstPlace ==
  ASSUME NEW k \in Nat, k # 0
  PROVE  1 \in 1..k
  OBVIOUS

StepsOf(e, cmd, given, conf, n) ==
  /\ e[0] = 0
  /\ \A k \in Nat : k + 1 \in 1..n => e[k + 1] = e[k] + Len(PartOf(cmd, given, conf[k + 1]))

(* The ends of the parts of a configured argument follow these steps.       *)
LEMMA EndsSteps ==
  ASSUME NEW cmd, NEW given, NEW conf, Len(conf) \in Nat
  PROVE  StepsOf(Ends(cmd, given, conf), cmd, given, conf, Len(conf))
<1>1. PICK n \in Nat : n = Len(conf)
  BY Zenon
<1>2. PICK e : e = Ends(cmd, given, conf)
  OBVIOUS
<1>3. e[0] = 0
  BY <1>1, <1>2, EndsStep
<1>4. ASSUME NEW k \in Nat, k + 1 \in 1..n PROVE e[k + 1] = e[k] + Len(PartOf(cmd, given, conf[k + 1]))
  BY <1>1, <1>2, <1>4, EndsStep
<1> QED
  BY <1>1, <1>2, <1>3, <1>4, Zenon DEF StepsOf

(* The part of a sequence that is one place of it.                          *)
LEMMA OnePlace ==
  ASSUME NEW S, NEW s \in Seq(S), NEW t \in DOMAIN s
  PROVE  SubSeq(s, (t - 1) + 1, t) = <<s[t]>>
<1>1. PICK n \in Nat : n = Len(s) /\ DOMAIN s = 1..n
  OBVIOUS
<1>2. t \in 1..n /\ (t - 1) + 1 = t
  BY <1>1
<1>3. SubSeq(s, t, t) = [i \in 1..1 |-> s[t + i - 1]]
  BY <1>2
<1>4. \A i \in 1..1 : t + i - 1 = t
  BY <1>2
<1>5. SubSeq(s, t, t) = [i \in 1..1 |-> s[t]]
  BY <1>3, <1>4, Zenon
<1>6. <<s[t]>> = [i \in 1..1 |-> s[t]]
  OBVIOUS
<1> QED
  BY <1>2, <1>5, <1>6, Zenon

(* An argument without references is its own replacement.                   *)
LEMMA LiteralReplaced ==
  ASSUME NEW cmd, NEW given, NEW conf \in Seq(Token), extractTemplateReferences(conf) = {}
  PROVE  Replaced(cmd, given, conf, conf)
<1>1. PICK n \in Nat : n = Len(conf) /\ DOMAIN conf = 1..n
  BY SeqShape, Zenon
<1>2. \A t \in 1..n : PartOf(cmd, given, conf[t]) = <<conf[t]>>
  <2>1. \A t \in 1..n : conf[t].kind # "ref"
    BY <1>1, Zenon DEF extractTemplateReferences
  <2> QED
    BY <2>1, Zenon DEF PartOf
<1>3. PICK e : /\ e = Ends(cmd, given, conf) /\ e[0] = 0
               /\ \A k \in Nat : k + 1 \in 1..n => e[k + 1] = e[k] + Len(PartOf(cmd, given, conf[k + 1]))
  <2>1. StepsOf(Ends(cmd, given, conf), cmd, given, conf, Len(conf))
    BY <1>1, EndsSteps, Zenon
  <2> QED
    BY <1>1, <2>1, Zenon DEF StepsOf
<1>4. /\ e[0] = 0
      /\ \A k \in Nat : k + 1 \in 1..n => e[k + 1] = e[k] + Len(PartOf(cmd, given, conf[k + 1]))
  BY <1>3, Zenon
<1>5. \A x : Len(<<x>>) = 1
  OBVIOUS
<1>6. \A k \in Nat : k + 1 \in 1..n => e[k + 1] = e[k] + 1
  BY <1>2, <1>4, <1>5, Zenon
<1> DEFINE T == {k \in Nat : k <= n => e[k] = k}
<1>7. 0 \in T
  BY <1>4
<1>8. \A k \in Nat : k \in T => k + 1 \in T
  BY <1>6
<1>9. Nat \subseteq T
  <2> HIDE DEF T
  <2> QED
    BY <1>7, <1>8, LadderOf
<1>10. \A k \in 0..n : e[k] = k
  BY <1>9
<1>11. ASSUME NEW t \in 1..n
       PROVE  SubSeq(conf, e[t - 1] + 1, e[t]) = PartOf(cmd, given, conf[t])
  <2>1. t - 1 \in 0..n /\ t \in 0..n
    OBVIOUS
  <2>2. SubSeq(conf, (t - 1) + 1, t) = <<conf[t]>>
    BY <1>1, OnePlace, Zenon
  <2> QED
    BY <1>2, <1>10, <2>1, <2>2, Zenon
<1>12. n \in 0..n
  OBVIOUS
<1> QED
  BY <1>1, <1>3, <1>10, <1>11, <1>12, Zenon DEF Replaced

(* Substitution replaces the references, all of them, in their places.      *)
LEMMA SubstituteReplaced ==
  ASSUME NEW cmd, cmd.args \in Seq(STRING), NEW given \in Seq(Seq(Token)),
         Len(given) = Len(cmd.args), NEW conf \in Seq(Token),
         extractTemplateReferences(conf) \subseteq Range(cmd.args)
  PROVE  Replaced(cmd, given, conf, Substitute(conf, ArgMap(cmd, given)))
<1>1. PICK n \in Nat : n = Len(conf) /\ DOMAIN conf = 1..n
  BY SeqShape, Zenon
<1>2. \A i \in DOMAIN conf : conf[i].kind # "ref" => conf[i] \in Token
  BY SeqShape, Zenon
<1>3. Parts(cmd, given, conf) \in Seq(Seq(Token))
  BY <1>2, PartsSeq, Zenon
<1>4. PICK p \in Seq(Seq(Token)) :
        p = Parts(cmd, given, conf) /\ n = Len(p) /\ \A i \in 1..n : p[i] = PartOf(cmd, given, conf[i])
  <2>1. PICK p \in Seq(Seq(Token)) : p = Parts(cmd, given, conf)
    BY <1>3, Zenon
  <2>2. p = [i \in 1..n |-> PartOf(cmd, given, conf[i])]
    BY <1>1, <2>1, Zenon DEF Parts
  <2>3. Len(p) = n
    BY <2>2
  <2>4. \A i \in 1..n : p[i] = PartOf(cmd, given, conf[i])
    BY <2>2, Zenon
  <2> QED
    BY <2>1, <2>3, <2>4, Zenon
<1>5. PICK e : /\ e = Ends(cmd, given, conf) /\ e[0] = 0
               /\ \A k \in Nat : k + 1 \in 1..n => e[k + 1] = e[k] + Len(PartOf(cmd, given, conf[k + 1]))
  <2>1. StepsOf(Ends(cmd, given, conf), cmd, given, conf, Len(conf))
    BY <1>1, EndsSteps, Zenon
  <2> QED
    BY <1>1, <2>1, Zenon DEF StepsOf
<1>6. /\ e[0] = 0
      /\ \A k \in Nat : k + 1 \in 1..n => e[k + 1] = e[k] + Len(PartOf(cmd, given, conf[k + 1]))
  BY <1>5, Zenon
<1>7. \A k \in Nat : k + 1 \in 1..n => e[k + 1] = e[k] + Len(p[k + 1])
  BY <1>4, <1>6, Zenon
<1>8. /\ Len(FlattenSeq(p)) = e[n]
      /\ \A t \in 1..n : SubSeq(FlattenSeq(p), e[t - 1] + 1, e[t]) = p[t]
  <2>1. StepsIn(e, p)
    BY <1>4, <1>6, <1>7, Zenon DEF StepsIn
  <2>2. PlacedIn(FlattenSeq(p), e, p)
    BY <2>1, FlattenPlaces, Zenon
  <2> QED
    BY <1>4, <2>2, Zenon DEF PlacedIn
<1>9. Substitute(conf, ArgMap(cmd, given)) = FlattenSeq(p)
  BY <1>4, SubstituteJoins, Zenon
<1> QED
  BY <1>1, <1>4, <1>5, <1>8, <1>9, Zenon DEF Replaced

(* The number of words given is the number declared, unless a passthrough   *)
(* module takes them all.                                                   *)
LEMMA GivenCounted ==
  ASSUME NEW cmd, Accepted(cmd), NEW given \in Seq(Seq(Token)), ModuleArgsError(cmd, given) = ""
  PROVE  HasPassthrough(cmd) \/ Len(given) = Len(cmd.args)
<1>1. cmd.args \in Seq(STRING) /\ cmd.uses \in Seq(ModuleNode) /\ cmd.uses # <<>>
  BY CommandShape, CommandAccepted, Zenon DEF Accepted
<1>2. SUFFICES ASSUME ~HasPassthrough(cmd), Len(given) # Len(cmd.args) PROVE FALSE
  OBVIOUS
<1>3. PICK k \in Nat : k = Len(cmd.uses) /\ DOMAIN cmd.uses = 1..k /\ k # 0
  <2>1. PICK k \in Nat : k = Len(cmd.uses) /\ DOMAIN cmd.uses = 1..k
    BY <1>1, SeqShape, Zenon
  <2>2. k # 0
    BY <1>1, <2>1, EmptySeq, Zenon
  <2> QED
    BY <2>1, <2>2, Zenon
<1>a. 1 \in 1..k
  BY <1>3, FirstPlace, Zenon
<1>4. 1 \in DOMAIN cmd.uses
  BY <1>3, <1>a, Zenon
<1>5. ~cmd.uses[1].passthrough
  BY <1>1, <1>2, <1>4, PassthroughCounted, Zenon
<1>6. \E m \in Range(cmd.uses) : ~m.passthrough
  BY <1>4, <1>5, Zenon DEF Range
<1>7. CASE cmd.args # <<>>
  <2>1. ModuleArgsError(cmd, given) = "wrong number"
    BY <1>2, <1>6, <1>7, Zenon DEF ModuleArgsError
  <2> QED
    BY <2>1
<1>8. CASE cmd.args = <<>>
  <2>1. given # <<>>
    BY <1>2, <1>8, Zenon
  <2>2. ModuleArgsError(cmd, given) = "no receiver"
    BY <1>2, <1>8, <2>1, Zenon DEF ModuleArgsError
  <2> QED
    BY <2>2
<1> QED
  BY <1>7, <1>8

(* What ModuleArgs hands to the modules of an accepted command.             *)
Delivered(cmd, given, got) ==
  /\ Len(got) = Len(cmd.uses)
  /\ HasPassthrough(cmd) \/ Len(given) = Len(cmd.args)
  /\ \A m \in DOMAIN got :
       IF cmd.uses[m].passthrough THEN got[m] = given
       ELSE /\ Len(got[m]) = Len(cmd.uses[m].args)
            /\ \A w \in DOMAIN got[m] : Replaced(cmd, given, cmd.uses[m].args[w], got[m][w])

(* The length of a sequence, from its domain.                               *)
LEMMA DomainLen ==
  ASSUME NEW f, NEW n \in Nat, DOMAIN f = 1..n, f = [i \in 1..n |-> f[i]]
  PROVE  Len(f) = n
  OBVIOUS

(* A module that is not passthrough gets its own words, replaced.           *)
LEMMA SubstituteDelivers ==
  ASSUME NEW cmd, Accepted(cmd), NEW given \in Seq(Seq(Token)),
         HasPassthrough(cmd) \/ Len(given) = Len(cmd.args),
         NEW m \in DOMAIN cmd.uses, ~cmd.uses[m].passthrough
  PROVE  /\ Len(SubstituteArgs(cmd, cmd.uses[m].args, given)) = Len(cmd.uses[m].args)
         /\ \A w \in DOMAIN SubstituteArgs(cmd, cmd.uses[m].args, given) :
              Replaced(cmd, given, cmd.uses[m].args[w],
                       SubstituteArgs(cmd, cmd.uses[m].args, given)[w])
<1>1. cmd.args \in Seq(STRING) /\ (HasPassthrough(cmd) => cmd.args = <<>>)
  BY CommandShape, CommandAccepted, Zenon DEF Accepted
<1>2. PICK words \in Seq(Seq(Token)) :
        /\ words = cmd.uses[m].args
        /\ \A j \in DOMAIN words :
             words[j] \in Seq(Token) /\ extractTemplateReferences(words[j]) \subseteq Range(cmd.args)
  BY RefsDeclared, Zenon
<1>3. PICK a : a = SubstituteArgs(cmd, words, given)
  OBVIOUS
<1>4. CASE cmd.args = <<>>
  <2>1. a = words
    BY <1>3, <1>4, Zenon DEF SubstituteArgs
  <2>2. Range(<<>>) = {}
    BY DEF Range
  <2>3. ASSUME NEW w \in DOMAIN words PROVE Replaced(cmd, given, words[w], words[w])
    <3>1. extractTemplateReferences(words[w]) = {}
      BY <1>2, <1>4, <2>2, Zenon
    <3> QED
      BY <1>2, <3>1, LiteralReplaced, Zenon
  <2> QED
    BY <1>2, <1>3, <2>1, <2>3, Zenon
<1>5. CASE cmd.args # <<>>
  <2>1. a = [j \in DOMAIN words |-> Substitute(words[j], ArgMap(cmd, given))]
    BY <1>3, <1>5, Zenon DEF SubstituteArgs
  <2>2. DOMAIN a = DOMAIN words /\ \A w \in DOMAIN words : a[w] = Substitute(words[w], ArgMap(cmd, given))
    BY <2>1, Zenon
  <2>3. Len(a) = Len(words)
    <3>1. PICK n \in Nat : n = Len(words) /\ DOMAIN words = 1..n
      BY SeqShape, Zenon
    <3>2. DOMAIN a = 1..n /\ a = [j \in 1..n |-> a[j]]
      BY <2>1, <3>1, Zenon
    <3>3. Len(a) = n
      BY <3>2, DomainLen, Zenon
    <3> QED
      BY <3>1, <3>3, Zenon
  <2>4. ASSUME NEW w \in DOMAIN words PROVE Replaced(cmd, given, words[w], a[w])
    <3>1. PICK conf \in Seq(Token) :
            conf = words[w] /\ extractTemplateReferences(conf) \subseteq Range(cmd.args)
      BY <1>2, Zenon
    <3>2. Len(given) = Len(cmd.args)
      BY <1>1, <1>5, Zenon
    <3>3. Replaced(cmd, given, conf, Substitute(conf, ArgMap(cmd, given)))
      BY <1>1, <3>1, <3>2, SubstituteReplaced, Zenon
    <3> QED
      BY <2>2, <3>1, <3>3, Zenon
  <2> QED
    BY <1>2, <1>3, <2>2, <2>3, <2>4, Zenon
<1> QED
  BY <1>4, <1>5

(* The modules of an accepted command get what was given.                   *)
LEMMA ModuleArgsDelivers ==
  ASSUME NEW cmd, Accepted(cmd), NEW given \in Seq(Seq(Token)), ModuleArgsError(cmd, given) = ""
  PROVE  Delivered(cmd, given, ModuleArgs(cmd, given))
<1>1. PICK got : got = ModuleArgs(cmd, given)
  OBVIOUS
<1>2. got = [i \in DOMAIN cmd.uses |->
               IF cmd.uses[i].passthrough THEN given
               ELSE SubstituteArgs(cmd, cmd.uses[i].args, given)]
  BY <1>1, Zenon DEF ModuleArgs
<1>3. cmd.uses \in Seq(ModuleNode)
  BY CommandShape, Zenon DEF Accepted
<1>4. Len(got) = Len(cmd.uses)
  <2>1. PICK n \in Nat : n = Len(cmd.uses) /\ DOMAIN cmd.uses = 1..n
    BY <1>3, SeqShape, Zenon
  <2>2. DOMAIN got = 1..n /\ got = [i \in 1..n |-> got[i]]
    BY <1>2, <2>1, Zenon
  <2>3. Len(got) = n
    BY <2>2, DomainLen, Zenon
  <2> QED
    BY <2>1, <2>3, Zenon
<1>5. HasPassthrough(cmd) \/ Len(given) = Len(cmd.args)
  BY GivenCounted, Zenon
<1>6. ASSUME NEW m \in DOMAIN got
      PROVE  IF cmd.uses[m].passthrough THEN got[m] = given
             ELSE /\ Len(got[m]) = Len(cmd.uses[m].args)
                  /\ \A w \in DOMAIN got[m] : Replaced(cmd, given, cmd.uses[m].args[w], got[m][w])
  <2>1. m \in DOMAIN cmd.uses
    BY <1>2, Zenon
  <2>2. CASE cmd.uses[m].passthrough
    BY <1>2, <2>1, <2>2, Zenon
  <2>3. CASE ~cmd.uses[m].passthrough
    <3>1. got[m] = SubstituteArgs(cmd, cmd.uses[m].args, given)
      BY <1>2, <2>1, <2>3, Zenon
    <3>2. Len(SubstituteArgs(cmd, cmd.uses[m].args, given)) = Len(cmd.uses[m].args)
      BY <1>5, <2>1, <2>3, SubstituteDelivers, Zenon
    <3>3. \A w \in DOMAIN SubstituteArgs(cmd, cmd.uses[m].args, given) :
            Replaced(cmd, given, cmd.uses[m].args[w], SubstituteArgs(cmd, cmd.uses[m].args, given)[w])
      BY <1>5, <2>1, <2>3, SubstituteDelivers, Zenon
    <3> QED
      BY <2>3, <3>1, <3>2, <3>3, Zenon
  <2> QED
    BY <2>2, <2>3
<1> QED
  BY <1>1, <1>4, <1>5, <1>6, Zenon DEF Delivered

-----------------------------------------------------------------------------
(* What the agent ran.                                                      *)

(* The modules of a command of the configuration were run with m: what its  *)
(* ModuleArgs makes of the arguments of the request.                        *)
Ran(req, m) ==
  /\ FindCmd(config.devs, req.device, req.command) = ""
  /\ ModuleArgsError(config.devs[req.device][req.command], req.args) = ""
  /\ m = ModuleArgs(config.devs[req.device][req.command], req.args)

(* Only a run has module arguments, and no run succeeds without them.       *)
Answered(req, a) ==
  a.moduleArgs # <<>> \/ (req.rpc = "run" /\ a.ok) => Ran(req, a.moduleArgs)

(* A call carries words, and its answer tells what was run for it.          *)
CallServed(c) == c.req.args \in Seq(Seq(Token)) /\ Answered(c.req, c.answer)
CallsServed == \A i \in DOMAIN calls : CallServed(calls[i])

(* The second inductive invariant.                                          *)
ServedIInv == LoadOK /\ CallsServed

(* The arguments a command line sends are words of it.                      *)
LEMMA RoutedArgs ==
  ASSUME NEW a \in Seq(Seq(Token))
  PROVE  route(a).args \in Seq(Seq(Token))
<1>1. PICK W : W = Seq(Token)
  OBVIOUS
<1>2. <<>> \in Seq(W)
  OBVIOUS
<1>3. PICK n \in Nat : n = Len(a)
  OBVIOUS
<1>4. PICK more : more = SubSeq(a, 3, Len(a))
  OBVIOUS
<1>5. more \in Seq(W)
  BY <1>1, <1>3, <1>4
<1>7. \A e : NoRpc(e).args = <<>>
  BY DEF Rpc, NoRpc
<1>8. \A d, m : lockRPC(d, m).args = <<>>
  <2>1. SUFFICES ASSUME NEW d, NEW m PROVE lockRPC(d, m).args = <<>>
    OBVIOUS
  <2>2. PICK p : p = parseLockDuration(m)
    OBVIOUS
  <2>3. \/ lockRPC(d, m) = NoRpc(p.err)
        \/ lockRPC(d, m) = [Rpc("lock", d, "", <<>>) EXCEPT !.seconds = Seconds(p.duration)]
    BY <2>2, Zenon DEF lockRPC
  <2>4. \A s : [Rpc("lock", d, "", <<>>) EXCEPT !.seconds = s].args = <<>>
    BY DEF Rpc
  <2> QED
    BY <1>7, <2>3, <2>4, Zenon
<1>9. \A d, m : parseUnlockArgs(d, m).args = <<>>
  <2>1. SUFFICES ASSUME NEW d, NEW m PROVE parseUnlockArgs(d, m).args = <<>>
    OBVIOUS
  <2>2. \/ parseUnlockArgs(d, m) = Rpc("unlock", d, "", <<>>)
        \/ parseUnlockArgs(d, m) = [Rpc("unlock", d, "", <<>>) EXCEPT !.force = TRUE]
        \/ parseUnlockArgs(d, m) = NoRpc("cmdline")
    BY Zenon DEF parseUnlockArgs
  <2>3. /\ Rpc("unlock", d, "", <<>>).args = <<>>
        /\ [Rpc("unlock", d, "", <<>>) EXCEPT !.force = TRUE].args = <<>>
    BY DEF Rpc
  <2> QED
    BY <1>7, <2>2, <2>3, Zenon
<1>10. ASSUME NEW d, NEW c PROVE dispatchCommand(d, c, more).args \in Seq(W)
  <2>1. CASE c = "lock"
    <3>1. c # "unlock" /\ c \in {"lock", "unlock"}
      BY <2>1
    <3>2. dispatchCommand(d, c, more) = IF Len(more) > 1 THEN NoRpc("cmdline") ELSE lockRPC(d, more)
      BY <2>1, <3>1, Zenon DEF dispatchCommand
    <3> QED
      BY <1>2, <1>7, <1>8, <3>2, Zenon
  <2>2. CASE c = "unlock"
    <3>1. c # "lock" /\ c \in {"lock", "unlock"}
      BY <2>2
    <3>2. dispatchCommand(d, c, more) = parseUnlockArgs(d, more)
      BY <2>2, <3>1, Zenon DEF dispatchCommand
    <3> QED
      BY <1>2, <1>9, <3>2, Zenon
  <2>3. CASE c \notin {"lock", "unlock"}
    <3>1. c # "lock" /\ c # "unlock"
      BY <2>3
    <3>2. \/ dispatchCommand(d, c, more) = NoRpc("cmdline")
          \/ dispatchCommand(d, c, more) = Rpc("details", d, c, <<>>)
          \/ dispatchCommand(d, c, more) = Rpc("run", d, c, more)
      BY <2>3, <3>1, Zenon DEF dispatchCommand
    <3>3. Rpc("details", d, c, <<>>).args = <<>> /\ Rpc("run", d, c, more).args = more
      BY DEF Rpc
    <3> QED
      BY <1>2, <1>5, <1>7, <3>2, <3>3, Zenon
  <2> QED
    BY <2>1, <2>2, <2>3
<1>11. \/ route(a) = Rpc("list", "", "", <<>>)
       \/ route(a) = NoRpc("cmdline")
       \/ route(a) = Rpc("commands", Name(a[1]), "", <<>>)
       \/ route(a) = dispatchCommand(Name(a[1]), Name(a[2]), more)
  BY <1>4, Zenon DEF route
<1>12. Rpc("list", "", "", <<>>).args = <<>> /\ Rpc("commands", Name(a[1]), "", <<>>).args = <<>>
  BY DEF Rpc
<1>13. dispatchCommand(Name(a[1]), Name(a[2]), more).args \in Seq(W)
  BY <1>10, Zenon
<1>14. route(a).args \in Seq(W)
  BY <1>2, <1>7, <1>11, <1>12, <1>13, Zenon
<1> QED
  BY <1>1, <1>14, Zenon

(* The calls stay served when one of them changes.                          *)
LEMMA ServedStays ==
  ASSUME CallsServed, config' = config,
         \A i \in DOMAIN calls' :
           (i \in DOMAIN calls /\ calls'[i] = calls[i]) \/ CallServed(calls'[i])
  PROVE  CallsServed'
<1>1. ASSUME NEW i \in DOMAIN calls' PROVE CallServed(calls'[i])
  BY Zenon DEF CallsServed
<1> QED
  BY <1>1, Zenon DEF CallsServed, CallServed, Answered, Ran

(* A call that says nothing yet is served.                                  *)
LEMMA SilentServed ==
  ASSUME NEW c, c.req.args \in Seq(Seq(Token)), c.answer.moduleArgs = <<>>,
         c.req.rpc # "run" \/ ~c.answer.ok
  PROVE  CallServed(c)
  BY Zenon DEF CallServed, Answered

(* Nothing but the status of a call changes.                                *)
LEMMA StatusServed ==
  ASSUME CallsOK, CallsServed, config' = config, NEW i \in DOMAIN calls, NEW s,
         calls' = [calls EXCEPT ![i].status = s]
  PROVE  CallsServed'
<1>1. PICK o : o = calls[i] /\ CallOK(o) /\ CallServed(o)
  BY Zenon DEF CallsOK, CallsServed
<1>2. PICK c : c = [o EXCEPT !.status = s]
  OBVIOUS
<1>3. c.req = o.req /\ c.answer = o.answer
  BY <1>1, <1>2 DEF CallOK
<1>4. CallServed(c)
  BY <1>1, <1>3, Zenon DEF CallServed
<1>5. calls' = [calls EXCEPT ![i] = c]
  BY <1>1, <1>2
<1>6. /\ DOMAIN calls' = DOMAIN calls /\ calls'[i] = c
      /\ \A j \in DOMAIN calls : j # i => calls'[j] = calls[j]
  BY <1>5, Zenon
<1> QED
  BY <1>4, <1>6, ServedStays, Zenon

(* A call gets an answer.                                                   *)
LEMMA AnswerServed ==
  ASSUME CallsOK, CallsServed, config' = config, NEW i \in DOMAIN calls, NEW a,
         Answered(calls[i].req, a),
         calls' = [calls EXCEPT ![i].status = "answered", ![i].answer = a]
  PROVE  CallsServed'
<1>1. PICK o : o = calls[i] /\ CallOK(o) /\ CallServed(o)
  BY Zenon DEF CallsOK, CallsServed
<1>2. PICK c : c = [o EXCEPT !.status = "answered", !.answer = a]
  OBVIOUS
<1>3. c.req = o.req /\ c.answer = a
  BY <1>1, <1>2 DEF CallOK
<1>4. CallServed(c)
  BY <1>1, <1>3, Zenon DEF CallServed
<1>5. calls' = [calls EXCEPT ![i] = c]
  BY <1>1, <1>2
<1>6. /\ DOMAIN calls' = DOMAIN calls /\ calls'[i] = c
      /\ \A j \in DOMAIN calls : j # i => calls'[j] = calls[j]
  BY <1>5, Zenon
<1> QED
  BY <1>4, <1>6, ServedStays, Zenon

(* The answer to a request other than a run has no module arguments.        *)
LEMMA PlainAnswered ==
  ASSUME NEW req, req.rpc # "run", NEW a, a.moduleArgs = <<>>
  PROVE  Answered(req, a)
  BY Zenon DEF Answered

(* The Run handler hands the modules what ModuleArgs makes of the request.  *)
LEMMA RunServed ==
  ASSUME CallsOK, CallsServed, config' = config, NEW i \in DOMAIN calls, NEW id,
         Run(i, calls[i].req, id)
  PROVE  CallsServed'
<1>1. PICK req : req = calls[i].req
  OBVIOUS
<1> DEFINE cmd == config.devs[req.device][req.command]
           runs == /\ FindCmd(config.devs, req.device, req.command) = ""
                   /\ ~HeldByOther(req.device, id.user)
                   /\ ModuleArgsError(cmd, req.args) = ""
<1>2. \/ calls' = [calls EXCEPT ![i].status = "answered"]
      \/ /\ runs
         /\ \E ok \in BOOLEAN, said \in 0..2 :
              calls' = [calls EXCEPT ![i].status = "answered",
                          ![i].answer = [Answer(ok) EXCEPT
                            !.moduleArgs = ModuleArgs(cmd, req.args), !.said = said]]
  BY <1>1, Zenon DEF Run
<1>3. CASE calls' = [calls EXCEPT ![i].status = "answered"]
  BY <1>3, StatusServed, Zenon
<1>4. ASSUME runs, NEW ok \in BOOLEAN, NEW said \in 0..2,
             calls' = [calls EXCEPT ![i].status = "answered",
                          ![i].answer = [Answer(ok) EXCEPT
                            !.moduleArgs = ModuleArgs(cmd, req.args), !.said = said]]
      PROVE  CallsServed'
  <2>1. PICK m : m = ModuleArgs(cmd, req.args)
    OBVIOUS
  <2>2. PICK a : a = [Answer(ok) EXCEPT !.moduleArgs = m, !.said = said]
    OBVIOUS
  <2>3. a.moduleArgs = m
    BY <2>2 DEF Answer
  <2>4. Answered(req, a)
    BY <1>4, <2>1, <2>3, Zenon DEF Answered, Ran
  <2>5. calls' = [calls EXCEPT ![i].status = "answered", ![i].answer = a]
    BY <1>4, <2>1, <2>2, Zenon
  <2> QED
    BY <1>1, <2>4, <2>5, AnswerServed, Zenon
<1> QED
  BY <1>2, <1>3, <1>4, Zenon

(* The agent handles a request.                                             *)
LEMMA HandleServed ==
  ASSUME CallsOK, CallsServed, NEW i \in DOMAIN calls, handle(i)
  PROVE  CallsServed'
<1>1. calls[i].status = "inflight" /\ UNCHANGED <<setup, config, foreign, clientVars>>
  BY DEF handle
<1>a. config' = config
  BY <1>1
<1>2. PICK req : req = calls[i].req
  OBVIOUS
<1>b. req.rpc \in Rpcs
  BY <1>1, <1>2 DEF CallsOK, CallOK
<1>3. PICK id : id = identify(Default(setup.user, i), i)
  OBVIOUS
<1>4. CASE ~enforce(setup.agent, setup.client)
  <2>1. calls' = [calls EXCEPT ![i].status = "rejected"]
    BY <1>4 DEF handle
  <2> QED
    BY <1>a, <2>1, StatusServed, Zenon
<1>5. CASE enforce(setup.agent, setup.client)
  <2>1. CASE req.rpc = "lock"
    <3>1. Lock(i, req, id)
      BY <1>2, <1>3, <1>5, <2>1 DEF handle
    <3>2. \/ calls' = [calls EXCEPT ![i].status = "answered"]
          \/ \E left \in LeftOf(req.device) :
               calls' = [calls EXCEPT ![i].status = "answered",
                           ![i].answer = [Answer(TRUE) EXCEPT
                             !.granted = locks'[req.device].left, !.fresh = left = 0]]
      BY <3>1 DEF Lock
    <3>3. ASSUME NEW left \in LeftOf(req.device),
                 calls' = [calls EXCEPT ![i].status = "answered",
                             ![i].answer = [Answer(TRUE) EXCEPT
                               !.granted = locks'[req.device].left, !.fresh = left = 0]]
          PROVE  CallsServed'
      <4>0. PICK g, f : g = locks'[req.device].left /\ f = (left = 0)
        OBVIOUS
      <4>1. PICK a : a = [Answer(TRUE) EXCEPT !.granted = g, !.fresh = f]
        OBVIOUS
      <4>2. req.rpc # "run" /\ a.moduleArgs = <<>>
        BY <2>1, <4>1 DEF Answer
      <4>3. Answered(calls[i].req, a)
        BY <1>2, <4>2, PlainAnswered, Zenon
      <4>4. calls' = [calls EXCEPT ![i].status = "answered", ![i].answer = a]
        BY <3>3, <4>0, <4>1, Zenon
      <4> QED
        BY <1>a, <4>3, <4>4, AnswerServed, Zenon
    <3>4. CASE calls' = [calls EXCEPT ![i].status = "answered"]
      BY <1>a, <3>4, StatusServed, Zenon
    <3> QED
      BY <3>2, <3>3, <3>4, Zenon
  <2>2. CASE req.rpc = "run"
    <3>1. Run(i, req, id)
      BY <1>2, <1>3, <1>5, <2>2 DEF handle
    <3> QED
      BY <1>a, <1>2, <3>1, RunServed, Zenon
  <2>3. CASE req.rpc \notin {"lock", "run"}
    <3>1. Unlock(i, req, id) \/ Lookup(i, req)
      BY <1>2, <1>3, <1>5, <1>b, <2>3 DEF handle, Rpcs
    <3>2. \E ok : calls' = [calls EXCEPT ![i].status = "answered", ![i].answer = Answer(ok)]
      BY <3>1, Zenon DEF Unlock, Lookup
    <3>3. PICK ok : calls' = [calls EXCEPT ![i].status = "answered", ![i].answer = Answer(ok)]
      BY <3>2, Zenon
    <3>4. PICK a : a = Answer(ok)
      OBVIOUS
    <3>5. req.rpc # "run" /\ a.moduleArgs = <<>>
      BY <2>3, <3>4 DEF Answer
    <3>6. Answered(calls[i].req, a)
      BY <1>2, <3>5, PlainAnswered, Zenon
    <3>7. calls' = [calls EXCEPT ![i].status = "answered", ![i].answer = a]
      BY <3>3, <3>4, Zenon
    <3> QED
      BY <1>a, <3>6, <3>7, AnswerServed, Zenon
  <2> QED
    BY <2>1, <2>2, <2>3
<1> QED
  BY <1>4, <1>5

(* The configuration is loaded once, and the document stays.                *)
LEMMA LoadStays ==
  ASSUME LoadOK, setup' = setup, config' = config, pc # "load", pc' # "load",
         pc' = "refused" => pc = "refused"
  PROVE  LoadOK'
  BY Zenon DEF LoadOK

(* Calls and configuration stay.                                            *)
LEMMA CallsStay ==
  ASSUME CallsServed, config' = config, calls' = calls
  PROVE  CallsServed'
  BY Zenon DEF CallsServed, CallServed, Answered, Ran

(* The load is the first step.                                              *)
LEMMA LoadServed ==
  ASSUME ServedIInv, loadConfig
  PROVE  ServedIInv'
<1>1. /\ pc = "load" /\ config' = UnmarshalYAML(setup.doc) /\ setup' = setup /\ calls' = calls
      /\ pc' = IF config'.ok THEN "shell" ELSE "refused"
  BY DEF loadConfig
<1>2. pc' # "load" /\ (pc' = "refused" => ~config'.ok)
  <2>1. CASE config'.ok
    <3>1. pc' = "shell"
      BY <1>1, <2>1, Zenon
    <3> QED
      BY <3>1
  <2>2. CASE ~config'.ok
    <3>1. pc' = "refused"
      BY <1>1, <2>2, Zenon
    <3> QED
      BY <2>2, <3>1
  <2> QED
    BY <2>1, <2>2
<1>3. calls' = <<>>
  BY <1>1, Zenon DEF ServedIInv, LoadOK
<1>4. DOMAIN <<>> = {}
  OBVIOUS
<1>5. CallsServed'
  BY <1>3, <1>4, Zenon DEF CallsServed
<1>6. LoadOK'
  BY <1>1, <1>2, Zenon DEF LoadOK
<1> QED
  BY <1>5, <1>6 DEF ServedIInv

(* A new invocation has sent nothing.                                       *)
LEMMA InvokeServed ==
  ASSUME CallsOK, ServedIInv, NEW a, invoke(a)
  PROVE  ServedIInv'
<1>0. PICK n : n = [req |-> NoRpc(""), status |-> "unsent", answer |-> Unhandled]
  OBVIOUS
<1>1. /\ setup' = setup /\ config' = config /\ pc = "shell" /\ pc' = "start"
      /\ calls' = Append(calls, n)
  BY <1>0 DEF invoke, agentVars
<1>2. LoadOK'
  BY <1>1, LoadStays DEF ServedIInv
<1>3. n.req.args = <<>> /\ n.answer.moduleArgs = <<>> /\ n.req.rpc # "run"
  BY <1>0 DEF NoRpc, Rpc, Unhandled, Answer
<1>4. \A S : <<>> \in Seq(S)
  OBVIOUS
<1>5. CallServed(n)
  BY <1>3, <1>4, SilentServed, Zenon
<1>6. PICK R : R = Range(calls) /\ calls \in Seq(R)
  BY DEF CallsOK
<1>7. PICK k \in Nat : k = Len(calls) /\ DOMAIN calls = 1..k
  BY <1>6, SeqShape, Zenon
<1>8. /\ DOMAIN calls' = 1..(k + 1) /\ calls'[k + 1] = n
      /\ \A j \in 1..k : calls'[j] = calls[j]
  <2>1. PICK Q : Q = R \cup {n}
    OBVIOUS
  <2>2. calls \in Seq(Q) /\ n \in Q
    BY <1>6, <2>1
  <2>3. calls' = Append(calls, n)
    BY <1>1
  <2> QED
    BY <1>7, <2>2, <2>3
<1>9. \A i \in 1..(k + 1) : i \in 1..k \/ i = k + 1
  OBVIOUS
<1>10. CallsServed'
  <2>1. CallsServed /\ config' = config
    BY <1>1 DEF ServedIInv
  <2>2. \A i \in DOMAIN calls' :
          (i \in DOMAIN calls /\ calls'[i] = calls[i]) \/ CallServed(calls'[i])
    BY <1>5, <1>7, <1>8, <1>9, Zenon
  <2> QED
    BY <2>1, <2>2, ServedStays, Zenon
<1> QED
  BY <1>2, <1>10 DEF ServedIInv

(* The request of a command line is sent.                                   *)
LEMMA DispatchServed ==
  ASSUME RequestIInv, ServedIInv, dispatch
  PROVE  ServedIInv'
<1>0. PICK req : req = route(args)
  OBVIOUS
<1>1. /\ pc = "start" /\ setup' = setup /\ config' = config
      /\ pc' \in {"returned", "waiting"}
      /\ \/ calls' = calls
         \/ calls' = [calls EXCEPT ![Len(calls)].req = req, ![Len(calls)].status = "inflight"]
  BY <1>0 DEF dispatch, agentVars
<1>2. LoadOK'
  BY <1>1, LoadStays DEF ServedIInv
<1>3. CallsServed /\ CallsOK
  BY DEF ServedIInv, RequestIInv
<1>4. CASE calls' = calls
  BY <1>1, <1>2, <1>3, <1>4, CallsStay DEF ServedIInv
<1>5. CASE calls' = [calls EXCEPT ![Len(calls)].req = req, ![Len(calls)].status = "inflight"]
  <2>1. calls # <<>> /\ last.status = "unsent" /\ args \in Seq(Seq(Token))
    BY <1>1 DEF RequestIInv, ClientOK, ClientTypes
  <2>2. Len(calls) \in DOMAIN calls
    BY <1>3, <2>1, LastCall DEF CallsOK
  <2>3. PICK i \in DOMAIN calls : i = Len(calls)
    BY <2>2, Zenon
  <2>4. PICK o : o = calls[i] /\ CallOK(o) /\ o.status = "unsent"
    BY <1>3, <2>1, <2>3, Zenon DEF CallsOK, last
  <2>5. PICK c : c = [o EXCEPT !.req = req, !.status = "inflight"]
    OBVIOUS
  <2>6. c.req = req /\ c.answer = o.answer
    BY <2>4, <2>5 DEF CallOK
  <2>7. o.answer = Unhandled
    BY <2>4 DEF CallOK
  <2>8. c.answer.moduleArgs = <<>> /\ c.answer.ok = FALSE
    BY <2>6, <2>7 DEF Unhandled, Answer
  <2>9. c.req.args \in Seq(Seq(Token))
    BY <1>0, <2>1, <2>6, RoutedArgs, Zenon
  <2>10. CallServed(c)
    BY <2>8, <2>9, SilentServed
  <2>11. calls' = [calls EXCEPT ![i] = c]
    BY <1>5, <2>3, <2>4, <2>5
  <2>12. \A j \in DOMAIN calls' :
           (j \in DOMAIN calls /\ calls'[j] = calls[j]) \/ CallServed(calls'[j])
    BY <2>10, <2>11, Zenon
  <2>13. CallsServed'
    BY <1>1, <1>3, <2>12, ServedStays, Zenon
  <2> QED
    BY <1>2, <2>13 DEF ServedIInv
<1> QED
  BY <1>1, <1>4, <1>5

(* Steps that leave the agent's configuration and the calls alone.          *)
LEMMA OtherServed ==
  ASSUME ServedIInv, start \/ signal \/ returns \/ unaryTimeout \/ cancelled \/ exit \/ again
  PROVE  ServedIInv'
<1>1. /\ setup' = setup /\ config' = config /\ calls' = calls
      /\ pc # "load" /\ pc' # "load" /\ pc' # "refused"
  BY DEF start, signal, returns, unaryTimeout, cancelled, exit, again, agentVars
<1>2. LoadOK'
  BY <1>1, LoadStays DEF ServedIInv
<1>3. CallsServed'
  BY <1>1, CallsStay DEF ServedIInv
<1> QED
  BY <1>2, <1>3 DEF ServedIInv

(* Nothing of it changes: somebody else's lock, a lock that runs out.       *)
LEMMA FrozenServed ==
  ASSUME ServedIInv, setup' = setup, config' = config, calls' = calls, pc' = pc
  PROVE  ServedIInv'
<1>1. CallsServed'
  BY CallsStay DEF ServedIInv
<1>2. LoadOK'
  BY Zenon DEF ServedIInv, LoadOK
<1> QED
  BY <1>1, <1>2 DEF ServedIInv

(* The second invariant holds initially, and every step keeps it.           *)
LEMMA ServedInitOK ==
  ASSUME RequestInit
  PROVE  ServedIInv
<1>1. pc = "load" /\ config = ConfigError("", "", "") /\ calls = <<>>
  BY DEF RequestInit
<1>a. DOMAIN <<>> = {}
  OBVIOUS
<1>b. pc # "refused"
  BY <1>1
<1>2. DOMAIN <<>> = {} /\ pc # "refused"
  BY <1>a, <1>b
<1>3. LoadOK
  BY <1>1, <1>2, Zenon DEF LoadOK
<1>4. CallsServed
  BY <1>1, <1>2, Zenon DEF CallsServed
<1> QED
  BY <1>3, <1>4 DEF ServedIInv

LEMMA ServedStep ==
  ASSUME RequestIInv, ServedIInv, [RequestNext]_vars
  PROVE  ServedIInv'
<1>0. CallsOK
  BY DEF RequestIInv
<1>1. CASE \E a \in setup.lines : invoke(a)
  BY <1>0, <1>1, InvokeServed, Zenon
<1>2. CASE loadConfig
  BY <1>2, LoadServed
<1>3. CASE dispatch
  BY <1>3, DispatchServed
<1>4. CASE start \/ signal \/ returns \/ unaryTimeout \/ cancelled \/ exit \/ again
  BY <1>4, OtherServed
<1>5. CASE unreachable
  <2>1. /\ setup' = setup /\ config' = config /\ pc = "waiting" /\ pc' = "returned"
        /\ calls' = [calls EXCEPT ![Len(calls)].status = "lost"]
    BY <1>5 DEF unreachable, agentVars
  <2>2. Len(calls) \in DOMAIN calls
    BY <1>0, <2>1, LastCall DEF CallsOK, RequestIInv, ClientOK
  <2>3. CallsServed'
    BY <1>0, <2>1, <2>2, StatusServed, Zenon DEF ServedIInv
  <2>4. LoadOK'
    BY <2>1, LoadStays DEF ServedIInv
  <2> QED
    BY <2>3, <2>4 DEF ServedIInv
<1>6. CASE \E i \in DOMAIN calls : handle(i)
  <2>1. PICK i \in DOMAIN calls : handle(i)
    BY <1>6
  <2>2. setup' = setup /\ config' = config /\ pc' = pc
    BY <2>1 DEF handle, clientVars
  <2>3. CallsServed'
    BY <1>0, <2>1, HandleServed, Zenon DEF ServedIInv
  <2>4. DOMAIN <<>> = {}
    OBVIOUS
  <2>5. pc # "load"
    BY <2>4, Zenon DEF ServedIInv, LoadOK
  <2>6. LoadOK'
    BY <2>2, <2>5, LoadStays, Zenon DEF ServedIInv
  <2> QED
    BY <2>3, <2>6 DEF ServedIInv
<1>7. CASE \E d \in DOMAIN config.devs, s \in setup.seconds : bobLocks(d, s)
  <2>1. setup' = setup /\ config' = config /\ calls' = calls /\ pc' = pc
    BY <1>7 DEF bobLocks, clientVars
  <2> QED
    BY <2>1, FrozenServed
<1>8. CASE \E d \in DOMAIN locks : expires(d)
  <2>1. setup' = setup /\ config' = config /\ calls' = calls /\ pc' = pc
    BY <1>8 DEF expires, clientVars
  <2> QED
    BY <2>1, FrozenServed
<1>9. CASE UNCHANGED vars
  <2>1. setup' = setup /\ config' = config /\ calls' = calls /\ pc' = pc
    BY <1>9 DEF vars, agentVars, clientVars
  <2> QED
    BY <2>1, FrozenServed
<1> QED
  BY <1>1, <1>2, <1>3, <1>4, <1>5, <1>6, <1>7, <1>8, <1>9, Zenon
  DEF RequestNext, ClientStep, Finished

(* Every state satisfies the second invariant too.                          *)
THEOREM ServedInvariant == RequestSpec => []ServedIInv
<1>1. RequestInit => ServedIInv
  BY ServedInitOK
<1>2. RequestIInv /\ ServedIInv /\ [RequestNext]_vars => ServedIInv'
  BY ServedStep
<1> QED
  BY <1>1, <1>2, RequestInvariant, PTL DEF RequestSpec

(* The error of a refused configuration names the first fault, where it is  *)
(* (Devlist, Device and decodeCmds annotate it on its way up).              *)
THEOREM ErrorLocatedAlways == RequestSpec => []ErrorLocated
<1>1. RequestIInv /\ ServedIInv => ErrorLocated
  BY FaultLocated DEF RequestIInv, ServedIInv, ClientOK, ClientTypes
<1> QED
  BY <1>1, RequestInvariant, ServedInvariant, PTL

(* The command a call ran has modules, and was accepted by the load.        *)
LEMMA RanAccepted ==
  ASSUME setup \in Setups, LoadOK, NEW req, NEW m, Ran(req, m)
  PROVE  Accepted(config.devs[req.device][req.command])
<1>1. PICK d, c : d = req.device /\ c = req.command
  OBVIOUS
<1>2. d \in DOMAIN config.devs /\ c \in DOMAIN config.devs[d] /\ config.devs[d][c].uses # <<>>
  <2>0. FindCmd(config.devs, d, c) = ""
    BY <1>1, Zenon DEF Ran
  <2>1. ASSUME d \notin DOMAIN config.devs PROVE FALSE
    <3>1. FindCmd(config.devs, d, c) = "no such device"
      BY <2>1, Zenon DEF FindCmd, Find
    <3> QED
      BY <2>0, <3>1
  <2>2. ASSUME d \in DOMAIN config.devs, c \notin DOMAIN config.devs[d] PROVE FALSE
    <3>1. FindCmd(config.devs, d, c) = "no such command"
      BY <2>2, Zenon DEF FindCmd, Find
    <3> QED
      BY <2>0, <3>1
  <2>3. ASSUME d \in DOMAIN config.devs, c \in DOMAIN config.devs[d], config.devs[d][c].uses = <<>>
        PROVE  FALSE
    <3>a. ~(countPassthrough(config.devs[d][c]) > 1)
      BY <2>3, NoneCounted, Zenon
    <3>1. FindCmd(config.devs, d, c) = "no modules"
      BY <2>3, <3>a, Zenon DEF FindCmd, Find
    <3> QED
      BY <2>0, <3>1
  <2> QED
    BY <2>1, <2>2, <2>3, Zenon
<1>3. ServedOK(d)
  BY <1>2, Served, Zenon
<1>4. config.devs[d][c] \in CommandNode /\ commandError(config.devs[d][c]) = ""
  BY <1>2, <1>3, Zenon DEF ServedOK
<1>5. ~config.devs[d][c].null
  BY <1>2, <1>4, CommandShape, Zenon
<1> QED
  BY <1>1, <1>4, <1>5, Zenon DEF Accepted

(* A call that ran something has handed it to the modules.                  *)
LEMMA RanSomething ==
  ASSUME NEW cmd, Accepted(cmd), NEW given
  PROVE  ModuleArgs(cmd, given) # <<>>
<1>1. cmd.uses \in Seq(ModuleNode) /\ cmd.uses # <<>>
  BY CommandShape, CommandAccepted, Zenon DEF Accepted
<1>2. PICK k \in Nat : k = Len(cmd.uses) /\ DOMAIN cmd.uses = 1..k
  BY <1>1, SeqShape, Zenon
<1>3. k # 0
  BY <1>1, <1>2, EmptySeq, Zenon
<1>4. 1 \in DOMAIN cmd.uses
  BY <1>2, <1>3, FirstPlace, Zenon
<1>5. DOMAIN ModuleArgs(cmd, given) = DOMAIN cmd.uses
  BY Zenon DEF ModuleArgs
<1>6. DOMAIN <<>> = {}
  OBVIOUS
<1> QED
  BY <1>4, <1>5, <1>6, Zenon

(* What the load accepts is of use: every device can be addressed, and every *)
(* command with a value can be addressed, unless it is behind an alias,     *)
(* resolves its arguments and has a module to run; a command without a      *)
(* value is accepted and then refused by every lookup (package keyword      *)
(* against route, validateTemplateReferences against ModuleArgs, FindCmd).  *)
THEOREM AcceptedIsUsableAlways == RequestSpec => []AcceptedIsUsable
<1>1. ASSUME RequestIInv, ServedIInv PROVE AcceptedIsUsable
  <2>1. setup \in Setups /\ LoadOK /\ CallsServed
    BY <1>1 DEF RequestIInv, ServedIInv, ClientOK, ClientTypes
  <2>2. \A d \in DOMAIN config.devs : ServedOK(d)
    BY <2>1, Served, Zenon
  <2>3. Reachable /\ AcceptedRuns
    BY <2>2, ServedReachable, ServedRuns, Zenon
  <2>4. RunsSomething
    <3>1. SUFFICES ASSUME NEW i \in DOMAIN calls, calls[i].req.rpc = "run", calls[i].answer.ok
                   PROVE  calls[i].answer.moduleArgs # <<>>
      BY Zenon DEF RunsSomething
    <3>2. PICK req, m : req = calls[i].req /\ m = calls[i].answer.moduleArgs
      OBVIOUS
    <3>3. Ran(req, m)
      BY <2>1, <3>1, <3>2, Zenon DEF CallsServed, CallServed, Answered
    <3>4. Accepted(config.devs[req.device][req.command])
      BY <2>1, <3>3, RanAccepted, Zenon
    <3>5. m = ModuleArgs(config.devs[req.device][req.command], req.args)
      BY <3>3, Zenon DEF Ran
    <3> QED
      BY <3>2, <3>4, <3>5, RanSomething, Zenon
  <2> QED
    BY <2>3, <2>4 DEF AcceptedIsUsable
<1> QED
  BY <1>1, RequestInvariant, ServedInvariant, PTL

(* What was typed after the command reaches the modules as it was typed,    *)
(* and only where the configuration refers to it (Command.ModuleArgs and    *)
(* SubstituteArgs).                                                         *)
THEOREM ArgsDeliveredAlways == RequestSpec => []ArgsDelivered
<1>1. ASSUME RequestIInv, ServedIInv PROVE ArgsDelivered
  <2>1. setup \in Setups /\ LoadOK /\ CallsServed
    BY <1>1 DEF RequestIInv, ServedIInv, ClientOK, ClientTypes
  <2>2. ASSUME NEW i \in DOMAIN calls, calls[i].answer.moduleArgs # <<>>
        PROVE  Delivered(config.devs[calls[i].req.device][calls[i].req.command],
                         calls[i].req.args, calls[i].answer.moduleArgs)
    <3>1. PICK req, m : req = calls[i].req /\ m = calls[i].answer.moduleArgs
      OBVIOUS
    <3>2. Ran(req, m) /\ req.args \in Seq(Seq(Token))
      BY <2>1, <2>2, <3>1, Zenon DEF CallsServed, CallServed, Answered
    <3>3. PICK cmd : cmd = config.devs[req.device][req.command]
      OBVIOUS
    <3>4. Accepted(cmd)
      BY <2>1, <3>2, <3>3, RanAccepted, Zenon
    <3>5. ModuleArgsError(cmd, req.args) = "" /\ m = ModuleArgs(cmd, req.args)
      BY <3>2, <3>3, Zenon DEF Ran
    <3>6. Delivered(cmd, req.args, m)
      BY <3>2, <3>4, <3>5, ModuleArgsDelivers, Zenon
    <3> QED
      BY <3>1, <3>3, <3>6, Zenon
  <2> QED
    BY <2>2, Zenon DEF ArgsDelivered, Delivered, Replaced, Ends, IsEnd, PartOf, LastOf
<1> QED
  BY <1>1, RequestInvariant, ServedInvariant, PTL
=============================================================================
