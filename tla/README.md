# dutctl: TLA+ models of agent, client, relay and modules

dutctl lets users run commands on devices under test. `dutagent` runs next to
the devices, keeps a lock table, and executes the modules a command consists
of; `dutctl` is the client, which streams console input, output and files over
a bidirectional RPC; `dutserver` (experimental) relays requests to agents.

This directory models all of them: who may use a device when; what a run does
from the command line to its last goroutine, directly and over the relay; how
an agent starts, registers and stops; what the modules do to the hardware; and
what the configuration and the command line mean.

## Inventory

| Component | State | Operations | Interaction | Modelled in |
|---|---|---|---|---|
| lock table (`internal/dutagent/locker`) | two slots per device: reservation (expires) and busy hold (does not) | `Lock`, `ClearLock`, `ForceClearLock`, `AutoLock`, `ClearAutoLock`, `CheckAccess`, `StatusAll` | called by all request handlers, one mutex | `Locker`, `DeviceLease` |
| RPC service (`cmds/dutagent/rpc.go`) | none of its own | `List`, `Lock`, `Unlock`, `Run`; `Commands` and `Details` only read the configuration | one goroutine per request, uses the lock table | `Agent`, `Request` |
| Run FSM and module goroutine (`cmds/dutagent/states.go`, `internal/fsm`) | `runCmdArgs`, `autoLockHold`, two channels | the six states, `runModule` | handler, module goroutine and session meet on `moduleErrCh`, `brokerErrCh` and two contexts | `Agent` |
| session (`internal/dutagent/session`) | unbuffered channels, `currentFile`, `errCh`, `done` | `Print*`, `Console`, `RequestFile`, `SendFile`, both workers, the receiving goroutine | module and client | `Session` |
| channel adapters (`internal/chanio`) | rest of the last chunk | `Read`, `Write` | module and session | partly, in `Session` |
| client run (`cmds/dutctl/rpc.go`) | two goroutines, `errChan`, a run context | receive and send routines | agent or relay | `Client`, `Relay` |
| client command line (`cmds/dutctl`) | warning buffer, exit code | routing, five unary calls with a deadline, `run`, signals | agent | `Request` |
| agent lifecycle (`cmds/dutagent/dutagent.go`, `lifecycle.go`, `internal/rpc/server.go`) | initialised modules, server | init, register, serve, drain, deinit, exit | modules, dutserver | `Lifecycle` |
| dutserver (`cmds/exp/dutserver`) | registry of agents | `Register`, `List`, forwarding of `Commands` and `Details`, `Run` relay with two goroutines | client and agent | `Registry`, `Relay`, `Lifecycle` |
| configuration (`pkg/dut`, `internal/keyword`) | device list, read-only after load | load with error locations, `FindCmd`, argument substitution | FSM, command line | `Config`, `Request` |
| identity, version (`internal/rpc`, `internal/auth`, `internal/compat`) | whether drift was told | version comparison, enforcement, advice, caller names | both ends | `Versions`, `Request`, `Agent` |
| serial (`pkg/module/serial`) | match buffer, carried escape remainder, cursor | script of send, expect, delay; monitor; drain | port, session | `SerialText`, `Serial` |
| gpio (`pkg/module/gpio`) | pin, remembered switch state | button press, hold, toggle; switch on, off, toggle | pin | `Gpio` |
| pdu, wifisocket | none that outlives a Run | on, off, toggle, status at two PDU vendors and one socket | HTTP devices | `Power` |
| ipmi | session to the BMC | power commands with one reconnect and retry, resent by the client | BMC | `Ipmi` |
| shell, process helper (`internal/procexec`) | process group | start, cancel signal, wait delay | operating system | `Exec` |
| flash, flash-emulate | `./image`, temporary file | read, write, emulate | tools, session | `Flash` |
| file | paths | upload, download | session, file system | `File` |
| ssh, time | connection | command, cancellation watcher; wait | server | `Remote` |
| module contract (`pkg/module`) | initialised, running | `Init`, `Run`, `Deinit`, cancellation | agent | `ModuleRun` |
| output, logging, style, build information, agent-status and dummy modules, generated code | none a property is about | formatting | | no |

Hard behaviours: the lock table is consulted in several steps of a run, with
other requests, expiries and forced unlocks between them; a run ends in many
ways and its goroutines end at different times; session, client and relay are
goroutines that meet on unbuffered channels or share a stream, and either end
may close or disconnect anywhere; agents and the server start, register, stop
and crash independently, with requests that time out at one end and are carried
out at the other; a shutdown overtakes requests; serial output is cut anywhere,
in the middle of an escape sequence or of a match too; hardware acts on requests
whose answers are lost; a Run is cancelled at any step; Runs of one module
instance overlap, and Deinit comes under a Run. `PROJECT.json` lists the
main hazards, at their lines, with the properties that would catch each.

What makes a component correct:

* lock table: a device has one owner; a reservation is neither given away nor
  cut short; a device passes between owners only when it is free;
* runs: a busy hold always has a run that will release it, and only that
  owner's runs or a forced unlock release it; a run that reports success did
  succeed; every run ends if its modules do, and a cancelled one in any case;
* session: accepted output is sent once and in order; a requested file is the
  one that arrives; nothing stays blocked once the session is cancelled;
* client and relay: what is reported is what happened; when one end goes, the
  others learn of it and no goroutine stays behind;
* lifecycle and registry: whatever was initialised is undone, after the drain;
  a registration is whole, the first one wins, and an agent that serves can be
  reached;
* serial: the client sees what a terminal would show; a match is neither
  invented nor missed; a script ends in time;
* other modules: what a Run reports is true of the hardware, a cancelled Run
  ends and leaves nothing behind, and a command is not repeated without need;
* configuration and command line: what the load accepts can be addressed and
  run with what was typed; messages and exit codes are true.

## Modules

### `Locker`: the lock table

`reserved[d]` and `busy[d]` are the two maps of the Go type, a missing entry is
`NoHold`. Every method holds the mutex from start to end and is one action,
split by outcome (`Lock`, `LockDenied`, `LockInvalid`) so that callers can tell
the outcomes apart. An expired reservation is pruned when it is looked up, as in
`liveReservation`, never on its own. `Lock` reads the clock three times: for the
access check, for the start of the new hold and for the second lookup;
`Readings` are all the values the later two may have. Time 0 is Go's zero time.

### `DeviceLease`: what users are promised

The abstract specification: a device belongs to one owner or to nobody, and an
owner is replaced only through a state in which it is free. Several leases may
end at once, because the clock is shared. `Locker` implements it under the
mapping `holder`: the owner of the hold `StatusAll` reports. So does `Agent`,
with its concurrent runs.

### `Agent`: requests and runs

Extends `Locker`. For each run the handler (`pc`), the module goroutine (`mpc`)
and the two channels the handler waits for. `fsm.Run` looks at the context
before each state, so a state starts only while the request is not cancelled;
`runCancelled` is every place where the cancellation is seen. `checkDeviceAccess`
and `acquireAutoLock` are separate steps. The session is two actions here,
`brokerFails` and `brokerCloses`; `Session` has the rest. `statePanics` unwinds
from any state to the deferred release; module panics become errors.
`SameUserOverlap` and `ForcedUnlock` restrict what the users do, for the
properties that hold only then.

### `Session`: a module and its client

An unbuffered channel is no state: a send is one joint step of the sender and
of a receiver parked on the channel (`printMeetsWorker`, `fileMeetsModule`,
...). `m`, `t`, `f` and `g` say where the module, `toClientWorker`,
`fromClientWorker` and its receiving goroutine are; `up` and `down` are the two
directions of the stream. Every access to `currentFile` is a step of its own,
because it has its own lock. `cancelled` is the workers' context: cancelled by
either worker when it ends, by the end of the modules, or with the request.
Calls of the module are made from one goroutine, as `module.Session` demands.
The client answers a file request with a file; it may send stdin, files nobody
asked for, close its side or disconnect. `IgnoredMessages` says whether it also
sends messages the agent only warns of. `Decoded` is what the wire format does
to an empty file.

### `Client` and `Relay`: a run seen from the other end

`Client` is `runRPC` of dutctl: the goroutine in `select` (`main`), the receive
routine (`rcv`), the send routine (`snd`), the channel of errors and the run
context. A stream is two queues and how the far end ended it. Both routines
call `Send` and nothing serialises them, so two sends that overlap arrive as
one garbled message. `raced` records that a `select` found both its cases ready.
`Relay` extends it with the agent's end and with the handler of dutserver:
`viaServer` says whether there is one leg or two, `fwdDown` and `fwdUp` are the
forwarding goroutines, `fault` is the first thing that broke. The agent answers
"canceled" only on a leg that is gone: `moduleError` would answer so for any
module error that wraps `context.Canceled`, but the modules of this repository
return one only when their request is cancelled, and a shutdown cancels none.

### `Registry` and `Lifecycle`: agents and dutserver over time

`Registry` is the map from devices to agents in dutserver, with registrations
that arrive late and a server that restarts empty. `Lifecycle` extends it with
the processes of the agents: `phase` follows `start()` from reading the
configuration over Init, registration, listening, serving and draining to
Deinit and exit, in each of the four modes the flags select. A request is a
handler, or a module goroutine whose handler has left (`detached`). Signals,
failures, panics, crashes and restarts may come in every phase.

### `SerialText` and `Serial`

`SerialText` has the text functions of the serial module as operators: finding
the end of an escape sequence, `clean` with its carried remainder, `capBuffer`.
`Terminal` and `Visible` are the reference, a recursive function over the whole
output: a terminal that reads one byte at a time (`Mode`) and never sees a cut. `Serial` is a Run: opening, the steps of the script, the
wait for a match, the monitor, the drain, with the device and the kernel buffer
(`wire`) as the environment. Regular expressions are literal texts.

### `ModuleRun` and the modules: `Gpio`, `Power`, `Ipmi`, `Exec`, `Flash`, `File`, `Remote`

`ModuleRun` is the contract: an instance is initialised, run, and
de-initialised, and a Run may be cancelled at any step. The instance belongs to
the command of a device, and its Runs may overlap: one user may run the command
twice at a time (`locker.go:278`), and a module that ignores the end of its
request goes on beside the next Run (`states.go:280`). So one Run is followed
step by step, and every other Run of the instance is what it can do, at any
moment, to the state they share (`OtherRun`, and in each module with shared
state the actions `other...`). Deinit may come under a Run, after the grace
period. `overlapped` records that something of this kind came between the steps
of a Run or after it.

Each module then adds its hardware and one action per step of its Run, guarded
by `kind`. Requests to hardware have three outcomes: done, not done, done but the
answer was lost.

* `Gpio`: other Runs press and release the button (`presses`), or drive the
  switch and record it in two steps (`pending`), as the Run itself does. Of two
  toggles of a pin at once one may be lost, and a state written by two Runs at
  once may be torn.
* `Power`: other users, and other Runs, switch the outlets (`meddle`).
* `Ipmi`: the client of the library sends a request up to `trials` times again
  (`WithRetry`) before `withReconnect` makes its second attempt. Another Run may
  open or close the shared session; without a client the call panics, which
  `runModule` turns into an error.
* `Exec`: the process group, a tool and its child; the signal a module chooses,
  the kill after the wait delay. Every Run has its own.
* `Flash`: `op`, `./image` and the chip are shared by the Runs of an instance,
  `./image` also with the flash modules of other devices (`neighbourWrites`).
  Of flash-emulate `localImagePath` is shared, and holds one file only.
* `File`: `sourcePath` and `destPath` are shared, and the destination may be. A
  name that begins with two dots is refused like `..` (`DotDotNames`). A Close or
  a removal that fails is ignored, as in the code (`ignored`).
* `Remote`: ssh and wait keep nothing between Runs.

`Devices` composes them: one instance at a time, of any kind and configuration in
`Instances`.

### `Config`, `Versions` and `Request`

`Config` loads a document (nested entries with a name and a value that may be
null or an alias) to devices and commands or to the first error with its place,
looks commands up and substitutes arguments; a word is a sequence of tokens, so
that a reference in a typed word can be told from one in the configuration.
`Versions` compares, refuses and advises. `Request` lets a shell call dutctl
several times against one agent with such a configuration: routing, the request
with its deadline, the agent's answer, signals at every step, warnings, exit
code. Requests whose client has given up may still be carried out. Lock durations
are in half seconds, so that a duration below one second exists, and are
computed in words of `WordBits` bits, as the 64 bits of `time.Duration`. The
seconds that are sent are the whole ones, as `int64(duration.Seconds())` for
durations a `float64` represents exactly enough.

### Proofs

`LockerProofs`, `AgentProofs`, `SessionProofs`, `RelayProofs`,
`LifecycleProofs`, `DevicesProofs`, `SerialProofs` and `RequestProofs` each
extend the module they are about. See "What is proved".

`MCLocker`, `MCAgent`, `MCSession`, `MCRelay`, `MCLifecycle`, `MCSerial`,
`MCDevices` and `MCRequest` are the modules TLC is run on. Definitions marked
"Mutant" are variants of the definition that follows them, with a plausible
mistake in them; nothing uses them. They exist to show that a property notices
the mistake. Several properties are conjunctions of named parts, each with a
comment of its own where it is defined.

## Runs

Passing:

| Run | Shows |
|---|---|
| `locker` | `SameOwner`, `ReservationKept`, and that the table implements `DeviceLease` |
| `agent` | `AgentTypeOK` (with the types of the lock table), `BusyHasRun` (no orphaned hold on any way out of a run), `OkIsHonest`, `RunsTakeOnlyTheirs` |
| `agent_exclusion` | with one run per user at a time and no forced unlock: `HandlerExclusion` (handlers and modules, except the module of a run that failed and did not wait for it), `BusyWhileExecuting` (handlers); `CancelledRunReturns`, with modules and sessions that may hang; `HeldIsReleased`, with ones that do not |
| `session` | `SessionInv` (accepted output arrives once and in order, and is given up only with a reason), `RightFile` |
| `session_teardown` | `SessionTearsDown`: workers, module and receiver are freed by a cancellation |
| `relay` | `RelayInv` (success and failure reported by the client are true), `EveryoneLearns` (of the end of the others) |
| `lifecycle` | `LifecycleInv` (drain, Deinit and exit code on every way out), `RegistryWhole`, `FirstWins`, `ServingIsReachable`, `SignalEnds` |
| `serial` | `SerialInv` (what the client sees, in bounded memory), `MatchesExact` (no match invented, none of a text that fits the window missed), `SentInOrder`, `EndsInTime` |
| `devices` | with other Runs of the same instance at any moment: `DevicesTypeOK`, `GpioTrue`, `PowerTrue`, `RetriedOnce` (a stale session heals; how often a command is carried out), `NothingLeft`, `TransferTrue`, `ChipWhole`, `CancelEnds` |
| `request` | `AcceptedIsUsable`, `ErrorLocated`, `ArgsDelivered`, `NoMajorMix`, `RequestInv` (warnings and exit codes), `LockAsAsked`, `DutctlReturns` |

Violated, each a disagreement between the code and what its comments say; the
quotes are in `PROJECT.json`:

| Run | What happens |
|---|---|
| `agent_overlap` | two runs of one user share one uncounted busy hold; the first to end frees the device under the other |
| `session_stdin_blocks` | stdin nobody reads keeps the requested file from the module for ever: `fromClientWorker` stays at the hand-over of stdin, the file with the receiving goroutine. The client sends nothing else here, and files that `toClientWorker` sends back are excepted |

`RightFile` speaks of sessions that are not cancelled: after a disconnect a
module that ignores the error of `RequestFile` and asks for another file may be
given the earlier one, which the worker still offers. It excepts modules that
have sent a file: a file of that name, sent unasked while `SendFile` had it
recorded, is let in and can reach a later `RequestFile`.

### Known deviations

Met while modelling; the models have them, and where a property would be false
because of one its comment names the exception.

Runs and sessions:

* A disconnect, a session error or a panic releases the busy hold while the
  module is still running. It may go on beside the command of the next user,
  and beside the next Run of the same module instance.
* `toClientWorker` may take an uploaded file from the shared `fileCh` and send
  it back to the client.
* The end of one transfer clears `currentFile` late, when it may name the next
  one; that file is then rejected, or a `SendFile` refused.
* An empty file is decoded to nil content and rejected as malformed.
* After the client closed its side the workers end without an error, so that
  later output is dropped in a run that goes on to succeed.
* In client and relay the clean end of a stream may win over an error that is
  ready at the same time; typing while a file is sent may garble both messages.

Lifecycle and relay:

* dutserver never forgets an agent, so a restarted agent is refused until the
  server restarts too; a restarted server knows nobody until they do.
* `List` of dutserver reads the registry without its lock. `Lock` and `Unlock`
  are not implemented there.
* Deinit may run under a module whose handler has left, or whose request the
  drain has given up on.

Modules:

* An expect after a send may match output that was sent before it and not read
  yet (the comment at `serial/engine.go:109` says otherwise). A text longer than
  the match window may match, up to a window and a chunk, if the reads fall so
  (`serial/engine.go:27` says it cannot).
* Overlapping Runs of one instance share its fields without a lock. A switch may
  report a state its pin does not have, until the next on or off by itself; a
  lost toggle leaves a button pressed. An IPMI Run may find its session closed. A
  flash Run may write the other's image, or read where it should write; a file
  Run may use the other's paths. flash-emulate forgets one of two temporary
  files.
* An IPMI command whose answers are lost is carried out again by the resends of
  the client and by the retry on a new session, up to eight times; `cycle` is not
  idempotent.
* Errors of removing a temporary file or a partial upload, and of closing an
  uploaded file, are ignored: either may stay, and an upload reported as a
  success may be incomplete.
* The handshake of ssh cannot be cancelled. All flash modules of an agent share
  `./image`. Deinit of gpio drives the pin low, which presses an active-low
  button.

Configuration and command line:

* A command whose value is null is accepted at load and refused at run time
  (`pkg/dut/dut.go:79` says validation rejects it, and `findDUTCmd` calls it
  unreachable); `devices:` without a value is accepted.
* `cmds: *alias` bypasses the check of reserved names, and errors behind it lose
  the command's name. Of duplicate keys and duplicate argument names the last
  wins. Declared arguments nobody references are dropped. A first argument
  `help` never reaches a module.
* A lock for less than a second becomes one of the default 30 minutes;
  `LockAsAsked` says so.
* A client without `USER` makes up a name the agent takes for a real one; the
  lock it then takes cannot be released from the next invocation, which
  `LockAsAsked` says too.
* A run without output never reports a version drift.

### Bounds

* `locker`: two devices, so that leases may end together; two owners; durations
  0 (refused), 1 and 2, so that a shorter lock follows a longer one; a clock to
  4, in which a reservation expires and is taken again.
* `agent`: two runs, the least that interfere, are interchangeable (symmetry);
  a named and an anonymous user; one device, since runs on different devices
  share nothing but the clock; one module, since a module that follows another
  repeats its steps; a clock to 2, in which a reservation expires during a run.
  `agent_exclusion` has two named users and the same clock, and no symmetry,
  which TLC cannot use with liveness: `OrderedFairSpec` takes the runs in the
  order of their arrival instead, and the first of two users who are alike is
  always the same one.
* `session`: two calls of any kind, one stdin message and one unasked file;
  two interchangeable file names (symmetry), so that a wrong file can be told
  from the right one; `session_teardown` one call, since one goroutine parks on
  one channel at a time. The client sends ignored messages too, except in
  `session_stdin_blocks`.
* `relay`: one message typed and one response besides the end, so that every
  pair of routines meets with every goroutine parked anywhere.
* `lifecycle`: two agents with one device in common, one of them with a device
  of its own and with two modules, so that one fails after another; two starts
  in all and two lives of the server, so that each is restarted under the
  other.
* `serial`: reads of two bytes, a remainder of at most four and a window of
  two, each shorter than the sequences and texts used, so that every limit is
  crossed; every output up to length three over six bytes that matter to the
  escape filter and chosen longer ones; scripts over all outputs of two letters
  up to length four.
* `devices`: two Runs per instance, so that one starts in the state the other
  left; up to two other Runs of the instance under way beside it (`MaxOverlap`),
  so that they also mix with each other; one interference at the outlets; two
  outlets, so that the wrong one can be switched; names with two dots and more; a
  configuration for each branch.
* `request`: durations in words of six bits, so that the product overflows; a
  document for each check of the load; all pairs of six versions; a user with a
  name, with an empty one and without; two invocations where the second meets
  what the first left.

Deadlock is checked everywhere. The lock service always accepts a request; the
others have an action for the state in which everything has ended.

### Fairness

Weak fairness of each goroutine's steps: the Go scheduler runs what can run,
and a `select` with a ready case proceeds.

* `AgentFairSpec` assumes this of the handlers and nothing else: no module,
  session or client needs to do anything for `CancelledRunReturns`.
  `HeldIsReleased` assumes `RunFairness` of the run it speaks of in addition:
  its modules return, and a cancelled session closes its channel, which is
  what `SessionTearsDown` shows of `Session`.
* `SessionFairSpec`: nothing of the module or the client, but a stream's `Send`
  returns; `SessionServedSpec` adds a client that handles what it receives.
* `RelayFairSpec`: the goroutines of the client and of the relay, except the one
  that reads the terminal; nothing of the user or the agent.
* `LifecycleFairSpec`: the main goroutine of each agent. Init and Deinit are
  taken to honour the timeouts of their contexts; registration and drain have
  one. Nothing of requests, signals or the server.
* `SerialFairSpec`: the Run and its two timers; nothing of the device.
* `DevicesSpec`: a module takes its steps while a Run is on; an answer of the
  hardware is its own choice of outcome, and a process need not end by itself.
* `RequestSpec`: dutctl, its deadline and the effect of a signal; nothing of the
  agent.

## What is proved

Each theorem holds for every value of the constants that meets the named
assumptions: any sets of devices, owners, runs, agents, files and
configurations, any number of calls, messages, modules and restarts, any
lengths and limits. Most rest on an inductive invariant, named below, which is
stronger than the property; TLC finds no violation of any of these on the
instances of the runs (of `SerialProofs`, with the functions it chooses written
out).

| Module | Theorem | Statement |
|---|---|---|
| `LockerProofs` | `LockerTypeCorrect`, `SameOwnerAlways` | the slots are well formed, and a device that is reserved and busy has one owner |
| | `ReservationKeptAlways` | the action property `ReservationKept` |
| | `LockerImplementsLease` | `LockerSpec => LeaseSpec` |
| `AgentProofs` | `AgentTypeCorrect` | types of the lock table and of all runs |
| | `BusyHasRunAlways` | every busy hold has a run of its owner that will release it |
| | `AgentImplementsLease` | `AgentSpec => LeaseSpec` |
| | `HandlerExclusionAlways`, `BusyWhileExecutingAlways` | both properties of `agent_exclusion`, if `SameUserOverlap` and `ForcedUnlock` are false; modules of failed runs are excepted |
| | `OkIsHonestAlways` | success is reported only if every module returned without an error |
| | `RunsTakeOnlyTheirsAlways` | the action property: a run takes from the lock table only what is its user's |
| `SessionProofs` | `SessionCorrect` | accepted output arrives once and in order, and what is missing was dropped for a reason |
| | `RightFileAlways` | the action property `RightFile` |
| `RelayProofs` | `RelayCorrect` | what the client reports of a run is true, directly and over dutserver |
| `LifecycleProofs` | `LifecycleCorrect` | drain, Deinit and exit code on every way out of `start()` |
| | `RegistrationWhole`, `ServingReachable` | a registration is whole, and who serves is routed to |
| | `FirstRegistrationWins` | the action property `FirstWins` |
| `DevicesProofs` | `DevicesTypeCorrect` | types of all modules |
| | `GpioAlwaysTrue` | a button is pressed while an odd number of overlapping Runs hold it, a switch is as recorded; except after a refused or lost toggle, and after mixed Runs |
| | `PowerAlwaysTrue` | what power Runs report is true of the outlet |
| | `RetriedOnceAlways` | an IPMI command is repeated only for unanswered requests, at most eight times in all; a stale session alone fails nothing |
| | `NothingLeftAlways` | a Run leaves no process, no temporary file and no part of an upload, except where a removal or Close failed, or another Run or Deinit came between |
| | `TransferAlwaysTrue` | the image of this Run is what ends up on the chip, and a typed upload destination stays below the working directory; if no other Run of the instance and no other device came between |
| | `ChipWholeAlways` | who may leave the chip half written |
| `SerialProofs` | `SerialInvAlways` | the client sees what a terminal would show, in bounded memory |
| | `MatchesExactAlways` | no match is invented, and none of a text that fits the window is missed |
| | `SentInOrderAlways` | the device receives the payloads whole, once and in order |
| `RequestProofs` | `NoMajorMixAlways` | no handler runs for a client of another major version |
| | `LockAsAskedAlways` | a lock of a second or more lasts as long as was typed, a shorter one gets the default; who took it can release it exactly if `USER` is set |
| | `RequestCorrect` | warnings and exit codes are true |
| | `ErrorLocatedAlways` | a refused configuration is refused for its first fault, at the place the error names |
| | `AcceptedIsUsableAlways` | an accepted configuration can be addressed, resolved and run; except names behind an alias, and null commands, which are always refused |
| | `ArgsDeliveredAlways` | what was typed reaches the modules as typed, in the places the configuration has for it |

### The arguments

Lock table and runs:

* `LockerInv` is `LockerTypeOK` and `SameOwner`. The two are inductive together:
  a granted check says that whoever has a live hold is the caller
  (`GrantedAccess`), and that needs busy holds that never expire.
* The refinement rewrites the mapping without the lookup (`HolderShape`). Every
  method either empties slots, and then each lease goes on or ends
  (`LeaseGoesOn`; an expiring reservation leaves the device to the busy hold of
  the same owner, by `SameOwner`), or is a granted call, and then the device was
  with the caller or free (`GrantStep`).
* `AgentUsesLocker`: every step of the agent is a step of the lock table or
  leaves it alone, so `LockerInv` and the refinement carry over.
* `AgentInv` adds the types, `Positions` (where a run that holds its device can
  be, and that its device and user are set there) and `BusyHasRun`. Of the steps
  of a run only acquisition and release touch a busy slot (`QuietSteps`) and only
  release makes a holder let go (`HoldersKeep`).
* `ExclusionInv` adds that a user has one active run, that every run that holds
  its device owns the busy hold (`HoldersOwn`) and that only such runs execute
  (`ExecutingHold`). `HoldersOwn` fails in the two cases the theorems exclude:
  the run `agent_overlap` shows the first. That a module at work belongs to an
  executing handler, or to a run that failed, is from `HonestInv`.
* `HonestInv` adds to `AgentInv`, run by run, what the two channels say at each
  place of the module goroutine (`GoroutinesOK`): `moduleErrCh` is closed
  without an error only by a goroutine that got through its last module.
  `RunsTakeOnlyTheirs` follows from `AgentInv` step by step.

Session: `SessionIInv` says what each goroutine holds where it is (`HandsOK`),
that every error and every cancellation has its cause (`ErrorsOK`,
`CancelExplained`), and counts messages: the set of accepted prints is split,
without overlap, into sent, in hand and dropped (`AcceptedOnce`,
`OutputComplete`, `DropsExplained`). `TransferOK` follows a file from the request
to the hand-over. It holds until the session is cancelled or the module has sent
a file, the two exceptions of `RightFile`.

Client and relay: `RelayIInv` has a part for where the routines of the client and
of the relay can be together (`ClientPlaces`, `RelayPlaces`), for the room in the
error channels, for what cancels whom, and for what has flowed: the responses
shown, in flight on either leg and not yet said are together what the agent says
(`FlowOK`), and an end of stream is passed on only after what precedes it
(`DoneOK`). The agent is idle, running or waiting for a file here (`agent`), and
`ReasonOK` ties every failure to the first fault.

Lifecycle: `LifeInv` says which modules can be initialised in each phase, that
the loop of Deinit has yet to reach every one that is (`LoopOK`), when requests
exist, when the exit code is settled (`CodeOK`), and that an agent past its
registration is routed to in this life of the server (`RouteOK`). An agent's step
does not touch the others, except through the registry, which only grows.

Devices: one invariant per family of modules (`GpioOK`, `PowerOK`, `IpmiOK`,
`ExecOK`, `FlashOK`, `FileOK`, `RemoteOK`), each about the family's own
variables, so that a family's actions concern one invariant and the others only
see their variables unchanged. `SwitchOK` says that a Run that drives a switch by
itself has driven it to what it will record. `PowerOK` says that an outlet is as
the Run found it until a request that switches has been sent. `IpmiOK` counts, for
each attempt, that all it has had carried out went unanswered. `ImageOK` follows
the image from the client to the chip as long as no other Run comes between;
`EmulatedOK` keeps the file of a Run known to the instance or among those that
overlaps and failed removals explain (`exposed`). `FileOK` ties the destination of an
upload to the arguments of its Run. That it stays inside is about `Clean`, name by
name: what is left of a path has the root only in front and goes up only at its
beginning, so a cleaned path that does not begin with `/` or `..` has neither.

Serial: `ConsoleInv` is about places, the streams (`raw` is what left `wire`;
`shown` is what `clean` made of it), the buffers and the console. Its core is
`StripRead`: stripping the remainder and a chunk gives what the terminal, started
where it was, shows of the chunk, and a new remainder at which it has not yet
decided. This is an induction over the text, done by a ladder over naturals and
by least counterexamples, because the library's induction theorems cannot be
instantiated here. `MatchInv` adds that the buffer is the end of what was
shown since the last mark (`TailOK`), long enough that a text of the window's
size cannot end across the trimmed part (`OccursTail`, `OccursGrows`,
`Capped`), and that a search looked at all of it. `SentOK` adds how much of the
payload of the current step has been written.

Requests: `RequestIInv` is about what is known of each call where it is
(`CallsOK`: who asked, at which version, what was answered), the locks and the
durations they came from (`LocksOK`), the client's progress and exit code
(`ClientOK`), what was warned of and why (`WarnOK`), and `NoMajorMix`. The
conversions of `LockAsAsked` are arithmetic about words of any size. That a shell
without `USER` never presents the owner of its lock again rests on `MadeUp`: such
a lock is in a name that one of the calls so far has made up.

Configuration: `ServedIInv` is a second invariant, inductive together with
`RequestIInv`. The configuration is what the load made of the document, and
there are no calls before it (`LoadOK`); whatever a run handed to modules is what
`ModuleArgs` makes, without an error, of its request and of the command the lookup
found (`CallsServed`). The rest is about operators, for documents and words of any
length:

* `ErrorLocated`: the first fault of a mapping is the one reported
  (`FirstFaultFinds`, `FirstEntryFault`, `FirstCommandFault`), all before it load
  (`PrefixLoads`), and a device with only the faulty command is refused
  (`CommandLocated`).
* `AcceptedIsUsable`: every value that `LastWins` keeps is one of the entries and
  has passed its checks (`Served`); accepted names are not taken for keywords by
  `route` (`ServedReachable`); the references of an accepted command are
  declared, so that substitution leaves none (`AcceptedResolves`).
* `ArgsDelivered`: a substituted word is the join of its parts
  (`SubstituteJoins`), and part `t` of a join is where the lengths of those before
  it put it (`FlattenPlaces`).

The recursive functions behind these (`FlattenSeq`, `Clean`, the ends of the
parts) are shown to exist and to follow their equations by `LadderOf`: a set of
numbers that contains 0 and with each number the next contains all of them.

### Assumptions

All are evaluated by TLC on the runs: durations are integers and the bounds of
clock, calls, messages and restarts natural numbers; `NoHold` and `NoName` are
nothing else; the default duration is a positive one of the durations;
anonymous users are users; a command has at least one module; the server has at
least one life; every agent has a set of devices, of modules and of modes
(`RegistryAssumption`, `LifecycleAssumption`); a configured outlet is negative or
one the device has (`PowerAssumption`); reads are of at least one byte, the limits of the
serial module are natural numbers, and its scripts and the device's output
consist of bytes (`ScenariosAssumption`); a word has at least one bit and typed
durations fit it, the default and the long duration are positive, command
lines consist of words of tokens, and a document has the shape `yaml.v3` gives it,
with entries under a mapping and none under a null (`SetupsAssumption`,
`DocNode`); only the first name of a typed path can be the root, and `..` begins
with two dots (`FilePathsAssumption`); whether the client sends empty files and
ignored messages is a Boolean (`ClientAssumption`).

### Only model-checked

Liveness under fairness (`HeldIsReleased`, `CancelledRunReturns`,
`SessionTearsDown`, `EveryoneLearns`, `SignalEnds`, `EndsInTime`, `CancelEnds`,
`DutctlReturns`), which is out of the prover's reach, and `RequestAnswered`, which
the code violates. Every invariant and every action property of the passing runs
is a theorem. TLC still checks them, on instances where each mutant of the code
is seen to break one.

## Plan

Modelled: every component of the inventory but the last row. Proved: all safety
properties. Left, in order:

1. The session seen by `Agent` (`brokerFails`, `brokerCloses`) as an abstraction
   that `Session` implements.
2. How `chanio` cuts what it reads.

## Not modelled

Formatting, logging, styles and wording; generated code; the YAML parser, of
which `Config` takes the nodes; the HTTP/2 transport, of which only delivery in
order, end of stream and failure matter; regular expressions, which are literal
texts in `Serial`; the agent-status and dummy modules, which only print. Status
codes are reduced to success and failure where nobody tells them apart.

Also left out:

* The end of the agent's process under a module's Run, by which the module's
  hardware stays as it is; `Lifecycle` has the end of the process, without the
  hardware. A pin access through memory that another Run unmaps at that moment,
  which may end the process too (`gpio/devmem.go` maps and unmaps for each one).
* In `Request` a run's own ending, which is in `Client`: it ends with a success,
  a failure or a cancellation. A signal after `dispatch` has returned has the
  default action and ends the process; it is not a step.
* In `Config` documents in which a scalar or a sequence stands for a mapping, which
  the load refuses, and which of several type errors `yaml.v3` collects is worded
  first.
