-------------------------------- MODULE Agent -------------------------------
(***************************************************************************)
(* The RPC service of dutagent (cmds/dutagent/rpc.go, states.go) on top of *)
(* its lock table: List, Lock and Unlock requests, and any number of       *)
(* concurrent Run requests.  A Run is three kinds of goroutine: the        *)
(* handler, which walks a finite state machine and releases the auto-lock  *)
(* when it ends; the goroutine that runs the command's modules; and the    *)
(* two session workers, of which only the channel that reports their end   *)
(* matters here (module Session has the rest).  Of the status codes only   *)
(* success and failure are told apart.                                     *)
(***************************************************************************)
EXTENDS Locker

CONSTANTS
  Runs,             \* identifiers of Run requests
  Anonymous,        \* identities minted for a single request without a user
  MaxModules,       \* bound of the number of modules of a command
  DefaultDuration,  \* defaultLockDuration
  SameUserOverlap,  \* may a user start a run while another of theirs goes on?
  ForcedUnlock      \* does anybody use `unlock --force`?

ASSUME AnonymousAssumption == Anonymous \subseteq Owners
ASSUME MaxModulesAssumption == MaxModules \in Nat \ {0}
ASSUME DefaultDurationAssumption == DefaultDuration \in Durations /\ DefaultDuration > 0
ASSUME EnvironmentAssumption == SameUserOverlap \in BOOLEAN /\ ForcedUnlock \in BOOLEAN

VARIABLES
  \* the handler
  pc,            \* the next FSM state of the handler, or where it is around it
  user, dev,     \* the caller and the device it named
  held,          \* autoLock.held
  result,        \* the code of the handler's result
  brokerDone, moduleDone,   \* locals of waitModules
  \* contexts
  cancelled,     \* the request's context: client gone or handler returned
  \* the module goroutine
  mpc, left,     \* where it is, and how many modules have not finished
  moduleErrCh,   \* what the handler would receive from the channel
  \* the session broker
  brokerErrCh    \* likewise; an error comes out before the close behind it

handlerVars == <<pc, user, dev, held, result, brokerDone, moduleDone>>
moduleVars  == <<mpc, left, moduleErrCh>>
runVars     == <<handlerVars, cancelled, moduleVars, brokerErrCh>>
agentVars   == <<lockerVars, runVars>>

FsmStates == {"receiveCommandRPC", "findDUTCmd", "checkDeviceAccess",
              "acquireAutoLock", "executeModules", "waitModules"}
Channel == {"none", "open", "error", "closed"}

Active(r) == pc[r] \in FsmStates \cup {"deferred"}

-----------------------------------------------------------------------------
(* Unary requests. *)

List == PruneAll /\ UNCHANGED runVars

(* Lock: an anonymous caller is refused; no duration means the default.     *)
LockRPC(d, o, secs) ==
  LET dur == IF secs = 0 THEN DefaultDuration ELSE secs
  IN  /\ o \notin Anonymous
      /\ Lock(d, o, dur) \/ LockDenied(d, o, dur) \/ LockInvalid(dur)
      /\ UNCHANGED runVars

(* Unlock: a normal release needs a named caller, a forced one does not.    *)
UnlockRPC(d, o) ==
  /\ o \notin Anonymous
  /\ ClearLock(d, o) \/ ClearLockDenied(d, o)
  /\ UNCHANGED runVars

ForceUnlockRPC(d) ==
  /\ ForcedUnlock
  /\ ForceClearLock(d)
  /\ UNCHANGED runVars

-----------------------------------------------------------------------------
(* The handler of a Run.  fsm.Run looks at the context before every state,  *)
(* so the body of a state starts only while the request is not cancelled.   *)

(* The FSM ends with result c; what is left is the deferred release.        *)
FsmEnds(r, c) ==
  /\ pc' = [pc EXCEPT ![r] = "deferred"]
  /\ result' = [result EXCEPT ![r] = c]

FsmFails(r) == FsmEnds(r, "failed")

Enter(r, s) == pc[r] = s /\ ~cancelled[r]

Goto(r, s) == pc' = [pc EXCEPT ![r] = s] /\ UNCHANGED result

(* A request arrives.  A named user may be limited to one run at a time; an *)
(* anonymous identity is never used twice.                                  *)
Arrive(r, o) ==
  /\ pc[r] = "idle"
  /\ \A q \in Runs \ {r} : pc[q] # "idle" /\ user[q] = o =>
       o \notin Anonymous /\ (SameUserOverlap \/ pc[q] = "returned")
  /\ pc' = [pc EXCEPT ![r] = "receiveCommandRPC"]
  /\ user' = [user EXCEPT ![r] = o]
  /\ UNCHANGED <<lockerVars, dev, held, result, brokerDone, moduleDone, cancelled, moduleVars, brokerErrCh>>

receiveCommandRPC(r) ==
  /\ Enter(r, "receiveCommandRPC")
  /\ \/ \E d \in Devices : dev' = [dev EXCEPT ![r] = d] /\ Goto(r, "findDUTCmd")
     \/ FsmFails(r) /\ UNCHANGED dev
  /\ UNCHANGED <<lockerVars, user, held, brokerDone, moduleDone, cancelled, moduleVars, brokerErrCh>>

findDUTCmd(r) ==
  /\ Enter(r, "findDUTCmd")
  /\ Goto(r, "checkDeviceAccess") \/ FsmFails(r)
  /\ UNCHANGED <<lockerVars, user, dev, held, brokerDone, moduleDone, cancelled, moduleVars, brokerErrCh>>

checkDeviceAccess(r) ==
  /\ Enter(r, "checkDeviceAccess")
  /\ CheckAccess(dev[r], user[r])
  /\ IF checkLocked(dev[r], user[r], now) = NoHold
     THEN Goto(r, "acquireAutoLock")
     ELSE FsmFails(r)
  /\ UNCHANGED <<user, dev, held, brokerDone, moduleDone, cancelled, moduleVars, brokerErrCh>>

acquireAutoLock(r) ==
  /\ Enter(r, "acquireAutoLock")
  /\ \/ /\ AutoLock(dev[r], user[r])
        /\ held' = [held EXCEPT ![r] = TRUE]
        /\ Goto(r, "executeModules")
     \/ /\ AutoLockDenied(dev[r], user[r])
        /\ FsmFails(r)
        /\ UNCHANGED held
  /\ UNCHANGED <<user, dev, brokerDone, moduleDone, cancelled, moduleVars, brokerErrCh>>

(* Starts the session workers, then the module goroutine; arguments that do *)
(* not fit the command cancel the workers again and no module runs.         *)
executeModules(r) ==
  /\ Enter(r, "executeModules")
  /\ brokerErrCh' = [brokerErrCh EXCEPT ![r] = "open"]
  /\ moduleErrCh' = [moduleErrCh EXCEPT ![r] = "open"]
  /\ \/ /\ \E n \in 1..MaxModules : left' = [left EXCEPT ![r] = n]
        /\ mpc' = [mpc EXCEPT ![r] = "loop"]
        /\ Goto(r, "waitModules")
     \/ /\ mpc' = [mpc EXCEPT ![r] = "ended"]
        /\ FsmFails(r)
        /\ UNCHANGED left
  /\ UNCHANGED <<lockerVars, user, dev, held, brokerDone, moduleDone, cancelled>>

(* The cases of the select in waitModules.  A channel seen closed once may  *)
(* be seen closed again, to no effect; the loop ends when both were.        *)
waitError(r) ==
  /\ pc[r] = "waitModules"
  /\ \/ /\ brokerErrCh[r] = "error"
        /\ brokerErrCh' = [brokerErrCh EXCEPT ![r] = "open"]
        /\ UNCHANGED moduleErrCh
     \/ /\ moduleErrCh[r] = "error"
        /\ moduleErrCh' = [moduleErrCh EXCEPT ![r] = "open"]
        /\ UNCHANGED brokerErrCh
  /\ FsmFails(r)
  /\ UNCHANGED <<lockerVars, user, dev, held, brokerDone, moduleDone, cancelled, mpc, left>>

(* Mutant: the loop ends when one of the channels was seen closed.           *)
waitClosedEither(r) ==
  /\ pc[r] = "waitModules"
  /\ \/ /\ brokerErrCh[r] = "closed"
        /\ brokerDone' = [brokerDone EXCEPT ![r] = TRUE]
        /\ UNCHANGED moduleDone
     \/ /\ moduleErrCh[r] = "closed"
        /\ moduleDone' = [moduleDone EXCEPT ![r] = TRUE]
        /\ UNCHANGED brokerDone
  /\ FsmEnds(r, "ok")
  /\ UNCHANGED <<lockerVars, user, dev, held, cancelled, moduleVars, brokerErrCh>>

waitClosed(r) ==
  /\ pc[r] = "waitModules"
  /\ \/ /\ brokerErrCh[r] = "closed"
        /\ brokerDone' = [brokerDone EXCEPT ![r] = TRUE]
        /\ UNCHANGED moduleDone
     \/ /\ moduleErrCh[r] = "closed"
        /\ moduleDone' = [moduleDone EXCEPT ![r] = TRUE]
        /\ UNCHANGED brokerDone
  /\ IF brokerDone'[r] /\ moduleDone'[r] THEN FsmEnds(r, "ok") ELSE UNCHANGED <<pc, result>>
  /\ UNCHANGED <<lockerVars, user, dev, held, cancelled, moduleVars, brokerErrCh>>

(* Mutant: waitModules does not select on the context.                       *)
runCancelledNotWaiting(r) ==
  /\ pc[r] \in FsmStates \ {"waitModules"} /\ cancelled[r]
  /\ FsmFails(r)
  /\ UNCHANGED <<lockerVars, user, dev, held, brokerDone, moduleDone, cancelled, moduleVars, brokerErrCh>>

(* The context is done: at a state boundary, in the receive of the command, *)
(* or in the select of waitModules.                                         *)
runCancelled(r) ==
  /\ pc[r] \in FsmStates /\ cancelled[r]
  /\ FsmFails(r)
  /\ UNCHANGED <<lockerVars, user, dev, held, brokerDone, moduleDone, cancelled, moduleVars, brokerErrCh>>

(* A state function panics: it unwinds past the FSM to the deferred release. *)
statePanics(r) ==
  /\ pc[r] \in FsmStates
  /\ FsmFails(r)
  /\ UNCHANGED <<lockerVars, user, dev, held, brokerDone, moduleDone, cancelled, moduleVars, brokerErrCh>>

(* Mutant: the hold is released on success only.                             *)
deferredReleaseIfOk(r) ==
  /\ pc[r] = "deferred"
  /\ pc' = [pc EXCEPT ![r] = "returned"]
  /\ IF held[r] /\ result[r] = "ok"
     THEN ClearAutoLock(dev[r], user[r]) \/ ClearAutoLockDenied(dev[r], user[r])
     ELSE UNCHANGED lockerVars
  /\ UNCHANGED <<user, dev, held, result, brokerDone, moduleDone, cancelled, moduleVars, brokerErrCh>>

(* The deferred release of Run, on every way out of the FSM.                *)
deferredRelease(r) ==
  /\ pc[r] = "deferred"
  /\ pc' = [pc EXCEPT ![r] = "returned"]
  /\ IF held[r]
     THEN ClearAutoLock(dev[r], user[r]) \/ ClearAutoLockDenied(dev[r], user[r])
     ELSE UNCHANGED lockerVars
  /\ UNCHANGED <<user, dev, held, result, brokerDone, moduleDone, cancelled, moduleVars, brokerErrCh>>

(* The client goes away at any moment, or the server ends the request after *)
(* its handler returned.                                                    *)
cancelRequest(r) ==
  /\ pc[r] # "idle" /\ ~cancelled[r]
  /\ cancelled' = [cancelled EXCEPT ![r] = TRUE]
  /\ UNCHANGED <<lockerVars, handlerVars, moduleVars, brokerErrCh>>

-----------------------------------------------------------------------------
(* The module goroutine of executeModules. *)

(* Mutant: the loop over the modules runs once too often.                    *)
moduleStartsOffByOne(r) ==
  /\ mpc[r] = "loop" /\ left[r] >= 0 /\ ~cancelled[r]
  /\ mpc' = [mpc EXCEPT ![r] = "module"]
  /\ UNCHANGED <<lockerVars, handlerVars, cancelled, left, moduleErrCh, brokerErrCh>>

moduleStarts(r) ==
  /\ mpc[r] = "loop" /\ left[r] > 0 /\ ~cancelled[r]
  /\ mpc' = [mpc EXCEPT ![r] = "module"]
  /\ UNCHANGED <<lockerVars, handlerVars, cancelled, left, moduleErrCh, brokerErrCh>>

(* Between two modules a cancelled request ends the goroutine, which then    *)
(* neither sends nor closes.                                                 *)
moduleSkipped(r) ==
  /\ mpc[r] = "loop" /\ left[r] > 0 /\ cancelled[r]
  /\ mpc' = [mpc EXCEPT ![r] = "ended"]
  /\ UNCHANGED <<lockerVars, handlerVars, cancelled, left, moduleErrCh, brokerErrCh>>

(* A module returns, or panics, which runModule turns into an error.        *)
moduleReturns(r) ==
  /\ mpc[r] = "module"
  /\ \/ /\ left' = [left EXCEPT ![r] = @ - 1]
        /\ mpc' = [mpc EXCEPT ![r] = "loop"]
        /\ UNCHANGED moduleErrCh
     \/ /\ moduleErrCh' = [moduleErrCh EXCEPT ![r] = "error"]
        /\ mpc' = [mpc EXCEPT ![r] = "failed"]
        /\ UNCHANGED left
  /\ UNCHANGED <<lockerVars, handlerVars, cancelled, brokerErrCh>>

(* modCtxCancel, after the error was sent or before the channel is closed.  *)
modulesCancelSession(r) ==
  /\ \/ mpc[r] = "failed" /\ mpc' = [mpc EXCEPT ![r] = "ended"]
     \/ mpc[r] = "loop" /\ left[r] = 0 /\ mpc' = [mpc EXCEPT ![r] = "succeeded"]
  /\ UNCHANGED <<lockerVars, handlerVars, cancelled, left, moduleErrCh, brokerErrCh>>

(* Mutant: the channel is not closed on success.                             *)
modulesEndUnclosed(r) ==
  /\ mpc[r] = "succeeded"
  /\ mpc' = [mpc EXCEPT ![r] = "ended"]
  /\ UNCHANGED <<lockerVars, handlerVars, cancelled, left, moduleErrCh, brokerErrCh>>

modulesClose(r) ==
  /\ mpc[r] = "succeeded"
  /\ mpc' = [mpc EXCEPT ![r] = "ended"]
  /\ moduleErrCh' = [moduleErrCh EXCEPT ![r] = "closed"]
  /\ UNCHANGED <<lockerVars, handlerVars, cancelled, left, brokerErrCh>>

-----------------------------------------------------------------------------
(* The session workers, as seen from here. *)

(* modCtx is cancelled by the goroutine that ran the modules or with the     *)
(* request.                                                                  *)
SessionCancelled(r) == cancelled[r] \/ mpc[r] \in {"succeeded", "ended"}

(* A worker ends with a stream or protocol error.                           *)
brokerFails(r) ==
  /\ brokerErrCh[r] = "open"
  /\ brokerErrCh' = [brokerErrCh EXCEPT ![r] = "error"]
  /\ UNCHANGED <<lockerVars, handlerVars, cancelled, moduleVars>>

(* Both workers end without one, because the session was cancelled or the   *)
(* client closed its side of the stream; then the channel is closed.        *)
brokerCloses(r) ==
  /\ brokerErrCh[r] = "open"
  /\ brokerErrCh' = [brokerErrCh EXCEPT ![r] = "closed"]
  /\ UNCHANGED <<lockerVars, handlerVars, cancelled, moduleVars>>

-----------------------------------------------------------------------------

AgentInit ==
  /\ LockerInit
  /\ pc = [r \in Runs |-> "idle"]
  /\ user = [r \in Runs |-> NoHold] /\ dev = [r \in Runs |-> NoHold]
  /\ held = [r \in Runs |-> FALSE]
  /\ result = [r \in Runs |-> "none"]
  /\ brokerDone = [r \in Runs |-> FALSE] /\ moduleDone = [r \in Runs |-> FALSE]
  /\ cancelled = [r \in Runs |-> FALSE]
  /\ mpc = [r \in Runs |-> "none"] /\ left = [r \in Runs |-> 0]
  /\ moduleErrCh = [r \in Runs |-> "none"] /\ brokerErrCh = [r \in Runs |-> "none"]

(* What the handler does of its own accord, once it has its command.        *)
HandlerStep(r) ==
  \/ findDUTCmd(r) \/ checkDeviceAccess(r) \/ acquireAutoLock(r) \/ executeModules(r)
  \/ waitError(r) \/ waitClosed(r)
  \/ runCancelled(r) \/ deferredRelease(r)

ModuleStep(r) ==
  \/ moduleStarts(r) \/ moduleSkipped(r) \/ moduleReturns(r)
  \/ modulesCancelSession(r) \/ modulesClose(r)

BrokerStep(r) == brokerFails(r) \/ brokerCloses(r)

RunStep(r) ==
  \/ \E o \in Owners : Arrive(r, o)
  \/ receiveCommandRPC(r) \/ HandlerStep(r) \/ statePanics(r) \/ cancelRequest(r)
  \/ ModuleStep(r) \/ BrokerStep(r)

AgentNext ==
  \/ List
  \/ \E d \in Devices, o \in Owners :
       UnlockRPC(d, o) \/ \E secs \in Durations : LockRPC(d, o, secs)
  \/ \E d \in Devices : ForceUnlockRPC(d)
  \/ Tick /\ UNCHANGED runVars
  \/ \E r \in Runs : RunStep(r)

AgentSpec == AgentInit /\ [][AgentNext]_agentVars

(* The Go scheduler runs every goroutine that can go on, and a select takes  *)
(* each ready case sooner or later.  Modules, clients and users owe nothing. *)
HandlerFairness ==
  \A r \in Runs : WF_agentVars(HandlerStep(r))

(* A run's session ends once it is cancelled, and its modules return sooner  *)
(* or later.                                                                 *)
RunFairness(r) ==
  /\ WF_agentVars(SessionCancelled(r) /\ brokerCloses(r))
  /\ WF_agentVars(ModuleStep(r))

AgentFairSpec == AgentSpec /\ HandlerFairness

-----------------------------------------------------------------------------
(* Properties. *)

RunTypeOK ==
  /\ pc \in [Runs -> FsmStates \cup {"idle", "deferred", "returned"}]
  /\ user \in [Runs -> Owners \cup {NoHold}]
  /\ dev \in [Runs -> Devices \cup {NoHold}]
  /\ held \in [Runs -> BOOLEAN]
  /\ result \in [Runs -> {"none", "ok", "failed"}]
  /\ brokerDone \in [Runs -> BOOLEAN] /\ moduleDone \in [Runs -> BOOLEAN]
  /\ cancelled \in [Runs -> BOOLEAN]
  /\ mpc \in [Runs -> {"none", "loop", "module", "failed", "succeeded", "ended"}]
  /\ left \in [Runs -> 0..MaxModules]
  /\ moduleErrCh \in [Runs -> Channel] /\ brokerErrCh \in [Runs -> Channel]

(* Types of all variables, and no run executes more modules than it has.     *)
AgentTypeOK == LockerTypeOK /\ RunTypeOK

(* No orphaned auto-lock: a busy hold has no expiry, so there must always be *)
(* a Run of its owner on its device that has not released yet and will.      *)
(* Covers every exit of the FSM, a panic included, in the presence of other  *)
(* runs, forced unlocks and reservations.                                    *)
BusyHasRun ==
  \A d \in Devices : busy[d] # NoHold =>
    \E r \in Runs : Active(r) /\ held[r] /\ dev[r] = d /\ user[r] = busy[d].owner

(* A device is in use while the handler of a run starts modules or waits for *)
(* them, and while a module is at work.                                      *)
Executing(r) == pc[r] \in {"executeModules", "waitModules"}
InUse(r) == Executing(r) \/ mpc[r] = "module"
Abandoned(r) == pc[r] \in {"deferred", "returned"} /\ result[r] = "failed"

(* Commands of different users never use one device at a time, as long as no *)
(* user runs two commands at once and nobody forces an unlock: the check of  *)
(* access and the acquisition are two calls, other requests and the expiry   *)
(* of reservations come between them.  Except: a run that failed (cancelled, *)
(* session broken, panic) does not wait for its modules, and the one at work *)
(* goes on beside the command of the next user.                              *)
HandlerExclusion ==
  \A q, r \in Runs : InUse(q) /\ InUse(r) /\ dev[q] = dev[r] /\ user[q] # user[r] =>
    Abandoned(q) \/ Abandoned(r)

(* A run reported as successful ran all its modules, none failed, and its    *)
(* session ended without an error nobody looked at.                          *)
OkIsHonest ==
  \A r \in Runs : result[r] = "ok" =>
    left[r] = 0 /\ moduleErrCh[r] = "closed" /\ brokerErrCh[r] = "closed"

(* A busy hold ends only when a run of its owner returns or by a forced      *)
(* unlock: the release of a run whose hold was forced away meanwhile never   *)
(* takes the hold another owner acquired since.                              *)
BusyReleasedByOwner ==
  [][\A d \in Devices : busy[d] # NoHold /\ busy'[d] # busy[d] =>
       /\ busy'[d] = NoHold
       /\ \/ ForceUnlockRPC(d)
          \/ \E r \in Runs : /\ pc[r] = "deferred" /\ pc'[r] = "returned"
                             /\ dev[r] = d /\ user[r] = busy[d].owner]_agentVars

(* Running a command never costs anybody their reservation: no step of a run *)
(* removes or changes a reservation that has not expired.                    *)
RunsKeepReservations ==
  [][(\E r \in Runs : pc'[r] # pc[r]) =>
       \A d \in Devices : reserved[d] # NoHold /\ ~isExpired(reserved[d], now) =>
         reserved'[d] = reserved[d]]_agentVars

(* A run takes from the lock table only what it has put there: not the busy *)
(* hold another owner acquired after a forced unlock, and nobody's          *)
(* reservation.                                                             *)
RunsTakeOnlyTheirs == BusyReleasedByOwner /\ RunsKeepReservations

(* A cancelled run returns, and so releases its device, however long its     *)
(* modules go on.                                                            *)
CancelledRunReturns ==
  \A r \in Runs : (Active(r) /\ cancelled[r]) ~> pc[r] = "returned"

(* An acquired auto-lock is released in the end, if the run's own modules    *)
(* return and its session keeps its part, whatever the other runs do: the    *)
(* two channels waitModules waits for both get to their end.                 *)
HeldIsReleased ==
  \A r \in Runs : RunFairness(r) => (held[r] ~> pc[r] = "returned")

(* "Busy is a transient hold taken automatically while a command runs ...    *)
(* and is released when the command finishes" (locker.go): while a run       *)
(* executes, its device is busy.                                             *)
BusyWhileExecuting ==
  \A r \in Runs : Executing(r) => busy[dev[r]] # NoHold
=============================================================================
