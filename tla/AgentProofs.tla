---------------------------- MODULE AgentProofs -----------------------------
(***************************************************************************)
(* Proofs about the runs of the agent, for any number of runs, users,      *)
(* devices and modules.                                                    *)
(***************************************************************************)
EXTENDS Agent, LockerProofs

(* Where the values a run works with have been set.                         *)
Positions ==
  \A r \in Runs :
    /\ pc[r] # "idle" => user[r] \in Owners
    /\ pc[r] \in FsmStates \ {"receiveCommandRPC"} => dev[r] \in Devices
    /\ held[r] => /\ dev[r] \in Devices
                  /\ pc[r] \in {"executeModules", "waitModules", "deferred", "returned"}
    /\ mpc[r] = "module" => left[r] > 0

(* The inductive invariant: BusyHasRun needs to know where a run that holds   *)
(* its device can be, and whose access the lock table granted.               *)
AgentInv == LockerInv /\ RunTypeOK /\ Positions /\ BusyHasRun

-----------------------------------------------------------------------------
(* The request handlers use the lock table only through its methods, with    *)
(* devices and owners it knows.                                              *)
LEMMA AgentUsesLocker ==
  ASSUME RunTypeOK, Positions, AgentNext
  PROVE  [LockerNext]_lockerVars
<1>1. CASE List
  BY <1>1 DEF List, LockerNext
<1>2. CASE \E d \in Devices, o \in Owners : UnlockRPC(d, o)
  BY <1>2 DEF UnlockRPC, LockerNext, LockerOp
<1>3. CASE \E d \in Devices, o \in Owners, secs \in Durations : LockRPC(d, o, secs)
  <2>1. PICK d \in Devices, o \in Owners, secs \in Durations : LockRPC(d, o, secs)
    BY <1>3
  <2>2. PICK dur \in Durations : Lock(d, o, dur) \/ LockDenied(d, o, dur) \/ LockInvalid(dur)
    BY <2>1, DefaultDurationAssumption DEF LockRPC
  <2> QED
    BY <2>2 DEF LockerNext, LockerOp
<1>4. CASE \E d \in Devices : ForceUnlockRPC(d)
  BY <1>4 DEF ForceUnlockRPC, LockerNext
<1>5. CASE Tick /\ UNCHANGED runVars
  BY <1>5 DEF LockerNext
<1>6. ASSUME NEW r \in Runs, RunStep(r)
      PROVE  [LockerNext]_lockerVars
  <2>1. CASE checkDeviceAccess(r)
    <3>1. dev[r] \in Devices /\ user[r] \in Owners
      BY <2>1 DEF Positions, checkDeviceAccess, Enter, FsmStates
    <3> QED
      BY <2>1, <3>1 DEF checkDeviceAccess, LockerNext, LockerOp
  <2>2. CASE acquireAutoLock(r)
    <3>1. dev[r] \in Devices /\ user[r] \in Owners
      BY <2>2 DEF Positions, acquireAutoLock, Enter, FsmStates
    <3> QED
      BY <2>2, <3>1 DEF acquireAutoLock, LockerNext, LockerOp
  <2>3. CASE deferredRelease(r)
    <3>1. held[r] => dev[r] \in Devices /\ user[r] \in Owners
      BY <2>3 DEF Positions, deferredRelease
    <3> QED
      BY <2>3, <3>1 DEF deferredRelease, LockerNext, LockerOp
  <2>4. CASE UNCHANGED lockerVars
    BY <2>4
  <2> QED
    BY <1>6, <2>1, <2>2, <2>3, <2>4
    DEF RunStep, HandlerStep, ModuleStep, BrokerStep, Arrive, receiveCommandRPC, findDUTCmd,
        executeModules, waitError, waitClosed, runCancelled, statePanics, cancelRequest,
        moduleStarts, moduleSkipped, moduleReturns, modulesCancelSession, modulesClose,
        brokerFails, brokerCloses
<1> QED
  BY <1>1, <1>2, <1>3, <1>4, <1>5, <1>6 DEF AgentNext

-----------------------------------------------------------------------------
(* Every action keeps the types of the run variables and the positions at    *)
(* which they are set; one step per action.                                  *)
LEMMA RunStepTypes ==
  ASSUME RunTypeOK, Positions, NEW r \in Runs, RunStep(r)
  PROVE  RunTypeOK' /\ Positions'
<1> USE DEF RunTypeOK, Positions, FsmStates, Channel
<1>1. ASSUME NEW o \in Owners, Arrive(r, o) PROVE RunTypeOK' /\ Positions'
  BY <1>1 DEF Arrive, moduleVars
<1>2. CASE receiveCommandRPC(r)
  BY <1>2 DEF receiveCommandRPC, Enter, Goto, FsmFails, FsmEnds, moduleVars
<1>3. CASE findDUTCmd(r)
  BY <1>3 DEF findDUTCmd, Enter, Goto, FsmFails, FsmEnds, moduleVars
<1>4. CASE checkDeviceAccess(r)
  BY <1>4 DEF checkDeviceAccess, Enter, Goto, FsmFails, FsmEnds, moduleVars
<1>5. CASE acquireAutoLock(r)
  <2>1. CASE held' = [held EXCEPT ![r] = TRUE] /\ Goto(r, "executeModules")
    <3>1. held' \in [Runs -> BOOLEAN]
      BY <2>1
    <3>2. RunTypeOK'
      BY <1>5, <2>1, <3>1 DEF acquireAutoLock, Goto, moduleVars
    <3>3. \A q \in Runs \ {r} : pc'[q] = pc[q] /\ held'[q] = held[q]
      BY <2>1 DEF Goto
    <3>4. pc[r] = "acquireAutoLock" /\ pc'[r] = "executeModules"
      BY <1>5, <2>1 DEF acquireAutoLock, Enter, Goto
    <3>5. UNCHANGED <<user, dev, mpc, left>>
      BY <1>5 DEF acquireAutoLock, moduleVars
    <3>6. Positions'
      BY <3>3, <3>4, <3>5
    <3> QED
      BY <3>2, <3>6
  <2>2. CASE FsmFails(r) /\ UNCHANGED held
    BY <1>5, <2>2 DEF acquireAutoLock, Enter, FsmFails, FsmEnds, moduleVars
  <2> QED
    BY <1>5, <2>1, <2>2 DEF acquireAutoLock
<1>6. CASE executeModules(r)
  BY <1>6, MaxModulesAssumption DEF executeModules, Enter, Goto, FsmFails, FsmEnds
<1>7. CASE waitError(r)
  BY <1>7 DEF waitError, FsmFails, FsmEnds
<1>8. CASE waitClosed(r)
  <2>1. brokerDone' \in [Runs -> BOOLEAN] /\ moduleDone' \in [Runs -> BOOLEAN]
    BY <1>8 DEF waitClosed
  <2>2. FsmEnds(r, "ok") \/ UNCHANGED <<pc, result>>
    BY <1>8 DEF waitClosed
  <2>3. /\ UNCHANGED <<user, dev, held, cancelled, mpc, left, moduleErrCh, brokerErrCh>>
        /\ pc[r] = "waitModules"
    BY <1>8 DEF waitClosed, moduleVars
  <2> QED
    BY <2>1, <2>2, <2>3 DEF FsmEnds
<1>9. CASE runCancelled(r) \/ statePanics(r)
  BY <1>9 DEF runCancelled, statePanics, FsmFails, FsmEnds, moduleVars
<1>10. CASE deferredRelease(r)
  BY <1>10 DEF deferredRelease, moduleVars
<1>11. CASE cancelRequest(r)
  BY <1>11 DEF cancelRequest, handlerVars, moduleVars
<1>12. CASE moduleStarts(r) \/ moduleSkipped(r)
  BY <1>12 DEF moduleStarts, moduleSkipped, handlerVars
<1>13. CASE moduleReturns(r)
  BY <1>13, MaxModulesAssumption DEF moduleReturns, handlerVars
<1>14. CASE modulesCancelSession(r) \/ modulesClose(r)
  BY <1>14 DEF modulesCancelSession, modulesClose, handlerVars
<1>15. CASE brokerFails(r) \/ brokerCloses(r)
  BY <1>15 DEF brokerFails, brokerCloses, handlerVars, moduleVars
<1> QED
  BY <1>1, <1>2, <1>3, <1>4, <1>5, <1>6, <1>7, <1>8, <1>9, <1>10, <1>11, <1>12, <1>13, <1>14, <1>15
  DEF RunStep, HandlerStep, ModuleStep, BrokerStep

-----------------------------------------------------------------------------
(* A run that holds its device goes on holding it, for the same user.        *)
Keeps(r) ==
  Active(r) /\ held[r] =>
    Active(r)' /\ held'[r] /\ dev'[r] = dev[r] /\ user'[r] = user[r]

(* No step of a run but its deferred release makes a holder let go, of this  *)
(* run or another.                                                           *)
LEMMA HoldersKeep ==
  ASSUME RunTypeOK, Positions, NEW r \in Runs, RunStep(r), ~deferredRelease(r)
  PROVE  \A q \in Runs : Keeps(q)
<1> USE DEF RunTypeOK, Positions, FsmStates, Active, Keeps
<1>1. ASSUME NEW o \in Owners, Arrive(r, o) PROVE \A q \in Runs : Keeps(q)
  BY <1>1 DEF Arrive
<1>2. CASE receiveCommandRPC(r) \/ findDUTCmd(r) \/ checkDeviceAccess(r)
  BY <1>2 DEF receiveCommandRPC, findDUTCmd, checkDeviceAccess, Enter, Goto, FsmFails, FsmEnds
<1>3. CASE acquireAutoLock(r)
  BY <1>3 DEF acquireAutoLock, Enter, Goto, FsmFails, FsmEnds
<1>4. CASE executeModules(r) \/ waitError(r)
  BY <1>4 DEF executeModules, waitError, Enter, Goto, FsmFails, FsmEnds
<1>5. CASE waitClosed(r)
  <2>1. UNCHANGED <<user, dev, held>> /\ (FsmEnds(r, "ok") \/ UNCHANGED pc)
    BY <1>5 DEF waitClosed
  <2> QED
    BY <2>1 DEF FsmEnds
<1>6. CASE runCancelled(r) \/ statePanics(r)
  BY <1>6 DEF runCancelled, statePanics, FsmFails, FsmEnds
<1>7. CASE cancelRequest(r) \/ ModuleStep(r) \/ BrokerStep(r)
  BY <1>7 DEF cancelRequest, ModuleStep, moduleStarts, moduleSkipped, moduleReturns,
              modulesCancelSession, modulesClose, BrokerStep, brokerFails, brokerCloses, handlerVars
<1> QED
  BY <1>1, <1>2, <1>3, <1>4, <1>5, <1>6, <1>7 DEF RunStep, HandlerStep

(* Requests other than runs leave the runs alone, and only a forced unlock   *)
(* touches a busy slot.                                                      *)
LEMMA OtherRequests ==
  ASSUME AgentNext, ~ \E r \in Runs : RunStep(r)
  PROVE  /\ UNCHANGED runVars
         /\ busy' = busy \/ \E d \in Devices : ForceUnlockRPC(d)
BY DEF AgentNext, List, PruneAll, Tick, ForceUnlockRPC, UnlockRPC, ClearLock, ClearLockDenied,
       Prune, LockRPC, Lock, LockAt, LockDenied, LockInvalid, lockerVars

(* Of the steps of a run only acquisition and release touch a busy slot.     *)
LEMMA QuietSteps ==
  ASSUME NEW r \in Runs, RunStep(r), ~acquireAutoLock(r), ~deferredRelease(r)
  PROVE  busy' = busy
BY DEF RunStep, HandlerStep, ModuleStep, BrokerStep, Arrive, receiveCommandRPC, findDUTCmd,
       checkDeviceAccess, CheckAccess, Prune, executeModules, waitError, waitClosed,
       runCancelled, statePanics, cancelRequest, moduleStarts, moduleSkipped, moduleReturns,
       modulesCancelSession, modulesClose, brokerFails, brokerCloses, lockerVars

(* If holders keep their places and busy slots are at most emptied, no hold  *)
(* is orphaned.                                                              *)
LEMMA NoneOrphaned ==
  ASSUME BusyHasRun,
         \A q \in Runs : Keeps(q),
         \A d \in Devices : busy'[d] \in {busy[d], NoHold}
  PROVE  BusyHasRun'
BY DEF BusyHasRun, Keeps

(* Every step keeps every busy hold's run.                                   *)
LEMMA BusyHasRunStep ==
  ASSUME AgentInv, AgentNext
  PROVE  BusyHasRun'
<1> USE DEF AgentInv
<1>0. LockerTypeOK /\ busy \in [Devices -> Hold \cup {NoHold}]
  BY DEF LockerInv, LockerTypeOK
<1>1. CASE ~ \E r \in Runs : RunStep(r)
  <2>1. \A q \in Runs : Keeps(q)
    BY <1>1, OtherRequests DEF runVars, handlerVars, Keeps, Active
  <2>2. \A d \in Devices : busy'[d] \in {busy[d], NoHold}
    BY <1>0, <1>1, OtherRequests DEF ForceUnlockRPC, ForceClearLock
  <2> QED
    BY <2>1, <2>2, NoneOrphaned
<1>2. ASSUME NEW r \in Runs, RunStep(r) PROVE BusyHasRun'
  <2>1. CASE acquireAutoLock(r)
    <3>1. \A q \in Runs : Keeps(q)
      BY <1>2, <2>1, HoldersKeep DEF acquireAutoLock, deferredRelease, Enter
    <3>2. CASE AutoLockDenied(dev[r], user[r])
      BY <3>1, <3>2, NoneOrphaned DEF AutoLockDenied, Prune
    <3>3. CASE AutoLock(dev[r], user[r]) /\ held' = [held EXCEPT ![r] = TRUE]
                 /\ Goto(r, "executeModules")
      <4>1. /\ dev[r] \in Devices /\ user[r] \in Owners /\ dev' = dev /\ user' = user
            /\ held'[r] /\ Active(r)'
        BY <2>1, <3>3 DEF acquireAutoLock, Enter, Goto, Positions, RunTypeOK, Active, FsmStates
      <4>2. busy[dev[r]] # NoHold => busy[dev[r]].owner = user[r]
        BY <1>0, <3>3, <4>1, GrantedAccess DEF AutoLock
      <4>3. /\ \A d \in Devices \ {dev[r]} : busy'[d] = busy[d]
            /\ busy'[dev[r]].owner = user[r]
        BY <1>0, <3>3, <4>1, <4>2 DEF AutoLock
      <4> QED
        BY <3>1, <4>1, <4>3 DEF BusyHasRun, Keeps
    <3> QED
      BY <2>1, <3>2, <3>3 DEF acquireAutoLock
  <2>2. CASE deferredRelease(r)
    <3>1. /\ \A q \in Runs \ {r} : Keeps(q)
          /\ UNCHANGED <<dev, user, held>>
      BY <2>2 DEF deferredRelease, RunTypeOK, Keeps, Active
    <3>2. CASE ~held[r]
      <4>1. \A q \in Runs : Keeps(q)
        BY <3>1, <3>2 DEF Keeps
      <4> QED
        BY <2>2, <3>2, <4>1, NoneOrphaned DEF deferredRelease, lockerVars
    <3>3. CASE held[r]
      <4>1. dev[r] \in Devices
        BY <3>3 DEF Positions
      <4>2. /\ \A d \in Devices : busy'[d] \in {busy[d], NoHold}
            /\ busy'[dev[r]] # NoHold => busy'[dev[r]].owner # user[r]
        BY <1>0, <2>2, <3>3, <4>1
        DEF deferredRelease, ClearAutoLock, ClearAutoLockDenied, OwnedBy, lockerVars
      <4> QED
        BY <3>1, <4>1, <4>2 DEF BusyHasRun, Keeps
    <3> QED
      BY <3>2, <3>3
  <2>3. CASE ~acquireAutoLock(r) /\ ~deferredRelease(r)
    <3>1. \A q \in Runs : Keeps(q)
      BY <1>2, <2>3, HoldersKeep
    <3>2. busy' = busy
      BY <1>2, <2>3, QuietSteps
    <3> QED
      BY <3>1, <3>2, NoneOrphaned
  <2> QED
    BY <2>1, <2>2, <2>3
<1> QED
  BY <1>1, <1>2

-----------------------------------------------------------------------------
(* Before the first request AgentInv holds: nobody runs or holds anything.   *)
LEMMA AgentInitInv == AgentInit => AgentInv
<1> SUFFICES ASSUME AgentInit PROVE AgentInv
  OBVIOUS
<1>1. LockerInv
  BY LockerInitInv DEF AgentInit
<1>2. RunTypeOK /\ Positions
  BY MaxModulesAssumption DEF AgentInit, RunTypeOK, Positions, Channel, FsmStates
<1>3. BusyHasRun
  BY DEF AgentInit, LockerInit, BusyHasRun
<1> QED
  BY <1>1, <1>2, <1>3 DEF AgentInv

(* Every request, run step and tick keeps AgentInv.                          *)
LEMMA AgentStepInv == AgentInv /\ [AgentNext]_agentVars => AgentInv'
<1> SUFFICES ASSUME AgentInv, [AgentNext]_agentVars PROVE AgentInv'
  OBVIOUS
<1> USE DEF AgentInv
<1>1. CASE AgentNext
  <2>1. LockerInv'
    BY <1>1, AgentUsesLocker, LockerStepInv
  <2>2. RunTypeOK' /\ Positions'
    <3>1. CASE \E r \in Runs : RunStep(r)
      BY <3>1, RunStepTypes
    <3>2. CASE UNCHANGED runVars
      BY <3>2 DEF RunTypeOK, Positions, runVars, handlerVars, moduleVars
    <3> QED
      BY <1>1, <3>1, <3>2, OtherRequests
  <2>3. BusyHasRun'
    BY <1>1, BusyHasRunStep
  <2> QED
    BY <2>1, <2>2, <2>3
<1>2. CASE UNCHANGED agentVars
  <2>1. UNCHANGED lockerVars /\ UNCHANGED runVars
    BY <1>2 DEF agentVars
  <2>2. LockerInv'
    BY <2>1, LockerStepInv
  <2>3. RunTypeOK' /\ Positions'
    BY <2>1 DEF RunTypeOK, Positions, runVars, handlerVars, moduleVars
  <2>4. BusyHasRun'
    BY <2>1 DEF BusyHasRun, Active, runVars, handlerVars, lockerVars
  <2> QED
    BY <2>2, <2>3, <2>4
<1> QED
  BY <1>1, <1>2

(* AgentInv holds in every state.                                            *)
LEMMA AgentInvAlways == AgentSpec => []AgentInv
BY AgentInitInv, AgentStepInv, PTL DEF AgentSpec

(* The variables of every run keep their types; in particular no run         *)
(* executes more modules than its command has.                               *)
THEOREM AgentTypeCorrect == AgentSpec => []AgentTypeOK
<1>1. AgentInv => AgentTypeOK
  BY DEF AgentInv, AgentTypeOK, LockerInv
<1> QED
  BY <1>1, AgentInvAlways, PTL

(* No busy hold is ever orphaned, whatever ends a run: an error, success, a  *)
(* cancellation or a panic, and whatever other runs and forced unlocks do to *)
(* the device meanwhile.                                                     *)
THEOREM BusyHasRunAlways == AgentSpec => []BusyHasRun
<1>1. AgentInv => BusyHasRun
  BY DEF AgentInv
<1> QED
  BY <1>1, AgentInvAlways, PTL

(* Concurrent requests and runs, which consult the lock table in several     *)
(* steps, still pass a device from one owner to another only when it is free.*)
THEOREM AgentImplementsLease == AgentSpec => LeaseSpec
<1>1. AgentInit => Lease!Init
  BY LeaseInit DEF AgentInit
<1>2. AgentInv /\ AgentInv' /\ [AgentNext]_agentVars => [Lease!Next]_holder
  <2> SUFFICES ASSUME AgentInv, AgentInv', [AgentNext]_agentVars
               PROVE  [Lease!Next]_holder
    OBVIOUS
  <2>1. LockerInv /\ LockerInv'
    BY DEF AgentInv
  <2>2. [LockerNext]_lockerVars
    BY AgentUsesLocker DEF AgentInv, agentVars
  <2> QED
    BY <2>1, <2>2, LeaseNext
<1> QED
  BY <1>1, <1>2, AgentInvAlways, PTL DEF AgentSpec, LeaseSpec, Lease!Spec

-----------------------------------------------------------------------------
(* Exclusion, among users who run one command at a time and force nothing.   *)

(* A user waits for one command to return before starting the next.          *)
OneRunPerUser ==
  \A q, r \in Runs : q # r /\ Active(q) /\ Active(r) => user[q] # user[r]

(* Every run that has taken its device and not released it owns the hold;    *)
(* this is what a second run of the same user, or a forced unlock, breaks.   *)
HoldersOwn == \A r \in Runs : Active(r) /\ held[r] => OwnedBy(busy[dev[r]], user[r])

(* A handler that starts modules or waits for them has taken its device.     *)
ExecutingHold == \A r \in Runs : Executing(r) => held[r]

(* The users do neither of the two things that defeat exclusion.             *)
Polite == ~SameUserOverlap /\ ~ForcedUnlock

(* The inductive invariant of exclusion.                                     *)
ExclusionInv == Polite /\ AgentInv /\ OneRunPerUser /\ HoldersOwn /\ ExecutingHold

(* Has r taken its device and not yet returned?                              *)
Held(r) == Active(r) /\ held[r]

(* If r holds its device or executes after a step, it did so before.         *)
Inherits(r) ==
  /\ Held(r)' => Held(r) /\ dev'[r] = dev[r] /\ user'[r] = user[r]
  /\ Executing(r)' => Executing(r) /\ held'[r] = held[r]

(* No step of a run but acquireAutoLock makes anybody a holder or lets       *)
(* anybody start executing.                                                  *)
LEMMA HoldersInherit ==
  ASSUME RunTypeOK, Positions, NEW r \in Runs, RunStep(r), ~acquireAutoLock(r)
  PROVE  \A q \in Runs : Inherits(q)
<1> USE DEF RunTypeOK, Positions, FsmStates, Active, Executing, Held, Inherits
<1>1. ASSUME NEW o \in Owners, Arrive(r, o) PROVE \A q \in Runs : Inherits(q)
  BY <1>1 DEF Arrive
<1>2. CASE receiveCommandRPC(r) \/ findDUTCmd(r) \/ checkDeviceAccess(r)
  BY <1>2 DEF receiveCommandRPC, findDUTCmd, checkDeviceAccess, Enter, Goto, FsmFails, FsmEnds
<1>3. CASE deferredRelease(r)
  BY <1>3 DEF deferredRelease
<1>4. CASE executeModules(r) \/ waitError(r)
  BY <1>4 DEF executeModules, waitError, Enter, Goto, FsmFails, FsmEnds
<1>5. CASE waitClosed(r)
  <2>1. UNCHANGED <<user, dev, held>> /\ (FsmEnds(r, "ok") \/ UNCHANGED pc) /\ pc[r] = "waitModules"
    BY <1>5 DEF waitClosed
  <2> QED
    BY <2>1 DEF FsmEnds
<1>6. CASE runCancelled(r) \/ statePanics(r)
  BY <1>6 DEF runCancelled, statePanics, FsmFails, FsmEnds
<1>7. CASE cancelRequest(r) \/ ModuleStep(r) \/ BrokerStep(r)
  BY <1>7 DEF cancelRequest, ModuleStep, moduleStarts, moduleSkipped, moduleReturns,
              modulesCancelSession, modulesClose, BrokerStep, brokerFails, brokerCloses, handlerVars
<1> QED
  BY <1>1, <1>2, <1>3, <1>4, <1>5, <1>6, <1>7 DEF RunStep, HandlerStep

(* A user has one active run: Arrive is the only step that makes a run       *)
(* active or names its user.                                                 *)
LEMMA OneRunStep ==
  ASSUME ExclusionInv, NEW r \in Runs, RunStep(r)
  PROVE  OneRunPerUser'
<1> USE DEF ExclusionInv, AgentInv, RunTypeOK, Active, FsmStates, OneRunPerUser
<1>1. ASSUME NEW o \in Owners, Arrive(r, o) PROVE OneRunPerUser'
  BY <1>1 DEF Arrive, Polite
<1>2. ASSUME user' = user, \A q \in Runs : Active(q)' => Active(q)
      PROVE  OneRunPerUser'
  BY <1>2
<1>3. CASE receiveCommandRPC(r) \/ findDUTCmd(r) \/ checkDeviceAccess(r) \/ acquireAutoLock(r)
  BY <1>2, <1>3 DEF receiveCommandRPC, findDUTCmd, checkDeviceAccess, acquireAutoLock, Enter,
                    Goto, FsmFails, FsmEnds
<1>4. CASE executeModules(r) \/ waitError(r) \/ runCancelled(r) \/ statePanics(r)
  BY <1>2, <1>4 DEF executeModules, waitError, runCancelled, statePanics, Enter, Goto,
                    FsmFails, FsmEnds
<1>5. CASE waitClosed(r)
  <2>1. UNCHANGED user /\ (FsmEnds(r, "ok") \/ UNCHANGED pc) /\ pc[r] = "waitModules"
    BY <1>5 DEF waitClosed
  <2> QED
    BY <1>2, <2>1 DEF FsmEnds
<1>6. CASE deferredRelease(r)
  BY <1>2, <1>6 DEF deferredRelease
<1>7. CASE cancelRequest(r) \/ ModuleStep(r) \/ BrokerStep(r)
  BY <1>2, <1>7 DEF cancelRequest, ModuleStep, moduleStarts, moduleSkipped, moduleReturns,
              modulesCancelSession, modulesClose, BrokerStep, brokerFails, brokerCloses, handlerVars
<1> QED
  BY <1>1, <1>3, <1>4, <1>5, <1>6, <1>7 DEF RunStep, HandlerStep

(* Holders keep owning their holds and only holders execute.                 *)
LEMMA OwnStep ==
  ASSUME ExclusionInv, NEW r \in Runs, RunStep(r)
  PROVE  HoldersOwn' /\ ExecutingHold'
<1> USE DEF ExclusionInv, AgentInv
<1>0. LockerTypeOK /\ busy \in [Devices -> Hold \cup {NoHold}]
  BY DEF LockerInv, LockerTypeOK
<1>1. CASE acquireAutoLock(r)
  <2>1. CASE AutoLockDenied(dev[r], user[r]) /\ FsmFails(r) /\ UNCHANGED held
    BY <1>1, <2>1 DEF acquireAutoLock, AutoLockDenied, Prune, FsmFails, FsmEnds, Enter, HoldersOwn,
                      ExecutingHold, Executing, Active, RunTypeOK, FsmStates
  <2>2. CASE AutoLock(dev[r], user[r]) /\ held' = [held EXCEPT ![r] = TRUE]
               /\ Goto(r, "executeModules")
    <3>1. /\ dev[r] \in Devices /\ user[r] \in Owners /\ dev' = dev /\ user' = user
          /\ held'[r] /\ pc'[r] = "executeModules" /\ pc[r] = "acquireAutoLock"
          /\ \A q \in Runs \ {r} : pc'[q] = pc[q] /\ held'[q] = held[q]
      BY <1>1, <2>2 DEF acquireAutoLock, Enter, Goto, Positions, RunTypeOK, FsmStates
    <3>2. busy[dev[r]] # NoHold => busy[dev[r]].owner = user[r]
      BY <1>0, <2>2, <3>1, GrantedAccess DEF AutoLock
    <3>3. \A d \in Devices : busy[d] # NoHold => busy'[d] = busy[d]
      BY <1>0, <2>2, <3>1 DEF AutoLock
    <3>4. OwnedBy(busy'[dev[r]], user[r])
      <4>1. CASE busy[dev[r]] # NoHold
        BY <3>1, <3>2, <3>3, <4>1 DEF OwnedBy
      <4>2. CASE busy[dev[r]] = NoHold
        <5>1. busy'[dev[r]] = [owner |-> user[r], lockedAt |-> now,
                               expiresAt |-> ZeroTime, kind |-> "busy"]
          BY <1>0, <2>2, <3>1, <4>2 DEF AutoLock
        <5>2. busy'[dev[r]] \in Hold
          BY <5>1, <3>1, <1>0 DEF Hold, LockerTypeOK, ZeroTime
        <5> QED
          BY <5>1, <5>2, NoHoldAssumption DEF OwnedBy
      <4> QED
        BY <4>1, <4>2
    <3>5. ExecutingHold'
      BY <3>1 DEF ExecutingHold, Executing
    <3>6. ASSUME NEW q \in Runs \ {r}, Active(q)', held'[q]
          PROVE  OwnedBy(busy'[dev'[q]], user'[q])
      <4>1. Active(q) /\ held[q] /\ dev[q] \in Devices
        BY <3>1, <3>6 DEF Active, Positions
      <4> QED
        BY <3>1, <3>3, <4>1 DEF HoldersOwn, OwnedBy
    <3> QED
      BY <3>1, <3>4, <3>5, <3>6 DEF HoldersOwn
  <2> QED
    BY <1>1, <2>1, <2>2 DEF acquireAutoLock
<1>2. CASE ~acquireAutoLock(r)
  <2>1. \A q \in Runs : Inherits(q)
    BY <1>2, HoldersInherit
  <2>2. ExecutingHold'
    BY <2>1 DEF Inherits, ExecutingHold
  <2>3. CASE deferredRelease(r)
    <3>1. pc'[r] = "returned" /\ pc[r] = "deferred"
      BY <2>3 DEF deferredRelease, RunTypeOK
    <3>2. ASSUME NEW q \in Runs, Held(q)'
          PROVE  OwnedBy(busy'[dev[q]], user[q])
      <4>1. q # r /\ Held(q) /\ dev[q] \in Devices
        BY <2>1, <3>1, <3>2 DEF Inherits, Held, Active, FsmStates, Positions
      <4>2. OwnedBy(busy[dev[q]], user[q])
        BY <4>1 DEF HoldersOwn, Held
      <4>3. user[q] # user[r]
        BY <3>1, <4>1 DEF OneRunPerUser, Held, Active
      <4>4. busy'[dev[q]] = busy[dev[q]]
        BY <1>0, <2>3, <4>1, <4>2, <4>3
        DEF deferredRelease, ClearAutoLock, ClearAutoLockDenied, OwnedBy, lockerVars
      <4> QED
        BY <4>2, <4>4
    <3> QED
      BY <2>1, <2>2, <3>2 DEF HoldersOwn, Inherits, Held
  <2>4. CASE ~deferredRelease(r)
    <3>1. busy' = busy
      BY <1>2, <2>4, QuietSteps
    <3> QED
      BY <2>1, <2>2, <3>1 DEF HoldersOwn, Inherits, Held
  <2> QED
    BY <2>3, <2>4
<1> QED
  BY <1>1, <1>2

(* Before the first request nobody executes.                                 *)
LEMMA ExclusionInit == Polite /\ AgentInit => ExclusionInv
<1>1. AgentInit => AgentInv
  BY AgentInitInv
<1>2. AgentInit => OneRunPerUser /\ HoldersOwn /\ ExecutingHold
  BY DEF AgentInit, OneRunPerUser, HoldersOwn, ExecutingHold, Executing, Active, FsmStates
<1> QED
  BY <1>1, <1>2 DEF ExclusionInv

(* Every step keeps the exclusion invariant, when users are polite.          *)
LEMMA ExclusionStep == ExclusionInv /\ [AgentNext]_agentVars => ExclusionInv'
<1> SUFFICES ASSUME ExclusionInv, [AgentNext]_agentVars PROVE ExclusionInv'
  OBVIOUS
<1>1. AgentInv' /\ Polite'
  BY AgentStepInv DEF ExclusionInv, Polite
<1>2. CASE \E r \in Runs : RunStep(r)
  BY <1>1, <1>2, OneRunStep, OwnStep DEF ExclusionInv
<1>3. CASE UNCHANGED runVars /\ busy' = busy
  BY <1>1, <1>3 DEF ExclusionInv, OneRunPerUser, HoldersOwn, ExecutingHold, Executing, Active,
                    runVars, handlerVars
<1>4. CASE AgentNext /\ ~ \E r \in Runs : RunStep(r)
  BY <1>3, <1>4, OtherRequests DEF ExclusionInv, Polite, ForceUnlockRPC
<1>5. CASE UNCHANGED agentVars
  BY <1>3, <1>5 DEF agentVars, lockerVars
<1> QED
  BY <1>2, <1>4, <1>5

(* The exclusion invariant holds in every state.                             *)
LEMMA ExclusionInvAlways == Polite /\ AgentSpec => []ExclusionInv
BY ExclusionInit, ExclusionStep, PTL DEF AgentSpec

(* Without overlapping runs of one user and forced unlocks a device is busy  *)
(* while the handler of a run executes.                                      *)
THEOREM BusyWhileExecutingAlways ==
  (~SameUserOverlap /\ ~ForcedUnlock) /\ AgentSpec => []BusyWhileExecuting
<1>1. ExclusionInv => BusyWhileExecuting
  BY DEF ExclusionInv, HoldersOwn, ExecutingHold, BusyWhileExecuting, Executing, Active, FsmStates, OwnedBy
<1>2. (~SameUserOverlap /\ ~ForcedUnlock) => Polite
  BY DEF Polite
<1> QED
  BY <1>1, <1>2, ExclusionInvAlways, PTL

-----------------------------------------------------------------------------
(* Success is reported honestly. *)

(* How far the goroutines of a run are, and what waitModules has seen of     *)
(* them: a channel is closed for good, the modules' channel only behind the  *)
(* last module, and neither exists before executeModules made it.            *)
GoroutinesOK(r) ==
  /\ pc[r] \in {"idle"} \cup (FsmStates \ {"waitModules"}) =>
       mpc[r] = "none" /\ moduleErrCh[r] = "none" /\ brokerErrCh[r] = "none"
  /\ moduleErrCh[r] = "closed" => left[r] = 0 /\ mpc[r] = "ended"
  /\ mpc[r] = "succeeded" => left[r] = 0
  /\ brokerDone[r] => brokerErrCh[r] = "closed"
  /\ moduleDone[r] => moduleErrCh[r] = "closed"
  /\ result[r] = "ok" => pc[r] \in {"deferred", "returned"} /\ brokerDone[r] /\ moduleDone[r]
  /\ pc[r] \in {"deferred", "returned"} => result[r] # "none"
(* The inductive invariant of OkIsHonest.                                    *)
HonestInv == AgentInv /\ \A r \in Runs : GoroutinesOK(r)

(* A step of one run leaves the handler, goroutines and channels of the      *)
(* others alone.                                                             *)
LEMMA OthersUntouched ==
  ASSUME RunTypeOK, NEW r \in Runs, RunStep(r), NEW q \in Runs \ {r}
  PROVE  /\ pc'[q] = pc[q] /\ result'[q] = result[q]
         /\ brokerDone'[q] = brokerDone[q] /\ moduleDone'[q] = moduleDone[q]
         /\ mpc'[q] = mpc[q] /\ left'[q] = left[q]
         /\ moduleErrCh'[q] = moduleErrCh[q] /\ brokerErrCh'[q] = brokerErrCh[q]
<1> USE DEF RunTypeOK
<1>1. CASE \E o \in Owners : Arrive(r, o)
  BY <1>1 DEF Arrive, moduleVars
<1>2. CASE receiveCommandRPC(r) \/ findDUTCmd(r) \/ checkDeviceAccess(r) \/ acquireAutoLock(r)
  BY <1>2 DEF receiveCommandRPC, findDUTCmd, checkDeviceAccess, acquireAutoLock, Goto, FsmFails,
              FsmEnds, moduleVars
<1>3. CASE executeModules(r) \/ waitError(r)
  BY <1>3 DEF executeModules, waitError, Goto, FsmFails, FsmEnds
<1>4. CASE waitClosed(r)
  <2>1. /\ FsmEnds(r, "ok") \/ UNCHANGED <<pc, result>>
        /\ UNCHANGED <<mpc, left, moduleErrCh, brokerErrCh>>
    BY <1>4 DEF waitClosed, moduleVars
  <2>2. brokerDone'[q] = brokerDone[q] /\ moduleDone'[q] = moduleDone[q]
    BY <1>4 DEF waitClosed
  <2> QED
    BY <2>1, <2>2 DEF FsmEnds
<1>5. CASE runCancelled(r) \/ statePanics(r) \/ deferredRelease(r) \/ cancelRequest(r)
  BY <1>5 DEF runCancelled, statePanics, deferredRelease, cancelRequest, FsmFails, FsmEnds,
              handlerVars, moduleVars
<1>6. CASE ModuleStep(r) \/ BrokerStep(r)
  BY <1>6 DEF ModuleStep, moduleStarts, moduleSkipped, moduleReturns, modulesCancelSession,
              modulesClose, BrokerStep, brokerFails, brokerCloses, handlerVars, moduleVars
<1> QED
  BY <1>1, <1>2, <1>3, <1>4, <1>5, <1>6 DEF RunStep, HandlerStep

(* Every step of a run keeps its own goroutines in order; one step per       *)
(* action.                                                                   *)
LEMMA OwnGoroutines ==
  ASSUME RunTypeOK, Positions, NEW r \in Runs, RunStep(r), GoroutinesOK(r)
  PROVE  GoroutinesOK(r)'
<1> USE DEF RunTypeOK, GoroutinesOK, FsmStates
<1>1. CASE \E o \in Owners : Arrive(r, o)
  BY <1>1 DEF Arrive, moduleVars
<1>2. CASE receiveCommandRPC(r) \/ findDUTCmd(r) \/ checkDeviceAccess(r) \/ acquireAutoLock(r)
  BY <1>2 DEF receiveCommandRPC, findDUTCmd, checkDeviceAccess, acquireAutoLock, Enter, Goto,
              FsmFails, FsmEnds, moduleVars
<1>3. CASE executeModules(r)
  BY <1>3 DEF executeModules, Enter, Goto, FsmFails, FsmEnds
<1>4. CASE waitError(r)
  BY <1>4 DEF waitError, FsmFails, FsmEnds
<1>5. CASE waitClosed(r)
  <2>1. /\ pc[r] = "waitModules" /\ result[r] # "ok"
        /\ UNCHANGED <<mpc, left, moduleErrCh, brokerErrCh>>
    BY <1>5 DEF waitClosed, moduleVars
  <2>2. /\ brokerDone'[r] => brokerErrCh[r] = "closed"
        /\ moduleDone'[r] => moduleErrCh[r] = "closed"
    BY <1>5 DEF waitClosed
  <2>3. CASE brokerDone'[r] /\ moduleDone'[r] /\ FsmEnds(r, "ok")
    BY <2>1, <2>2, <2>3 DEF FsmEnds
  <2>4. CASE UNCHANGED <<pc, result>>
    BY <2>1, <2>2, <2>4
  <2> QED
    BY <1>5, <2>3, <2>4 DEF waitClosed
<1>6. CASE runCancelled(r) \/ statePanics(r)
  BY <1>6 DEF runCancelled, statePanics, FsmFails, FsmEnds, moduleVars
<1>7. CASE deferredRelease(r) \/ cancelRequest(r)
  BY <1>7 DEF deferredRelease, cancelRequest, handlerVars, moduleVars
<1>8. CASE moduleStarts(r) \/ moduleSkipped(r)
  BY <1>8 DEF moduleStarts, moduleSkipped, handlerVars
<1>9. CASE moduleReturns(r)
  BY <1>9 DEF moduleReturns, handlerVars
<1>10. CASE modulesCancelSession(r) \/ modulesClose(r)
  BY <1>10 DEF modulesCancelSession, modulesClose, handlerVars
<1>11. CASE brokerFails(r) \/ brokerCloses(r)
  BY <1>11 DEF brokerFails, brokerCloses, handlerVars, moduleVars
<1> QED
  BY <1>1, <1>2, <1>3, <1>4, <1>5, <1>6, <1>7, <1>8, <1>9, <1>10, <1>11
  DEF RunStep, HandlerStep, ModuleStep, BrokerStep

(* Every step keeps the goroutines of every run in order.                    *)
LEMMA HonestStep == HonestInv /\ [AgentNext]_agentVars => HonestInv'
<1> SUFFICES ASSUME HonestInv, [AgentNext]_agentVars PROVE HonestInv'
  OBVIOUS
<1>1. AgentInv' /\ RunTypeOK /\ Positions
  BY AgentStepInv DEF HonestInv, AgentInv
<1>2. ASSUME NEW r \in Runs, RunStep(r), NEW q \in Runs PROVE GoroutinesOK(q)'
  <2>1. CASE q = r
    BY <1>1, <1>2, <2>1, OwnGoroutines DEF HonestInv
  <2>2. CASE q # r
    BY <1>1, <1>2, <2>2, OthersUntouched DEF HonestInv, GoroutinesOK
  <2> QED
    BY <2>1, <2>2
<1>3. CASE UNCHANGED runVars
  BY <1>1, <1>3 DEF HonestInv, GoroutinesOK, runVars, handlerVars, moduleVars
<1>4. CASE \E r \in Runs : RunStep(r)
  BY <1>1, <1>2, <1>4 DEF HonestInv
<1> QED
  BY <1>3, <1>4, OtherRequests DEF agentVars

(* The invariant of the goroutines holds in every state.                     *)
LEMMA HonestInvAlways == AgentSpec => []HonestInv
<1>1. AgentInit => HonestInv
  BY AgentInitInv DEF AgentInit, HonestInv, GoroutinesOK
<1> QED
  BY <1>1, HonestStep, PTL DEF AgentSpec

(* A run that reports success ran every module to its end, and its session   *)
(* ended without an error left unread, whatever order the goroutines end in  *)
(* and whichever of them is cancelled or panics.                             *)
THEOREM OkIsHonestAlways == AgentSpec => []OkIsHonest
<1>1. HonestInv => OkIsHonest
  BY DEF HonestInv, GoroutinesOK, OkIsHonest
<1> QED
  BY <1>1, HonestInvAlways, PTL

(* Without overlapping runs of one user and forced unlocks, commands of      *)
(* different users never use one device at a time, although access is        *)
(* checked and acquired in two steps of the FSM.  The one exception is a      *)
(* module that a failed run has left at work: a handler that waits owns the   *)
(* hold, and one that succeeded has seen its last module return.             *)
THEOREM HandlerExclusionAlways ==
  (~SameUserOverlap /\ ~ForcedUnlock) /\ AgentSpec => []HandlerExclusion
<1>1. ExclusionInv /\ HonestInv => HandlerExclusion
  <2> SUFFICES ASSUME ExclusionInv, HonestInv, NEW q \in Runs, NEW r \in Runs, InUse(q), InUse(r), dev[q] = dev[r],
                      ~Abandoned(q), ~Abandoned(r)
               PROVE  user[q] = user[r]
    BY DEF HandlerExclusion
  <2>1. ASSUME NEW x \in Runs, InUse(x), ~Abandoned(x) PROVE Executing(x)
    BY <2>1 DEF HonestInv, GoroutinesOK, InUse, Abandoned, Executing, FsmStates, AgentInv, RunTypeOK
  <2>2. Executing(q) /\ Executing(r)
    BY <2>1
  <2> QED
    BY <2>2 DEF ExclusionInv, HoldersOwn, ExecutingHold, Executing, Active, FsmStates, OwnedBy
<1>2. (~SameUserOverlap /\ ~ForcedUnlock) => Polite
  BY DEF Polite
<1> QED
  BY <1>1, <1>2, ExclusionInvAlways, HonestInvAlways, PTL

-----------------------------------------------------------------------------
(* A run takes only what is its own. *)

(* What BusyReleasedByOwner allows to happen to the busy slot of d.          *)
ReleasedByOwner(d) ==
  busy[d] # NoHold /\ busy'[d] # busy[d] =>
    /\ busy'[d] = NoHold
    /\ \/ ForceUnlockRPC(d)
       \/ \E r \in Runs : /\ pc[r] = "deferred" /\ pc'[r] = "returned"
                          /\ dev[r] = d /\ user[r] = busy[d].owner

(* Acquisition leaves a hold that is there alone, and a release takes the    *)
(* hold of the run's own user or none.                                       *)
LEMMA ReleasedByOwnerStep ==
  ASSUME AgentInv, AgentNext, NEW d \in Devices
  PROVE  ReleasedByOwner(d)
<1> USE DEF AgentInv, ReleasedByOwner
<1>0. busy \in [Devices -> Hold \cup {NoHold}]
  BY DEF LockerInv, LockerTypeOK
<1>1. CASE ~ \E r \in Runs : RunStep(r)
  <2>1. CASE busy' = busy
    BY <2>1
  <2>2. ASSUME NEW e \in Devices, ForceUnlockRPC(e) PROVE ReleasedByOwner(d)
    BY <1>0, <2>2 DEF ForceUnlockRPC, ForceClearLock
  <2> QED
    BY <1>1, <2>1, <2>2, OtherRequests
<1>2. ASSUME NEW r \in Runs, RunStep(r) PROVE ReleasedByOwner(d)
  <2>1. CASE acquireAutoLock(r)
    <3>1. busy[d] # NoHold => busy'[d] = busy[d]
      BY <1>0, <2>1 DEF acquireAutoLock, AutoLock, AutoLockDenied, Prune
    <3> QED
      BY <3>1
  <2>2. CASE deferredRelease(r)
    <3>1. pc[r] = "deferred" /\ pc'[r] = "returned"
      BY <2>2 DEF deferredRelease, RunTypeOK
    <3>2. busy'[d] # busy[d] => busy'[d] = NoHold /\ dev[r] = d /\ user[r] = busy[d].owner
      BY <1>0, <2>2 DEF deferredRelease, ClearAutoLock, ClearAutoLockDenied, OwnedBy, lockerVars
    <3> QED
      BY <3>1, <3>2
  <2>3. CASE ~acquireAutoLock(r) /\ ~deferredRelease(r)
    BY <1>2, <2>3, QuietSteps
  <2> QED
    BY <2>1, <2>2, <2>3
<1> QED
  BY <1>1, <1>2

(* Pruning drops expired reservations only.                                  *)
LEMMA PruneKeepsLive ==
  ASSUME reserved \in [Devices -> Hold \cup {NoHold}], NEW e, NEW d \in Devices,
         reserved[d] # NoHold, ~isExpired(reserved[d], now)
  PROVE  liveReservation(reserved, e, now)[d] = reserved[d]
BY DEF liveReservation

(* The calls a run makes on the lock table keep live reservations.           *)
LEMMA RunKeepsReservation ==
  ASSUME AgentInv, NEW r \in Runs, RunStep(r), NEW d \in Devices,
         reserved[d] # NoHold, ~isExpired(reserved[d], now)
  PROVE  reserved'[d] = reserved[d]
<1>0. reserved \in [Devices -> Hold \cup {NoHold}]
  BY DEF AgentInv, LockerInv, LockerTypeOK
<1>1. \A e : liveReservation(reserved, e, now)[d] = reserved[d]
  BY <1>0, PruneKeepsLive
<1>2. CASE checkDeviceAccess(r)
  BY <1>1, <1>2 DEF checkDeviceAccess, CheckAccess, Prune
<1>3. CASE acquireAutoLock(r)
  BY <1>1, <1>3 DEF acquireAutoLock, AutoLock, AutoLockDenied, Prune
<1>4. CASE deferredRelease(r)
  BY <1>1, <1>4 DEF deferredRelease, ClearAutoLock, ClearAutoLockDenied, Prune, lockerVars
<1>5. CASE UNCHANGED lockerVars
  BY <1>5 DEF lockerVars
<1> QED
  BY <1>2, <1>3, <1>4, <1>5
  DEF RunStep, HandlerStep, ModuleStep, BrokerStep, Arrive, receiveCommandRPC, findDUTCmd,
      executeModules, waitError, waitClosed, runCancelled, statePanics, cancelRequest,
      moduleStarts, moduleSkipped, moduleReturns, modulesCancelSession, modulesClose,
      brokerFails, brokerCloses

(* A run takes from the lock table only what it has put there: its release   *)
(* spares the hold another owner acquired after a forced unlock, and no step *)
(* of a run costs anybody a reservation that has not expired.                *)
THEOREM RunsTakeOnlyTheirsAlways == AgentSpec => RunsTakeOnlyTheirs
<1>1. AgentInv /\ [AgentNext]_agentVars =>
        [\A d \in Devices : busy[d] # NoHold /\ busy'[d] # busy[d] =>
           /\ busy'[d] = NoHold
           /\ \/ ForceUnlockRPC(d)
              \/ \E r \in Runs : /\ pc[r] = "deferred" /\ pc'[r] = "returned"
                                 /\ dev[r] = d /\ user[r] = busy[d].owner]_agentVars
  BY ReleasedByOwnerStep DEF ReleasedByOwner
<1>2. AgentInv /\ [AgentNext]_agentVars =>
        [(\E r \in Runs : pc'[r] # pc[r]) =>
           \A d \in Devices : reserved[d] # NoHold /\ ~isExpired(reserved[d], now) =>
             reserved'[d] = reserved[d]]_agentVars
  <2>1. CASE \E r \in Runs : RunStep(r)
    BY <2>1, RunKeepsReservation
  <2>2. CASE UNCHANGED runVars
    BY <2>2 DEF runVars, handlerVars
  <2> QED
    BY <2>1, <2>2, OtherRequests DEF agentVars
<1> QED
  BY <1>1, <1>2, AgentInvAlways, PTL
  DEF AgentSpec, RunsTakeOnlyTheirs, BusyReleasedByOwner, RunsKeepReservations
=============================================================================
