------------------------------ MODULE ModuleRun ------------------------------
(***************************************************************************)
(* The life of one module instance: Init, any number of Runs, Deinit.  The   *)
(* instance is shared by all Runs of its command, so what one leaves behind  *)
(* the next one finds.  Runs may also overlap: the same user may run the     *)
(* command twice at a time, a module that ignores the end of its request     *)
(* goes on beside the next Run, and Deinit comes under it after the grace    *)
(* period.  One Run is followed step by step; every other Run of the         *)
(* instance is what it does, at any moment, to the state they share.         *)
(***************************************************************************)
EXTENDS Integers, Sequences, FiniteSets

CONSTANTS
  Instances,  \* configured modules: records with at least the field kind
  MaxRuns,    \* how often the command is run
  MaxOverlap  \* how many other Runs are under way at the same time

ASSUME ModuleRunAssumption == MaxRuns \in Nat /\ MaxOverlap \in Nat

VARIABLES
  mod,        \* the module instance and its configuration
  life,       \* "new", "ready", "failed" (its Init returned an error), "gone"
  pc,         \* where its Run is, "idle" between Runs
  cmd,        \* the arguments of that Run
  cancelled,  \* the context of that Run is done
  outcome,    \* of the last Run: "none", "ok" or "error"
  runs,       \* how often Run was called
  overlapped  \* history: another Run, or Deinit, came between the steps of this Run or after it

runVars == <<mod, life, pc, cmd, cancelled, outcome, runs, overlapped>>

kind == mod.kind

(* Where a step of Run leads.                                               *)
To(place) == pc' = place /\ UNCHANGED <<mod, life, cmd, cancelled, outcome, runs, overlapped>>
Return(result) ==
  /\ pc' = "idle" /\ outcome' = result /\ cancelled' = FALSE
  /\ UNCHANGED <<mod, life, cmd, runs, overlapped>>

(* The agent calls Init; a module that is not functional ends the agent.     *)
InitReturns(ok) ==
  /\ life = "new" /\ life' = IF ok THEN "ready" ELSE "failed"
  /\ UNCHANGED <<mod, pc, cmd, cancelled, outcome, runs, overlapped>>

(* The Run that is followed begins when the one before has ended; the others  *)
(* need not have.                                                           *)
RunCalled(args) ==
  /\ life = "ready" /\ pc = "idle" /\ runs < MaxRuns
  /\ pc' = "begin" /\ cmd' = args /\ runs' = runs + 1 /\ outcome' = "none"
  /\ overlapped' = FALSE /\ UNCHANGED <<mod, life, cancelled>>

(* Another Run of the instance does something to what they share.           *)
OtherRun ==
  /\ life \in {"ready", "gone"} /\ overlapped' = TRUE
  /\ UNCHANGED <<mod, life, pc, cmd, cancelled, outcome, runs>>

(* The client is gone or the command was aborted.                           *)
Cancel ==
  /\ pc # "idle" /\ ~cancelled /\ cancelled' = TRUE
  /\ UNCHANGED <<mod, life, pc, cmd, outcome, runs, overlapped>>

(* The agent shuts down.  It waits for Runs, but not for ever.              *)
DeinitCalled ==
  /\ life \in {"new", "ready", "failed"} /\ life' = "gone"
  /\ overlapped' = IF pc = "idle" THEN overlapped ELSE TRUE
  /\ UNCHANGED <<mod, pc, cmd, cancelled, outcome, runs>>

RunInit ==
  /\ mod \in Instances
  /\ life = "new" /\ pc = "idle" /\ cmd = <<>> /\ cancelled = FALSE /\ outcome = "none" /\ runs = 0
  /\ overlapped = FALSE

RunTypeOK ==
  /\ mod \in Instances /\ life \in {"new", "ready", "failed", "gone"}
  /\ cancelled \in BOOLEAN /\ outcome \in {"none", "ok", "error"} /\ runs \in 0..MaxRuns /\ overlapped \in BOOLEAN
  /\ (pc = "idle" => ~cancelled) /\ (pc # "idle" => life \in {"ready", "gone"} /\ outcome = "none")
=============================================================================
