------------------------------- MODULE MCAgent -------------------------------
(* A few concurrent runs of a few users.  Runs are interchangeable: nothing   *)
(* but their own requests tells them apart.                                   *)
EXTENDS Agent, TLC

RunSymmetry == Permutations(Runs)

(* TLC's symmetry is not sound for liveness.  There the runs are taken in the *)
(* order of their arrival, and of users that are all alike the first to run   *)
(* a command is always the same one.                                          *)
FirstRun == CHOOSE r \in Runs : TRUE
FirstUser == CHOOSE o \in Owners : TRUE

InOrder ==
  (\E r \in Runs : pc[r] # "idle") =>
    pc[FirstRun] # "idle" /\ user[FirstRun] = FirstUser

OrderedFairSpec ==
  AgentInit /\ [][AgentNext /\ InOrder']_agentVars /\ HandlerFairness
==============================================================================
