----------------------------- MODULE MCLifecycle -----------------------------
(* Two agents that claim one device in common, and their server.  One of them *)
(* has two modules and is started in every mode.                             *)
EXTENDS Lifecycle, TLC

CONSTANTS a1, a2, d1, d2, m1, m2
MCDevicesOf == a1 :> {d1, d2} @@ a2 :> {d2}
MCModulesOf == a1 :> {m1, m2} @@ a2 :> {}
MCModesOf == a1 :> AllModes @@ a2 :> {"registered"}
==============================================================================
