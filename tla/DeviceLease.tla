---------------------------- MODULE DeviceLease -----------------------------
(***************************************************************************)
(* What a user of dutctl is promised about a device, whatever combination  *)
(* of reservations and running commands stands behind it: at any moment it *)
(* belongs to one owner or to nobody, and it passes from one owner to      *)
(* another only through a moment in which it is free.                      *)
(***************************************************************************)
CONSTANTS Devices, Owners, Free

VARIABLE holder   \* holder[d]: the owner of d, or Free

Init == holder = [d \in Devices |-> Free]

(* Time passes for all devices at once, so any number of leases may end in  *)
(* one step; at most one device finds a new owner in it.                    *)
KeepOrEnd(d) == holder'[d] \in {holder[d], Free}

Take(d) == holder[d] = Free /\ holder'[d] \in Owners

Next ==
  /\ holder' \in [Devices -> Owners \cup {Free}]
  /\ \/ \A d \in Devices : KeepOrEnd(d)
     \/ \E d \in Devices : Take(d) /\ \A e \in Devices \ {d} : KeepOrEnd(e)

Spec == Init /\ [][Next]_holder
=============================================================================
