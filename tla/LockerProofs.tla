---------------------------- MODULE LockerProofs ----------------------------
(***************************************************************************)
(* Proofs about the lock table, for any devices, owners, durations and any *)
(* bound of the clock, and that it implements DeviceLease.                 *)
(***************************************************************************)
EXTENDS Locker, TLAPS

(* Looking a reservation up changes at most its own slot, and only to empty  *)
(* it when its hold has expired (liveReservation).                           *)
LEMMA LookupShape ==
  ASSUME NEW r \in [Devices -> Hold \cup {NoHold}], NEW d \in Devices, NEW t \in Nat
  PROVE  /\ liveReservation(r, d, t) \in [Devices -> Hold \cup {NoHold}]
         /\ \A e \in Devices \ {d} : liveReservation(r, d, t)[e] = r[e]
         /\ \/ /\ liveReservation(r, d, t)[d] = NoHold
               /\ (r[d] = NoHold \/ isExpired(r[d], t))
            \/ /\ liveReservation(r, d, t)[d] = r[d]
               /\ r[d] # NoHold /\ ~isExpired(r[d], t)
BY DEF liveReservation

(* A granted access check: whoever has a live hold on d is the caller.       *)
LEMMA GrantedAccess ==
  ASSUME LockerTypeOK, NEW d \in Devices, NEW o \in Owners,
         checkLocked(d, o, now) = NoHold
  PROVE  /\ liveReservation(reserved, d, now)[d] # NoHold => reserved[d].owner = o
         /\ busy[d] # NoHold => busy[d].owner = o
BY LookupShape DEF checkLocked, LockerTypeOK, ZeroTime

-----------------------------------------------------------------------------
(* Type correctness and SameOwner are inductive together; SameOwner alone is *)
(* not, because a lookup needs the slots to be well formed.                  *)
LockerInv == LockerTypeOK /\ SameOwner

(* Looking d up keeps the invariant: a slot is emptied or left alone.        *)
LEMMA PruneInv ==
  ASSUME LockerInv, NEW d \in Devices, Prune(d)
  PROVE  LockerInv'
<1>1. now \in Nat /\ reserved \in [Devices -> Hold \cup {NoHold}]
  BY DEF LockerInv, LockerTypeOK
<1>2. \A e \in Devices : reserved'[e] = NoHold \/ reserved'[e] = reserved[e]
  BY <1>1, LookupShape DEF Prune
<1>3. reserved' \in [Devices -> Hold \cup {NoHold}]
  BY <1>1, LookupShape DEF Prune
<1>4. LockerTypeOK'
  BY <1>2, <1>3 DEF LockerInv, LockerTypeOK, Prune
<1>5. SameOwner'
  BY <1>2 DEF LockerInv, SameOwner, Prune
<1> QED
  BY <1>4, <1>5 DEF LockerInv

(* A granted Lock writes only slot d, with the caller's reservation.         *)
LEMMA LockInv ==
  ASSUME LockerInv, NEW d \in Devices, NEW o \in Owners, NEW dur \in Int, Lock(d, o, dur)
  PROVE  LockerInv'
<1>1. PICK t \in Readings : LockAt(d, o, dur, t[1], t[2])
  BY DEF Lock
<1> DEFINE start == t[1]
           second == t[2]
           r1 == liveReservation(reserved, d, now)
           r2 == liveReservation(r1, d, second)
<1>2. /\ now \in Nat \ {ZeroTime} /\ start \in Nat /\ second \in Nat /\ second >= now
      /\ dur \in Nat \ {0} /\ start + dur \in Nat /\ start + dur > start
  BY MaxTimeAssumption DEF Readings, LockerInv, LockerTypeOK, Lock, ZeroTime
<1>3. /\ r1 \in [Devices -> Hold \cup {NoHold}]
      /\ \A e \in Devices \ {d} : r1[e] = reserved[e]
      /\ r1[d] = NoHold \/ r1[d] = reserved[d]
  BY <1>2, LookupShape DEF LockerInv, LockerTypeOK
<1>4. /\ r2 \in [Devices -> Hold \cup {NoHold}]
      /\ \A e \in Devices \ {d} : r2[e] = reserved[e]
      /\ r2[d] = NoHold \/ (r2[d] = reserved[d] /\ r1[d] # NoHold)
  <2> HIDE DEF r1
  <2> QED BY <1>2, <1>3, LookupShape
<1>5. r2[d] # NoHold => reserved[d].owner = o
  BY <1>3, <1>4, GrantedAccess DEF LockerInv, Lock
<1> DEFINE new == IF r2[d] # NoHold
                  THEN Extend(r2[d], start + dur)
                  ELSE [owner |-> o, lockedAt |-> start,
                        expiresAt |-> start + dur, kind |-> "reserved"]
<1>6. reserved' = [r2 EXCEPT ![d] = new] /\ busy' = busy /\ now' = second
  BY <1>1 DEF LockAt
<1>7. new \in Hold /\ new.kind = "reserved" /\ new.expiresAt > new.lockedAt /\ new.owner = o
  <2> HIDE DEF r2, start
  <2>1. CASE r2[d] = NoHold
    BY <2>1, <1>2 DEF Hold
  <2>2. CASE r2[d] # NoHold
    <3>1. /\ r2[d] \in Hold /\ r2[d].kind = "reserved" /\ r2[d].owner = o
          /\ r2[d].expiresAt > r2[d].lockedAt
      BY <2>2, <1>4, <1>5 DEF LockerInv, LockerTypeOK
    <3>2. CASE start + dur > r2[d].expiresAt
      <4>1. new = [r2[d] EXCEPT !.expiresAt = start + dur]
        BY <2>2, <3>2 DEF Extend
      <4> HIDE DEF new
      <4> QED BY <4>1, <3>1, <3>2, <1>2 DEF Hold
    <3>3. CASE ~(start + dur > r2[d].expiresAt)
      BY <2>2, <3>1, <3>3 DEF Extend
    <3> QED BY <3>2, <3>3
  <2> QED BY <2>1, <2>2
<1> HIDE DEF new, r2, r1
<1>8. reserved' \in [Devices -> Hold \cup {NoHold}]
  BY <1>4, <1>6, <1>7
<1>9. reserved'[d] = new /\ \A e \in Devices \ {d} : reserved'[e] = reserved[e]
  BY <1>4, <1>6
<1>10. LockerTypeOK'
  BY <1>2, <1>6, <1>7, <1>8, <1>9, NoHoldAssumption DEF LockerInv, LockerTypeOK, ZeroTime
<1>11. SameOwner'
  BY <1>6, <1>7, <1>9, GrantedAccess DEF LockerInv, SameOwner, Lock
<1> QED
  BY <1>10, <1>11 DEF LockerInv

(* A granted AutoLock puts the caller's hold in an empty busy slot.          *)
LEMMA AutoLockInv ==
  ASSUME LockerInv, NEW d \in Devices, NEW o \in Owners, AutoLock(d, o)
  PROVE  LockerInv'
<1>1. now \in Nat \ {ZeroTime} /\ reserved \in [Devices -> Hold \cup {NoHold}]
  BY DEF LockerInv, LockerTypeOK
<1>0. reserved'[d] # NoHold => reserved[d].owner = o
  BY GrantedAccess DEF AutoLock, LockerInv
<1>2. /\ reserved' \in [Devices -> Hold \cup {NoHold}]
      /\ \A e \in Devices : reserved'[e] = NoHold \/ reserved'[e] = reserved[e]
      /\ reserved'[d] # NoHold => reserved[d].owner = o
  BY <1>0, <1>1, LookupShape DEF AutoLock
<1> DEFINE new == [owner |-> o, lockedAt |-> now, expiresAt |-> ZeroTime, kind |-> "busy"]
<1>3. new \in Hold /\ new.kind = "busy" /\ new.expiresAt = ZeroTime /\ new.owner = o
  BY <1>1 DEF Hold, ZeroTime
<1> HIDE DEF new
<1>4. /\ busy' \in [Devices -> Hold \cup {NoHold}]
      /\ \A e \in Devices \ {d} : busy'[e] = busy[e]
      /\ (busy'[d] = busy[d] /\ busy[d] # NoHold) \/ busy'[d] = new
  BY <1>3 DEF AutoLock, LockerInv, LockerTypeOK, new
<1>5. busy'[d] # NoHold => busy'[d].owner = o
  BY <1>3, <1>4, GrantedAccess DEF AutoLock, LockerInv
<1>6. LockerTypeOK'
  BY <1>2, <1>3, <1>4 DEF AutoLock, LockerInv, LockerTypeOK
<1>7. SameOwner'
  BY <1>2, <1>4, <1>5 DEF LockerInv, SameOwner
<1> QED
  BY <1>6, <1>7 DEF LockerInv

(* The steps that only empty slots or move the clock keep the invariant.     *)
LEMMA EmptyingInv ==
  ASSUME LockerInv,
         reserved' \in [Devices -> Hold \cup {NoHold}],
         busy' \in [Devices -> Hold \cup {NoHold}],
         now' \in Nat \ {ZeroTime},
         \A e \in Devices : /\ reserved'[e] \in {reserved[e], NoHold}
                            /\ busy'[e] \in {busy[e], NoHold}
  PROVE  LockerInv'
BY DEF LockerInv, LockerTypeOK, SameOwner

(* Every step of the lock table keeps the invariant.                         *)
LEMMA LockerStepInv == LockerInv /\ [LockerNext]_lockerVars => LockerInv'
<1> SUFFICES ASSUME LockerInv, [LockerNext]_lockerVars
             PROVE  LockerInv'
  OBVIOUS
<1> USE DEF LockerInv, LockerTypeOK
<1>1. ASSUME NEW d \in Devices, NEW o \in Owners, LockerOp(d, o)
      PROVE  LockerInv'
  <2>1. ASSUME NEW dur \in Durations, Lock(d, o, dur) PROVE LockerInv'
    BY <2>1, LockInv, DurationsAssumption
  <2>2. CASE \E dur \in Durations : LockDenied(d, o, dur)
    BY <2>2, PruneInv DEF LockDenied
  <2>3. CASE \E dur \in Durations : LockInvalid(dur)
    BY <2>3, EmptyingInv DEF LockInvalid, lockerVars
  <2>4. CASE ClearLock(d, o)
    BY <2>4, EmptyingInv, LookupShape DEF ClearLock
  <2>5. CASE ClearLockDenied(d, o) \/ AutoLockDenied(d, o) \/ CheckAccess(d, o)
    BY <2>5, PruneInv DEF ClearLockDenied, AutoLockDenied, CheckAccess
  <2>6. CASE AutoLock(d, o)
    BY <2>6, AutoLockInv
  <2>7. CASE ClearAutoLock(d, o)
    BY <2>7, EmptyingInv DEF ClearAutoLock
  <2>8. CASE ClearAutoLockDenied(d, o)
    BY <2>8, EmptyingInv DEF ClearAutoLockDenied, lockerVars
  <2> QED
    BY <1>1, <2>1, <2>2, <2>3, <2>4, <2>5, <2>6, <2>7, <2>8 DEF LockerOp
<1>2. ASSUME NEW d \in Devices, ForceClearLock(d)
      PROVE  LockerInv'
  BY <1>2, EmptyingInv DEF ForceClearLock
<1>3. CASE PruneAll
  <2>1. reserved' = [d \in Devices |-> liveReservation(reserved, d, now)[d]]
    BY <1>3 DEF PruneAll
  <2>2. \A e \in Devices : reserved'[e] \in {reserved[e], NoHold}
    BY <2>1, LookupShape
  <2> QED
    BY <1>3, <2>1, <2>2, EmptyingInv DEF PruneAll
<1>4. CASE Tick
  BY <1>4, EmptyingInv DEF Tick, ZeroTime
<1>5. CASE UNCHANGED lockerVars
  BY <1>5, EmptyingInv DEF lockerVars
<1> QED
  BY <1>1, <1>2, <1>3, <1>4, <1>5 DEF LockerNext

(* An empty table satisfies the invariant.                                   *)
LEMMA LockerInitInv == LockerInit => LockerInv
BY DEF LockerInit, LockerInv, LockerTypeOK, SameOwner, ZeroTime

(* The invariant holds in every state.                                       *)
LEMMA LockerInvAlways == LockerSpec => []LockerInv
BY LockerInitInv, LockerStepInv, PTL DEF LockerSpec

(* The slots are always well formed: whatever the order of the calls, a      *)
(* reservation carries an expiry after its start and a busy hold none.       *)
THEOREM LockerTypeCorrect == LockerSpec => []LockerTypeOK
<1>1. LockerInv => LockerTypeOK
  BY DEF LockerInv
<1> QED
  BY <1>1, LockerInvAlways, PTL

(* A device that is both reserved and busy has one owner, which is what      *)
(* StatusAll and the two-slot design of the Locker type rest on.             *)
THEOREM SameOwnerAlways == LockerSpec => []SameOwner
<1>1. LockerInv => SameOwner
  BY DEF LockerInv
<1> QED
  BY <1>1, LockerInvAlways, PTL

-----------------------------------------------------------------------------
(* A slot that a step leaves alone keeps its reservation.                    *)
LEMMA UntouchedKept ==
  ASSUME LockerTypeOK, NEW d \in Devices, reserved'[d] = reserved[d]
  PROVE  KeepsReservation(d)
BY DEF KeepsReservation, LockerTypeOK, Hold

(* Looking up a reservation that is still running does nothing to it.        *)
LEMMA LookedUpKept ==
  ASSUME LockerTypeOK, NEW d \in Devices, NEW e \in Devices, now' = now,
         reserved'[e] = liveReservation(reserved, d, now)[e]
  PROVE  KeepsReservation(e)
BY DEF KeepsReservation, LockerTypeOK, Hold, liveReservation

(* Lock keeps every reservation that runs beyond its last reading of the     *)
(* clock.                                                                    *)
LEMMA LockKeeps ==
  ASSUME LockerInv, NEW d \in Devices, NEW o \in Owners, NEW dur \in Int, Lock(d, o, dur),
         NEW e \in Devices
  PROVE  KeepsReservation(e)
<1>1. PICK t \in Readings : LockAt(d, o, dur, t[1], t[2])
  BY DEF Lock
<1>2. /\ t[1] \in Nat /\ t[2] \in Nat /\ now \in Nat /\ now <= t[2] /\ now' = t[2]
      /\ t[1] + dur \in Int
      /\ reserved \in [Devices -> Hold \cup {NoHold}]
  BY <1>1, MaxTimeAssumption DEF Readings, LockAt, LockerInv, LockerTypeOK, ZeroTime
<1>3. CASE e # d
  <2>1. reserved'[e] = reserved[e]
    BY <1>1, <1>2, <1>3 DEF LockAt, liveReservation
  <2> QED
    BY <2>1, UntouchedKept DEF LockerInv
<1>4. CASE e = d /\ reserved[d] # NoHold /\ ~isExpired(reserved[d], now')
  <2>1. reserved[d] \in Hold /\ reserved[d].expiresAt \in Nat
    BY <1>2, <1>4 DEF Hold
  <2>2. ~isExpired(reserved[d], now) /\ ~isExpired(reserved[d], t[2])
    BY <1>2, <1>4, <2>1 DEF isExpired
  <2>3. reserved'[d] = Extend(reserved[d], t[1] + dur)
    BY <1>1, <1>2, <1>4, <2>2 DEF LockAt, liveReservation
  <2>4. CASE t[1] + dur > reserved[d].expiresAt
    <3>1. reserved'[d] = [reserved[d] EXCEPT !.expiresAt = t[1] + dur]
      BY <2>3, <2>4 DEF Extend
    <3>2. reserved'[d] \in Hold
      BY <3>1, <2>1, <2>4, <1>2 DEF Hold
    <3> QED
      BY <1>2, <1>4, <2>1, <2>4, <3>1, <3>2, NoHoldAssumption DEF KeepsReservation, Hold
  <2>5. CASE ~(t[1] + dur > reserved[d].expiresAt)
    BY <1>4, <2>3, <2>5, UntouchedKept DEF Extend, LockerInv
  <2> QED
    BY <2>4, <2>5
<1> QED
  BY <1>3, <1>4 DEF KeepsReservation

(* No method of the lock table takes a running reservation from its owner or *)
(* shortens it, except the owner's ClearLock and ForceClearLock.             *)
THEOREM ReservationKeptAlways == LockerSpec => ReservationKept
<1>1. LockerInv /\ [LockerNext]_lockerVars => [KeepsReservations]_lockerVars
  <2> SUFFICES ASSUME LockerInv, LockerNext, NEW e \in Devices
               PROVE  KeepsReservation(e)
    BY DEF KeepsReservations
  <2>0. LockerTypeOK /\ reserved \in [Devices -> Hold \cup {NoHold}]
    BY DEF LockerInv, LockerTypeOK
  <2>1. ASSUME NEW d \in Devices, NEW o \in Owners, LockerOp(d, o)
        PROVE  KeepsReservation(e)
    <3>1. ASSUME NEW dur \in Durations, Lock(d, o, dur) PROVE KeepsReservation(e)
      BY <3>1, LockKeeps, DurationsAssumption
    <3>2. CASE Prune(d)
      BY <2>0, <3>2, LookedUpKept DEF Prune
    <3>3. CASE ClearLock(d, o)
      <4>1. CASE e = d
        <5>1. reserved[d] # NoHold => reserved[d].owner = o
          BY <2>0, <3>3 DEF ClearLock, OwnedBy, liveReservation
        <5>2. reserved'[d] = NoHold
          BY <2>0, <3>3 DEF ClearLock, liveReservation
        <5> QED
          BY <3>3, <4>1, <5>1, <5>2 DEF KeepsReservation
      <4>2. CASE e # d
        <5>1. reserved'[e] = reserved[e]
          BY <2>0, <3>3, <4>2 DEF ClearLock, liveReservation
        <5> QED
          BY <2>0, <5>1, UntouchedKept
      <4> QED
        BY <4>1, <4>2
    <3>4. CASE AutoLock(d, o)
      BY <2>0, <3>4, LookedUpKept DEF AutoLock
    <3>5. CASE reserved' = reserved
      BY <2>0, <3>5, UntouchedKept
    <3> QED
      BY <2>1, <3>1, <3>2, <3>3, <3>4, <3>5
      DEF LockerOp, LockDenied, LockInvalid, ClearLockDenied, AutoLockDenied, ClearAutoLock,
          ClearAutoLockDenied, CheckAccess, lockerVars
  <2>2. ASSUME NEW d \in Devices, ForceClearLock(d) PROVE KeepsReservation(e)
    <3>1. CASE e = d
      BY <2>0, <2>2, <3>1 DEF ForceClearLock, KeepsReservation
    <3>2. CASE e # d
      BY <2>0, <2>2, <3>2, UntouchedKept DEF ForceClearLock
    <3> QED
      BY <3>1, <3>2
  <2>3. CASE PruneAll
    BY <2>0, <2>3, LookedUpKept DEF PruneAll
  <2>4. CASE Tick
    BY <2>0, <2>4, UntouchedKept DEF Tick
  <2> QED
    BY <2>1, <2>2, <2>3, <2>4 DEF LockerNext
<1> QED
  BY <1>1, LockerInvAlways, PTL DEF LockerSpec, ReservationKept

-----------------------------------------------------------------------------
(* The lock table implements DeviceLease under the mapping holder. *)

(* Has d a reservation that is still running?                                *)
Live(d) == reserved[d] # NoHold /\ ~isExpired(reserved[d], now)

(* The holder, without the lookup of StatusAll: the owner of a live          *)
(* reservation, or else of the busy hold.                                    *)
Owner(d) ==
  IF Live(d) THEN reserved[d].owner ELSE IF busy[d] # NoHold THEN busy[d].owner ELSE NoHold

(* The holder of the refinement mapping is that owner.                       *)
LEMMA HolderShape ==
  LockerTypeOK => holder = [d \in Devices |-> Owner(d)]
<1> SUFFICES ASSUME LockerTypeOK PROVE holder = [d \in Devices |-> Owner(d)]
  OBVIOUS
<1>1. ASSUME NEW d \in Devices
      PROVE  (IF StatusAll(now)[d] = NoHold THEN NoHold ELSE StatusAll(now)[d].owner) = Owner(d)
  BY <1>1 DEF StatusAll, liveReservation, Owner, Live, LockerTypeOK
<1> QED
  BY <1>1 DEF holder

(* An owner, or nobody.                                                      *)
LEMMA OwnerType ==
  LockerTypeOK => \A d \in Devices : Owner(d) \in Owners \cup {NoHold}
BY DEF LockerTypeOK, Owner, Live, Hold

(* Both facts hold of the state after a step, too.                           *)
LEMMA HolderShapeNext ==
  LockerTypeOK' => /\ holder' = [d \in Devices |-> Owner(d)']
                   /\ \A d \in Devices : Owner(d)' \in Owners \cup {NoHold}
<1>1. LockerTypeOK' => (holder = [d \in Devices |-> Owner(d)])'
  BY HolderShape, PTL
<1>2. LockerTypeOK' => (\A d \in Devices : Owner(d) \in Owners \cup {NoHold})'
  BY OwnerType, PTL
<1> QED
  BY <1>1, <1>2

(* If nothing but the clock and lookups touch a device, its lease goes on or *)
(* ends: a reservation that expires leaves the device to the busy hold of    *)
(* the same owner, or to nobody.                                             *)
LEMMA LeaseGoesOn ==
  ASSUME LockerInv, LockerInv', NEW d \in Devices, now' >= now,
         reserved'[d] \in {reserved[d], NoHold}, busy'[d] \in {busy[d], NoHold}
  PROVE  Owner(d)' \in {Owner(d), NoHold}
<1>1. Live(d)' => Live(d) /\ reserved'[d] = reserved[d]
  BY DEF Live, isExpired, LockerInv, LockerTypeOK, Hold
<1> QED
  BY <1>1 DEF Owner, Live, LockerInv, LockerTypeOK, SameOwner

(* If every lease but that of d goes on or ends, and d's does so or starts,  *)
(* the step is one of DeviceLease.                                           *)
LEMMA LeaseStep ==
  ASSUME LockerInv, LockerInv', NEW d \in Devices,
         \A e \in Devices \ {d} : Owner(e)' \in {Owner(e), NoHold},
         \/ Owner(d)' \in {Owner(d), NoHold}
         \/ Owner(d) = NoHold /\ Owner(d)' \in Owners
  PROVE  Lease!Next
<1>1. holder = [e \in Devices |-> Owner(e)]
  BY HolderShape DEF LockerInv
<1>2. /\ holder' = [e \in Devices |-> Owner(e)']
      /\ \A e \in Devices : Owner(e)' \in Owners \cup {NoHold}
  BY HolderShapeNext DEF LockerInv
<1>3. holder' \in [Devices -> Owners \cup {NoHold}]
  BY <1>2
<1>4. \A e \in Devices : holder[e] = Owner(e) /\ holder'[e] = Owner(e)'
  BY <1>1, <1>2
<1> HIDE DEF holder, Owner
<1> QED
  BY <1>3, <1>4 DEF Lease!Next, Lease!KeepOrEnd, Lease!Take

(* If every lease goes on or ends, it is one as well.                        *)
LEMMA LeasesGoOn ==
  ASSUME LockerInv, LockerInv', \A e \in Devices : Owner(e)' \in {Owner(e), NoHold}
  PROVE  Lease!Next
<1>1. holder = [e \in Devices |-> Owner(e)]
  BY HolderShape DEF LockerInv
<1>2. /\ holder' = [e \in Devices |-> Owner(e)']
      /\ \A e \in Devices : Owner(e)' \in Owners \cup {NoHold}
  BY HolderShapeNext DEF LockerInv
<1>3. holder' \in [Devices -> Owners \cup {NoHold}]
  BY <1>2
<1>4. \A e \in Devices : holder[e] = Owner(e) /\ holder'[e] = Owner(e)'
  BY <1>1, <1>2
<1> HIDE DEF holder, Owner
<1> QED
  BY <1>3, <1>4 DEF Lease!Next, Lease!KeepOrEnd

(* A granted Lock or AutoLock of o finds the device with o or nobody, and    *)
(* leaves it with o or nobody.                                               *)
LEMMA GrantStep ==
  ASSUME LockerInv, LockerInv', NEW d \in Devices, NEW o \in Owners, now' >= now,
         checkLocked(d, o, now) = NoHold,
         \A e \in Devices \ {d} : reserved'[e] \in {reserved[e], NoHold} /\ busy'[e] = busy[e],
         reserved'[d] # NoHold => reserved'[d].owner = o,
         busy'[d] # NoHold => busy'[d].owner = o
  PROVE  Lease!Next
<1>1. Owner(d) \in {o, NoHold}
  BY GrantedAccess, LookupShape DEF Owner, Live, LockerInv, LockerTypeOK, liveReservation
<1>2. Owner(d)' \in {o, NoHold}
  BY DEF Owner, Live
<1>3. \A e \in Devices \ {d} : Owner(e)' \in {Owner(e), NoHold}
  BY LeaseGoesOn
<1> HIDE DEF Owner
<1> QED
  BY <1>1, <1>2, <1>3, LeaseStep

-----------------------------------------------------------------------------
(* Every step of the lock table is a step of DeviceLease or changes no       *)
(* holder.                                                                   *)
LEMMA LeaseNext == LockerInv /\ LockerInv' /\ [LockerNext]_lockerVars => [Lease!Next]_holder
<1> SUFFICES ASSUME LockerInv, LockerInv', [LockerNext]_lockerVars PROVE Lease!Next
  OBVIOUS
<1>0. /\ now \in Nat /\ now' \in Nat /\ reserved \in [Devices -> Hold \cup {NoHold}]
      /\ busy \in [Devices -> Hold \cup {NoHold}]
  BY DEF LockerInv, LockerTypeOK
<1>1. ASSUME NEW d \in Devices, NEW o \in Owners, LockerOp(d, o)
      PROVE  Lease!Next
  <2>1. ASSUME NEW dur \in Durations, Lock(d, o, dur) PROVE Lease!Next
    <3>1. PICK t \in Readings : LockAt(d, o, dur, t[1], t[2])
      BY <2>1 DEF Lock
    <3>2. t[1] \in Nat /\ t[2] \in Nat /\ now <= t[2] /\ now' = t[2]
      BY <3>1, <1>0, MaxTimeAssumption DEF Readings, LockAt
    <3>3. checkLocked(d, o, now) = NoHold
      BY <2>1 DEF Lock
    <3>4. \A e \in Devices \ {d} : reserved'[e] = reserved[e] /\ busy'[e] = busy[e]
      BY <1>0, <3>1 DEF LockAt, liveReservation
    <3>5. reserved'[d].owner = o
      <4> DEFINE r2 == liveReservation(liveReservation(reserved, d, now), d, t[2])
      <4>1. r2[d] # NoHold =>
              r2[d] = reserved[d] /\ liveReservation(reserved, d, now)[d] # NoHold
        BY <1>0, <3>2 DEF liveReservation
      <4>2. r2[d] # NoHold => r2[d] \in Hold /\ r2[d].owner = o
        BY <1>0, <3>3, <4>1, GrantedAccess DEF LockerInv
      <4>3. r2 \in [Devices -> Hold \cup {NoHold}]
        BY <1>0, <3>2 DEF liveReservation
      <4>4. reserved' =
              [r2 EXCEPT ![d] = IF r2[d] # NoHold
                                THEN Extend(r2[d], t[1] + dur)
                                ELSE [owner |-> o, lockedAt |-> t[1],
                                      expiresAt |-> t[1] + dur, kind |-> "reserved"]]
        BY <3>1 DEF LockAt
      <4> HIDE DEF r2
      <4>5. CASE r2[d] = NoHold
        BY <4>3, <4>4, <4>5
      <4>6. CASE r2[d] # NoHold
        <5>1. Extend(r2[d], t[1] + dur).owner = r2[d].owner
          BY <4>2, <4>6 DEF Extend, Hold
        <5> QED
          BY <4>2, <4>3, <4>4, <4>6, <5>1
      <4> QED
        BY <4>5, <4>6
    <3>6. busy'[d] # NoHold => busy'[d].owner = o
      BY <3>1, <3>3, GrantedAccess DEF LockAt, LockerInv
    <3> QED
      BY <1>0, <3>2, <3>3, <3>4, <3>5, <3>6, GrantStep
  <2>2. CASE AutoLock(d, o)
    <3>1. /\ checkLocked(d, o, now) = NoHold /\ now' = now
          /\ \A e \in Devices \ {d} : reserved'[e] = reserved[e] /\ busy'[e] = busy[e]
      BY <1>0, <2>2 DEF AutoLock, liveReservation
    <3>2. /\ reserved'[d] # NoHold => reserved'[d].owner = o
          /\ busy[d] # NoHold => busy[d].owner = o
      BY <1>0, <2>2, GrantedAccess, LookupShape DEF AutoLock, LockerInv
    <3>3. busy'[d] # NoHold => busy'[d].owner = o
      BY <1>0, <2>2, <3>2 DEF AutoLock
    <3> QED
      BY <1>0, <3>1, <3>2, <3>3, GrantStep
  <2>3. CASE ClearLock(d, o) \/ Prune(d)
    <3>1. \A e \in Devices : reserved'[e] \in {reserved[e], NoHold} /\ busy'[e] = busy[e]
      BY <1>0, <2>3 DEF ClearLock, Prune, liveReservation
    <3> QED
      BY <1>0, <2>3, <3>1, LeaseGoesOn, LeasesGoOn DEF ClearLock, Prune
  <2>4. CASE ClearAutoLock(d, o)
    <3>1. \A e \in Devices : reserved'[e] = reserved[e] /\ busy'[e] \in {busy[e], NoHold}
      BY <1>0, <2>4 DEF ClearAutoLock
    <3> QED
      BY <1>0, <2>4, <3>1, LeaseGoesOn, LeasesGoOn DEF ClearAutoLock
  <2>5. CASE UNCHANGED lockerVars
    BY <1>0, <2>5, LeaseGoesOn, LeasesGoOn DEF lockerVars
  <2> QED
    BY <1>1, <2>1, <2>2, <2>3, <2>4, <2>5
    DEF LockerOp, LockDenied, LockInvalid, ClearLockDenied, AutoLockDenied,
        ClearAutoLockDenied, CheckAccess
<1>2. ASSUME NEW d \in Devices, ForceClearLock(d) PROVE Lease!Next
  <2>1. \A e \in Devices : /\ reserved'[e] \in {reserved[e], NoHold}
                           /\ busy'[e] \in {busy[e], NoHold}
    BY <1>0, <1>2 DEF ForceClearLock
  <2> QED
    BY <1>0, <1>2, <2>1, LeaseGoesOn, LeasesGoOn DEF ForceClearLock
<1>3. CASE PruneAll
  <2>1. \A e \in Devices : reserved'[e] \in {reserved[e], NoHold} /\ busy'[e] = busy[e]
    BY <1>0, <1>3 DEF PruneAll, liveReservation
  <2> QED
    BY <1>0, <1>3, <2>1, LeaseGoesOn, LeasesGoOn DEF PruneAll
<1>4. CASE Tick \/ UNCHANGED lockerVars
  BY <1>0, <1>4, LeaseGoesOn, LeasesGoOn DEF Tick, lockerVars
<1> QED
  BY <1>1, <1>2, <1>3, <1>4 DEF LockerNext

(* At first every device is free.                                            *)
LEMMA LeaseInit == LockerInit => Lease!Init
<1> SUFFICES ASSUME LockerInit PROVE Lease!Init
  OBVIOUS
<1>1. LockerTypeOK
  BY LockerInitInv DEF LockerInv
<1>2. \A d \in Devices : Owner(d) = NoHold
  BY DEF LockerInit, Owner, Live
<1> QED
  BY <1>1, <1>2, HolderShape DEF Lease!Init

(* The lock table implements exclusive ownership: no sequence of calls and   *)
(* expiries hands a device from one owner directly to another.               *)
THEOREM LockerImplementsLease == LockerSpec => LeaseSpec
<1>1. LockerInit => Lease!Init
  BY LeaseInit
<1>2. LockerInv /\ LockerInv' /\ [LockerNext]_lockerVars => [Lease!Next]_holder
  BY LeaseNext
<1> QED
  BY <1>1, <1>2, LockerInvAlways, PTL DEF LockerSpec, LeaseSpec, Lease!Spec
=============================================================================
