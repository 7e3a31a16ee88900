------------------------------- MODULE Locker -------------------------------
(***************************************************************************)
(* The per-device lock table of dutagent, internal/dutagent/locker.        *)
(*                                                                         *)
(* Every device has two slots: an explicit, time-bounded reservation (the  *)
(* `lock` command) and a Busy hold taken while a command runs.  A slot is  *)
(* a Hold or NoHold.  Each method of the Go type runs under one mutex, so  *)
(* each is one action here; what is not atomic is the clock, which Lock    *)
(* reads up to three times and which may advance between the readings.     *)
(***************************************************************************)
EXTENDS Integers

CONSTANTS
  Devices,    \* device names of the configuration
  Owners,     \* caller identities
  Durations,  \* requested lock durations, positive or not
  MaxTime,    \* bound of the clock
  NoHold      \* content of an empty slot

(* Time 0 stands for Go's zero time, "never expires". *)
ZeroTime == 0

Hold ==
  [owner: Owners, lockedAt: Nat, expiresAt: Nat, kind: {"reserved", "busy"}]

ASSUME DurationsAssumption == Durations \subseteq Int
ASSUME MaxTimeAssumption == MaxTime \in Nat
ASSUME NoHoldAssumption == NoHold \notin Hold /\ NoHold \notin Owners

VARIABLES
  reserved,   \* reserved[d]: the explicit lock of device d
  busy,       \* busy[d]: the auto-lock of device d
  now         \* the clock

lockerVars == <<reserved, busy, now>>

-----------------------------------------------------------------------------
(* Reading the table. *)

isExpired(h, t) == h.expiresAt # ZeroTime /\ t >= h.expiresAt

(* The reservation slots after liveReservation(d) ran at time t: the lookup *)
(* prunes the slot if its hold has expired.                                 *)
liveReservation(r, d, t) ==
  IF r[d] # NoHold /\ isExpired(r[d], t) THEN [r EXCEPT ![d] = NoHold] ELSE r

(* Mutant: the busy slot is not looked at.                                   *)
checkReservedOnly(d, o, t) ==
  LET res == liveReservation(reserved, d, t)[d]
  IN  IF res # NoHold /\ res.owner # o THEN res ELSE NoHold

(* The hold that denies owner o the device d at time t, NoHold if none:     *)
(* a live reservation is looked at first, then the busy slot.               *)
checkLocked(d, o, t) ==
  LET res == liveReservation(reserved, d, t)[d] IN
  IF res # NoHold /\ res.owner # o THEN res
  ELSE IF busy[d] # NoHold /\ busy[d].owner # o THEN busy[d]
  ELSE NoHold

OwnedBy(h, o) == h # NoHold /\ h.owner = o

(* What StatusAll reports for d at time t: a live reservation shadows the   *)
(* busy hold.                                                               *)
StatusAll(t) ==
  [d \in Devices |-> LET res == liveReservation(reserved, d, t)[d]
                     IN  IF res # NoHold THEN res ELSE busy[d]]

-----------------------------------------------------------------------------
(* The operations.  Each is split by its outcome so that callers can tell   *)
(* them apart; X and XDenied together are the whole method.                 *)

(* The lookup of reservation d is the only effect of a method that fails.   *)
Prune(d) ==
  /\ reserved' = liveReservation(reserved, d, now)
  /\ UNCHANGED <<busy, now>>

(* The readings of the clock Lock makes after its access check at now: the  *)
(* start of the new hold, then the second lookup.                           *)
Readings == {t \in (now..MaxTime) \X (now..MaxTime) : t[1] <= t[2]}

(* Mutant: a repeated lock always sets the expiry it computed.               *)
ExtendAlways(h, expiry) == [h EXCEPT !.expiresAt = expiry]

(* The same owner's live reservation is extended, never shortened.          *)
Extend(h, expiry) ==
  IF expiry > h.expiresAt THEN [h EXCEPT !.expiresAt = expiry] ELSE h

LockAt(d, o, dur, start, second) ==
  LET r == liveReservation(liveReservation(reserved, d, now), d, second)
  IN  /\ reserved' =
           [r EXCEPT ![d] =
              IF r[d] # NoHold
              THEN Extend(r[d], start + dur)
              ELSE [owner |-> o, lockedAt |-> start,
                    expiresAt |-> start + dur, kind |-> "reserved"]]
      /\ now' = second
      /\ UNCHANGED busy

Lock(d, o, dur) ==
  /\ dur > 0
  /\ checkLocked(d, o, now) = NoHold
  /\ \E t \in Readings : LockAt(d, o, dur, t[1], t[2])

(* A non-positive duration is refused before the table is looked at.        *)
LockInvalid(dur) == dur <= 0 /\ UNCHANGED lockerVars

LockDenied(d, o, dur) ==
  /\ dur > 0
  /\ checkLocked(d, o, now) # NoHold
  /\ Prune(d)

(* Mutant: unlocking clears the busy slot with the reservation.              *)
ClearLockBoth(d, o) ==
  LET r == liveReservation(reserved, d, now)
  IN  /\ OwnedBy(r[d], o)
      /\ reserved' = [r EXCEPT ![d] = NoHold]
      /\ busy' = [busy EXCEPT ![d] = NoHold]
      /\ UNCHANGED now

ClearLock(d, o) ==
  LET r == liveReservation(reserved, d, now)
  IN  /\ OwnedBy(r[d], o)
      /\ reserved' = [r EXCEPT ![d] = NoHold]
      /\ UNCHANGED <<busy, now>>

ClearLockDenied(d, o) ==
  /\ ~OwnedBy(liveReservation(reserved, d, now)[d], o)
  /\ Prune(d)

(* Clears both slots of d; ErrNotLocked, and only the prune, if both were   *)
(* empty, which is the same change of state.                                *)
ForceClearLock(d) ==
  /\ reserved' = [reserved EXCEPT ![d] = NoHold]
  /\ busy' = [busy EXCEPT ![d] = NoHold]
  /\ UNCHANGED now

(* Mutant: AutoLock trusts an earlier check of access.                       *)
AutoLockUnchecked(d, o) ==
  /\ reserved' = liveReservation(reserved, d, now)
  /\ busy' = [busy EXCEPT ![d] = [owner |-> o, lockedAt |-> now,
                                  expiresAt |-> ZeroTime, kind |-> "busy"]]
  /\ UNCHANGED now

(* Re-acquiring by the owner keeps the hold there is: holds are not counted. *)
AutoLock(d, o) ==
  /\ checkLocked(d, o, now) = NoHold
  /\ reserved' = liveReservation(reserved, d, now)
  /\ busy' = IF busy[d] # NoHold THEN busy
             ELSE [busy EXCEPT ![d] = [owner |-> o, lockedAt |-> now,
                                       expiresAt |-> ZeroTime, kind |-> "busy"]]
  /\ UNCHANGED now

AutoLockDenied(d, o) ==
  /\ checkLocked(d, o, now) # NoHold
  /\ Prune(d)

(* Mutant: any owner's auto-lock is released.                                *)
ClearAutoLockOfAny(d, o) ==
  /\ busy[d] # NoHold
  /\ busy' = [busy EXCEPT ![d] = NoHold]
  /\ UNCHANGED <<reserved, now>>

ClearAutoLock(d, o) ==
  /\ OwnedBy(busy[d], o)
  /\ busy' = [busy EXCEPT ![d] = NoHold]
  /\ UNCHANGED <<reserved, now>>

ClearAutoLockDenied(d, o) ==
  /\ ~OwnedBy(busy[d], o)
  /\ UNCHANGED lockerVars

(* Granted or not, CheckAccess only prunes.                                 *)
CheckAccess(d, o) == Prune(d)

(* StatusAll looks every reservation up.                                    *)
PruneAll ==
  /\ reserved' = [d \in Devices |-> liveReservation(reserved, d, now)[d]]
  /\ UNCHANGED <<busy, now>>

Tick ==
  /\ now < MaxTime
  /\ now' = now + 1
  /\ UNCHANGED <<reserved, busy>>

-----------------------------------------------------------------------------

LockerInit ==
  /\ reserved = [d \in Devices |-> NoHold]
  /\ busy = [d \in Devices |-> NoHold]
  /\ now = 1

LockerOp(d, o) ==
  \/ \E dur \in Durations : Lock(d, o, dur) \/ LockDenied(d, o, dur) \/ LockInvalid(dur)
  \/ ClearLock(d, o) \/ ClearLockDenied(d, o)
  \/ AutoLock(d, o) \/ AutoLockDenied(d, o)
  \/ ClearAutoLock(d, o) \/ ClearAutoLockDenied(d, o)
  \/ CheckAccess(d, o)

LockerNext ==
  \/ \E d \in Devices, o \in Owners : LockerOp(d, o)
  \/ \E d \in Devices : ForceClearLock(d)
  \/ PruneAll
  \/ Tick

LockerSpec == LockerInit /\ [][LockerNext]_lockerVars

-----------------------------------------------------------------------------
(* Properties. *)

(* Every slot is empty or holds a hold of its own kind; a reservation has    *)
(* an expiry (Lock refuses a non-positive duration), a busy hold has none.   *)
LockerTypeOK ==
  /\ now \in Nat \ {ZeroTime}
  /\ reserved \in [Devices -> Hold \cup {NoHold}]
  /\ busy \in [Devices -> Hold \cup {NoHold}]
  /\ \A d \in Devices : reserved[d] # NoHold =>
       reserved[d].kind = "reserved" /\ reserved[d].expiresAt > reserved[d].lockedAt
  /\ \A d \in Devices : busy[d] # NoHold =>
       busy[d].kind = "busy" /\ busy[d].expiresAt = ZeroTime

(* A device with both holds has one owner: StatusAll relies on it when it    *)
(* lets the reservation shadow the busy hold ("necessarily the same owner"), *)
(* although the slots are filled by different methods and only one of them   *)
(* expires.                                                                  *)
SameOwner ==
  \A d \in Devices :
    reserved[d] # NoHold /\ busy[d] # NoHold => reserved[d].owner = busy[d].owner

(* A reservation that is still running when a method returns was not given   *)
(* away or cut short by it: it is gone because its owner cleared it or       *)
(* somebody forced it, or it is the same hold with the same or a later       *)
(* expiry.                                                                   *)
KeepsReservation(d) ==
  reserved[d] # NoHold /\ ~isExpired(reserved[d], now') =>
    \/ /\ reserved'[d] = NoHold
       /\ ClearLock(d, reserved[d].owner) \/ ForceClearLock(d)
    \/ /\ reserved'[d] # NoHold
       /\ reserved'[d].owner = reserved[d].owner
       /\ reserved'[d].lockedAt = reserved[d].lockedAt
       /\ reserved'[d].expiresAt >= reserved[d].expiresAt

KeepsReservations == \A d \in Devices : KeepsReservation(d)

ReservationKept == [][KeepsReservations]_lockerVars

(* The device as its users see it: its owner is that of the hold StatusAll   *)
(* reports.                                                                  *)
holder ==
  [d \in Devices |-> IF StatusAll(now)[d] = NoHold THEN NoHold ELSE StatusAll(now)[d].owner]

Lease == INSTANCE DeviceLease WITH Free <- NoHold

(* The lock table implements exclusive ownership of devices: no sequence of  *)
(* Lock, AutoLock, clears, expiries and forced clears hands a device from    *)
(* one owner directly to another.                                            *)
LeaseSpec == Lease!Spec
=============================================================================
