---------------------------- MODULE OwnCapacity -----------------------------
(***************************************************************************)
(* The reservations of a restaurant's own couriers:                        *)
(* delivery-capacity.service.ts over the table                             *)
(* delivery_own_capacity_reservations.                                     *)
(*                                                                         *)
(* One tenant.  `hold' is the one transaction of several statements: it    *)
(* takes the tenant's row lock, expires due holds, locks the row of its    *)
(* key, counts the active rows and writes.  confirm, release,              *)
(* releaseForDelivery and expire lock the reservation rows only, so they   *)
(* interleave with the statements of a hold; each of them is one step.     *)
(* Time is the database's and the servers' common clock.                   *)
(***************************************************************************)
EXTENDS Naturals, FiniteSets

CONSTANTS Keys,         \* checkout keys (`fallback:<delivery>' keys included)
          Deliveries,   \* deliveries a reservation can be linked to
          NoDelivery,   \* delivery_id IS NULL
          NoKey,        \* no hold transaction is open
          HoldTime,     \* holdMinutes
          MaxNow,       \* bound: the clock stops here
          Capacities    \* values of own_capacity.available_couriers

ASSUME KeysAssumption == IsFiniteSet(Keys) /\ NoKey \notin Keys
ASSUME DeliveriesAssumption == NoDelivery \notin Deliveries
ASSUME TimeAssumption == HoldTime \in Nat \ {0} /\ MaxNow \in Nat
ASSUME CapacitiesAssumption == Capacities \subseteq Nat

VARIABLES now,        \* the clock
          capacity,   \* declared capacity, on the tenant's row
          rows,       \* committed reservation row of each key
          hold        \* the hold transaction that has the tenant's row lock

vars == <<now, capacity, rows, hold>>

Status == {"NONE", "HELD", "CONFIRMED", "RELEASED", "EXPIRED"}
Row == [status : Status, delivery : Deliveries \cup {NoDelivery}, expiresAt : Nat]
NoRow == [status |-> "NONE", delivery |-> NoDelivery, expiresAt |-> 0]

\* key: the key it holds for; at: its `now'; expiring: the due holds its first
\* UPDATE set to EXPIRED, uncommitted; counted: the rows its COUNT found.
Transaction == [key : Keys \cup {NoKey}, at : Nat, pc : {"idle", "locked", "counted"},
                expiring : SUBSET Keys, counted : SUBSET Keys]
NoTransaction == [key |-> NoKey, at |-> 0, pc |-> "idle", expiring |-> {}, counted |-> {}]

TypeOK ==
  /\ now \in Nat
  /\ capacity \in Capacities
  /\ rows \in [Keys -> Row]
  /\ hold \in Transaction

---------------------------------------------------------------------------
ActiveRow(row) == row.status \in {"HELD", "CONFIRMED"}
Active == {k \in Keys : ActiveRow(rows[k])}
DueHolds == {k \in Keys : rows[k].status = "HELD" /\ rows[k].expiresAt <= now}

\* Rows the open hold transaction has locked.
Locked == IF hold.pc = "idle" THEN {} ELSE hold.expiring \cup {hold.key}

\* uq_delivery_own_capacity_active_delivery: one active row per delivery.
FreeDelivery(k, d) ==
  \A j \in Keys \ {k} : ActiveRow(rows[j]) => rows[j].delivery # d

WithExpired(lapsed) ==
  [k \in Keys |-> IF k \in lapsed THEN [rows[k] EXCEPT !.status = "EXPIRED"] ELSE rows[k]]

Init ==
  /\ now = 0
  /\ capacity \in Capacities
  /\ rows = [k \in Keys |-> NoRow]
  /\ hold = NoTransaction

---------------------------------------------------------------------------
(* hold *)

\* SELECT the tenant FOR UPDATE, UPDATE the due holds, SELECT the key's row
\* FOR UPDATE.  Holds start early enough to lapse before the clock stops.
HoldBegin(k) ==
  /\ hold.pc = "idle"
  /\ now + HoldTime <= MaxNow
  /\ hold' = [key |-> k, at |-> now, pc |-> "locked", expiring |-> DueHolds, counted |-> {}]
  /\ UNCHANGED <<now, capacity, rows>>

\* Mutant of Reusable: a confirmed reservation is not taken for a live one.
ReusableHeld == /\ hold.key \notin hold.expiring
                /\ rows[hold.key].status = "HELD"
                /\ rows[hold.key].expiresAt > hold.at

\* The row the transaction reads back for its key: its own UPDATE is visible.
Reusable == /\ hold.key \notin hold.expiring
            /\ ActiveRow(rows[hold.key])
            /\ rows[hold.key].expiresAt > hold.at

\* The key already has a live reservation: return it; the expiry commits.
HoldReuse ==
  /\ hold.pc = "locked"
  /\ Reusable
  /\ rows' = WithExpired(hold.expiring)
  /\ hold' = NoTransaction
  /\ UNCHANGED <<now, capacity>>

\* Mutant of HoldCount: confirmed rows are not counted.
HoldCountHeld ==
  /\ hold.pc = "locked"
  /\ ~Reusable
  /\ hold' = [hold EXCEPT !.pc = "counted",
               !.counted = {k \in Keys : rows[k].status = "HELD"} \ hold.expiring]
  /\ UNCHANGED <<now, capacity, rows>>

\* COUNT of the active rows: own UPDATE and every commit so far are visible.
HoldCount ==
  /\ hold.pc = "locked"
  /\ ~Reusable
  /\ hold' = [hold EXCEPT !.pc = "counted", !.counted = Active \ hold.expiring]
  /\ UNCHANGED <<now, capacity, rows>>

\* No slot left: ConflictException, and the expiry rolls back with the rest.
HoldRefuse ==
  /\ hold.pc = "counted"
  /\ Cardinality(hold.counted) >= capacity
  /\ hold' = NoTransaction
  /\ UNCHANGED <<now, capacity, rows>>

HoldGrant ==
  /\ hold.pc = "counted"
  /\ Cardinality(hold.counted) < capacity
  /\ rows' = [WithExpired(hold.expiring) EXCEPT ![hold.key] =
                [status |-> "HELD", delivery |-> NoDelivery, expiresAt |-> hold.at + HoldTime]]
  /\ hold' = NoTransaction
  /\ UNCHANGED <<now, capacity>>

\* The server or its connection dies inside the transaction.
HoldAbort ==
  /\ hold.pc # "idle"
  /\ hold' = NoTransaction
  /\ UNCHANGED <<now, capacity, rows>>

---------------------------------------------------------------------------
(* the other transactions of the service *)

\* Mutants of Confirm: the status of the checkout is written to the slot; a
\* lapsed or released row is confirmed too.
ConfirmPaid(k, d) ==
  /\ k \notin Locked
  /\ rows[k].status = "HELD"
  /\ rows[k].expiresAt > now
  /\ rows' = [rows EXCEPT ![k].status = "PAID", ![k].delivery = d]
  /\ UNCHANGED <<now, capacity, hold>>
ConfirmAny(k, d) ==
  /\ k \notin Locked
  /\ rows[k].status # "NONE"
  /\ d # NoDelivery => FreeDelivery(k, d)
  /\ rows' = [rows EXCEPT ![k].status = "CONFIRMED", ![k].delivery = d]
  /\ UNCHANGED <<now, capacity, hold>>

\* confirm(key, delivery).  Every other outcome (no row, already confirmed,
\* no longer active, past expires_at) returns or throws and changes nothing:
\* the EXPIRED it saves just before throwing is rolled back.
Confirm(k, d) ==
  /\ k \notin Locked
  /\ rows[k].status = "HELD"
  /\ rows[k].expiresAt > now
  /\ d # NoDelivery => FreeDelivery(k, d)
  /\ rows' = [rows EXCEPT ![k].status = "CONFIRMED", ![k].delivery = d]
  /\ UNCHANGED <<now, capacity, hold>>

\* release(key): a no-op unless the row is active.
Release(k) ==
  /\ k \notin Locked
  /\ ActiveRow(rows[k])
  /\ rows' = [rows EXCEPT ![k].status = "RELEASED"]
  /\ UNCHANGED <<now, capacity, hold>>

\* releaseForDelivery(d): getOne returns any row linked to d, in no order;
\* a row that is no longer active is left as it is.
ReleaseForDelivery(d) ==
  \E k \in Keys : rows[k].delivery = d /\ Release(k)

\* Mutant of Expire: it only runs while every slot is taken.
ExpireWhenFull ==
  /\ DueHolds # {}
  /\ DueHolds \cap Locked = {}
  /\ Cardinality(Active) >= capacity
  /\ rows' = WithExpired(DueHolds)
  /\ UNCHANGED <<now, capacity, hold>>

\* expire(): maintenance, and the first statement of both read endpoints.
Expire ==
  /\ DueHolds # {}
  /\ DueHolds \cap Locked = {}
  /\ rows' = WithExpired(DueHolds)
  /\ UNCHANGED <<now, capacity, hold>>

\* The delivery settings are written to the tenant's row, which a hold locks.
SetCapacity(c) ==
  /\ hold.pc = "idle"
  /\ capacity' = c
  /\ UNCHANGED <<now, rows, hold>>

Tick ==
  /\ now < MaxNow
  /\ now' = now + 1
  /\ UNCHANGED <<capacity, rows, hold>>

---------------------------------------------------------------------------
HoldEnd == HoldReuse \/ HoldCount \/ HoldRefuse \/ HoldGrant

Next ==
  \/ \E k \in Keys : HoldBegin(k) \/ Release(k)
  \/ HoldReuse \/ HoldCount \/ HoldRefuse \/ HoldGrant \/ HoldAbort
  \/ \E k \in Keys, d \in Deliveries \cup {NoDelivery} : Confirm(k, d)
  \/ \E d \in Deliveries : ReleaseForDelivery(d)
  \/ Expire
  \/ \E c \in Capacities : SetCapacity(c)
  \/ Tick

Spec == Init /\ [][Next]_vars

\* The maintenance job runs for ever and an UPDATE that waits for a row lock
\* is queued and gets it (strong fairness); an open transaction ends; time
\* passes.  Requests owe nothing.
FairSpec == Spec /\ SF_vars(Expire) /\ WF_vars(HoldEnd) /\ WF_vars(Tick)

---------------------------------------------------------------------------
(* properties *)

\* Two checkouts never take one slot: whatever interleaves with the statements
\* of a hold, when a row becomes active the active rows fit the capacity
\* declared at that moment.  (A smaller capacity may be declared later.)
NoOvercommit ==
  [][Active' \ Active # {} => Cardinality(Active') <= capacity']_vars

\* While its window lasts, a confirmed reservation is given up by a release
\* only, and stays linked to the delivery it was confirmed for: neither
\* another hold, nor maintenance, nor a repeated hold of its key disturbs it.
ConfirmedHeldWithinWindow ==
  [][\A k \in Keys :
       rows[k].status = "CONFIRMED" /\ rows[k].expiresAt > now =>
         /\ rows'[k].status \in {"CONFIRMED", "RELEASED"}
         /\ rows'[k].delivery = rows[k].delivery]_vars

\* An abandoned hold gives its slot back: no row stays HELD with the same
\* expiry for ever, even when hold transactions keep locking and rolling back.
HoldsLapse ==
  \A k \in Keys : \A e \in 0 .. MaxNow :
    (rows[k].status = "HELD" /\ rows[k].expiresAt = e)
      ~> ~(rows[k].status = "HELD" /\ rows[k].expiresAt = e)

\* The service implements the pool of slots: every committed step is one of
\* the pool's, at one instant.
Pool == INSTANCE CapacityPool WITH
          held <- {k \in Keys : rows[k].status = "HELD"},
          confirmed <- {k \in Keys : rows[k].status = "CONFIRMED"}
ImplementsPool == Pool!Spec
=============================================================================
