------------------------- MODULE ExternalFulfillment ------------------------
(***************************************************************************)
(* The external fulfillment of one delivery: delivery-fulfillment.service  *)
(* (cycles of scheduled attempts, restart, conversion to the restaurant's  *)
(* own couriers) and delivery-webhook.service (what the operator reports). *)
(*                                                                         *)
(* A worker is one maintenance run; runs may overlap.  It reads the due    *)
(* attempts, then for each: claims it in a transaction, calls the operator *)
(* outside any transaction, and records the outcome in another one.        *)
(* An administrator's conversion is a capacity hold, a transaction and a   *)
(* capacity confirmation, or a release when one of them fails.  The        *)
(* reservation it uses follows CapacityPool, which OwnCapacity implements. *)
(* Not modelled: costs, tracking links, events and notifications.          *)
(***************************************************************************)
EXTENDS Naturals

CONSTANTS Workers,           \* maintenance runs that may overlap
          Admins,            \* conversion requests
          AttemptsPerCycle,  \* attempts of a cycle, one tick apart (5, 3 minutes)
          MaxCycle,          \* bound: cycles started
          MaxNow,            \* bound: the clock stops here
          Reports,           \* courier statuses the operator reports
          NoAttempt,
          MayDie,            \* may servers die between two transactions
          CallMayBeLost      \* may the operator create a delivery and the answer get lost

ASSUME CycleAssumption == AttemptsPerCycle \in Nat \ {0} /\ MaxCycle \in Nat \ {0}
ASSUME ClockAssumption == MaxNow \in Nat
ASSUME FaultAssumption == MayDie \in BOOLEAN /\ CallMayBeLost \in BOOLEAN

Attempts == (1 .. MaxCycle) \X (1 .. AttemptsPerCycle)
ASSUME NoAttemptAssumption == NoAttempt \notin Attempts

ExternalStatus == {"WAITING_PREPARATION", "ALLOCATION_PENDING", "REQUESTING", "COURIER_ASSIGNED",
                   "AT_PICKUP", "IN_TRANSIT", "DELIVERED", "FAILED", "CYCLE_EXHAUSTED", "CANCELED"}
ASSUME ReportsAssumption ==
  Reports \subseteq {"COURIER_ASSIGNED", "AT_PICKUP", "IN_TRANSIT", "DELIVERED", "FAILED"}

VARIABLES now,
          delivery,   \* status of the delivery
          ext,        \* its external fulfillment
          own,        \* its own fulfillment, current once it exists
          attempts,   \* delivery_provider_attempts
          workers, admins,
          slot,       \* capacity reservation of key fallback:<delivery>
          courier,    \* statuses the operator reported for each attempt's delivery
          calls       \* history: operator calls made for each attempt

vars == <<now, delivery, ext, own, attempts, workers, admins, slot, courier, calls>>

External == [status : ExternalStatus, current : BOOLEAN, cycle : 0 .. MaxCycle,
             startedAt : Nat, courier : Attempts \cup {NoAttempt}]
Attempt == [status : {"NONE", "SCHEDULED", "REQUESTING", "SUCCEEDED", "FAILED", "SKIPPED"},
            at : Nat]
\* at: `now' of the run; todo: its candidates; seen: the fulfillment it read.
Worker == [pc : {"idle", "loop", "claim", "call", "succeed", "fail"}, at : Nat,
           todo : SUBSET Attempts, attempt : Attempts \cup {NoAttempt}, seen : External]
Admin == {"idle", "convert", "confirm", "undo"}

Waiting == [status |-> "WAITING_PREPARATION", current |-> TRUE, cycle |-> 0,
            startedAt |-> 0, courier |-> NoAttempt]
Idle == [pc |-> "idle", at |-> 0, todo |-> {}, attempt |-> NoAttempt, seen |-> Waiting]

TypeOK ==
  /\ now \in Nat
  /\ delivery \in {"ACCEPTED", "PREPARING", "READY_FOR_DISPATCH", "CANCELED", "IN_TRANSIT", "DELIVERED"}
  /\ ext \in External
  /\ own \in {"NONE", "WAITING_DISPATCH"}
  /\ attempts \in [Attempts -> Attempt]
  /\ workers \in [Workers -> Worker]
  /\ admins \in [Admins -> Admin]
  /\ slot \in {"NONE", "HELD", "CONFIRMED", "RELEASED"}
  /\ courier \in [Attempts -> SUBSET ({"REQUESTING"} \cup Reports)]
  /\ calls \in [Attempts -> Nat]

Init ==
  /\ now = 0
  /\ delivery = "ACCEPTED"
  /\ ext = Waiting
  /\ own = "NONE"
  /\ attempts = [a \in Attempts |-> [status |-> "NONE", at |-> 0]]
  /\ workers = [w \in Workers |-> Idle]
  /\ admins = [m \in Admins |-> "idle"]
  /\ slot = "NONE"
  /\ courier = [a \in Attempts |-> {}]
  /\ calls = [a \in Attempts |-> 0]

---------------------------------------------------------------------------
(* the delivery, as the kitchen and the operators of the panel move it *)

\* Reconciling the order batch: ACCEPTED to PREPARING to READY_FOR_DISPATCH, and
\* both at once when every order is ready; only then, in a transaction of its
\* own, the cycle.  cancel: before pickup.  None touches the fulfillment.
DeliveryMoves(from, to) ==
  /\ <<from, to>> \in {<<"ACCEPTED", "PREPARING">>, <<"PREPARING", "READY_FOR_DISPATCH">>,
                       <<"ACCEPTED", "CANCELED">>, <<"PREPARING", "CANCELED">>,
                       <<"READY_FOR_DISPATCH", "CANCELED">>}
  /\ delivery = from
  /\ delivery' = to
  /\ UNCHANGED <<now, ext, own, attempts, workers, admins, slot, courier, calls>>

---------------------------------------------------------------------------
(* cycles *)

\* The attempts of a cycle, one every three minutes from now.
Schedule(cycle) ==
  [a \in Attempts |-> IF a[1] = cycle THEN [status |-> "SCHEDULED", at |-> now + a[2] - 1]
                      ELSE attempts[a]]

\* delivery_provider_attempts_key: an attempt of a cycle is inserted once.  A
\* claim may have written an older cycle back into the fulfillment; restarting
\* from there violates the key and rolls back.
Fresh(cycle) == \A n \in 1 .. AttemptsPerCycle : attempts[<<cycle, n>>].status = "NONE"

\* Bound: a cycle starts only when the clock can still run past its end.
RoomForCycle == now + AttemptsPerCycle <= MaxNow

\* startExternalCycle: once, while the kitchen prepares.
StartCycle ==
  /\ delivery = "PREPARING"
  /\ ext.current /\ ext.cycle = 0
  /\ RoomForCycle /\ Fresh(1)
  /\ ext' = [ext EXCEPT !.cycle = 1, !.status = "ALLOCATION_PENDING", !.startedAt = now]
  /\ attempts' = Schedule(1)
  /\ UNCHANGED <<now, delivery, own, workers, admins, slot, courier, calls>>

\* restartExternalCycle: an administrator asks for another cycle.
RestartCycle ==
  /\ ext.current /\ ext.cycle < MaxCycle
  /\ RoomForCycle /\ Fresh(ext.cycle + 1)
  /\ ext.status \in {"CYCLE_EXHAUSTED", "FAILED"}
  /\ ext' = [ext EXCEPT !.cycle = @ + 1, !.status = "ALLOCATION_PENDING", !.startedAt = now]
  /\ attempts' = Schedule(ext.cycle + 1)
  /\ UNCHANGED <<now, delivery, own, workers, admins, slot, courier, calls>>

---------------------------------------------------------------------------
(* runScheduledAttempts *)

Due == {a \in Attempts : attempts[a].status = "SCHEDULED" /\ attempts[a].at <= now}

RunBegin(w) ==
  /\ workers[w].pc = "idle"
  /\ Due # {}
  /\ workers' = [workers EXCEPT ![w] = [Idle EXCEPT !.pc = "loop", !.at = now, !.todo = Due]]
  /\ UNCHANGED <<now, delivery, ext, own, attempts, admins, slot, courier, calls>>

\* The next candidate, in the order the attempts were scheduled.
NextOf(w, a) ==
  /\ workers[w].pc = "loop"
  /\ a \in workers[w].todo
  /\ \A b \in workers[w].todo : attempts[a].at <= attempts[b].at

\* An attempt whose row another worker's claim transaction has locked.
Claimed(a) == \E w \in Workers : workers[w].pc = "claim" /\ workers[w].attempt = a

Settled == {"COURIER_ASSIGNED", "AT_PICKUP", "IN_TRANSIT", "DELIVERED",
            "CYCLE_EXHAUSTED", "FAILED", "CANCELED"}

\* The attempt is no longer SCHEDULED, or its fulfillment needs no courier.
ClaimSkip(w, a) ==
  /\ NextOf(w, a) /\ ~Claimed(a)
  /\ \/ attempts[a].status # "SCHEDULED" /\ UNCHANGED attempts
     \/ /\ attempts[a].status = "SCHEDULED" /\ ext.status \in Settled
        /\ attempts' = [attempts EXCEPT ![a].status = "SKIPPED"]
  /\ workers' = [workers EXCEPT ![w].todo = @ \ {a}]
  /\ UNCHANGED <<now, delivery, ext, own, admins, slot, courier, calls>>

\* Mutant of ClaimRead: the attempt is read without FOR UPDATE.
ClaimReadUnlocked(w, a) ==
  /\ NextOf(w, a)
  /\ attempts[a].status = "SCHEDULED" /\ ext.status \notin Settled
  /\ workers' = [workers EXCEPT ![w].pc = "claim", ![w].attempt = a,
                                ![w].todo = @ \ {a}, ![w].seen = ext]
  /\ UNCHANGED <<now, delivery, ext, own, attempts, admins, slot, courier, calls>>

\* Lock the attempt; read the fulfillment without a lock.
ClaimRead(w, a) ==
  /\ NextOf(w, a) /\ ~Claimed(a)
  /\ attempts[a].status = "SCHEDULED" /\ ext.status \notin Settled
  /\ workers' = [workers EXCEPT ![w].pc = "claim", ![w].attempt = a,
                                ![w].todo = @ \ {a}, ![w].seen = ext]
  /\ UNCHANGED <<now, delivery, ext, own, attempts, admins, slot, courier, calls>>

\* uq_delivery_fulfillments_current: the own fulfillment took its place.
CurrentTaken(row) == row.current /\ own # "NONE"

\* save() compares the row it read with the table and writes back every column
\* that differs, REQUESTING among them.
ClaimWrite(w) ==
  /\ workers[w].pc = "claim"
  /\ ~CurrentTaken(workers[w].seen)
  /\ ext' = [workers[w].seen EXCEPT !.status = "REQUESTING"]
  /\ attempts' = [attempts EXCEPT ![workers[w].attempt].status = "REQUESTING"]
  /\ workers' = [workers EXCEPT ![w].pc = "call"]
  /\ UNCHANGED <<now, delivery, own, admins, slot, courier, calls>>

\* The unique index refuses the write: the claim rolls back and the error ends
\* the run.
ClaimRejected(w) ==
  /\ workers[w].pc = "claim"
  /\ CurrentTaken(workers[w].seen)
  /\ workers' = [workers EXCEPT ![w] = Idle]
  /\ UNCHANGED <<now, delivery, ext, own, attempts, admins, slot, courier, calls>>

\* attemptContext reads the fulfillment again; provider.createDelivery runs
\* outside any transaction: the operator creates the delivery and answers, or
\* refuses, or creates it and the answer (or the transaction that would record
\* it, inside the same try) is lost.
ProviderCall(w) ==
  LET a == workers[w].attempt IN
  /\ workers[w].pc = "call"
  /\ \E created, answered \in BOOLEAN :
       /\ answered => created
       /\ created /\ ~answered => CallMayBeLost
       /\ courier' = IF created THEN [courier EXCEPT ![a] = {"REQUESTING"}] ELSE courier
       /\ workers' = [workers EXCEPT ![w].pc = IF answered THEN "succeed" ELSE "fail", ![w].seen = ext]
  /\ calls' = [calls EXCEPT ![a] = @ + 1]
  /\ UNCHANGED <<now, delivery, ext, own, attempts, admins, slot>>

Finished(w) == [workers EXCEPT ![w].pc = "loop", ![w].attempt = NoAttempt]

\* Mutant of AttemptSucceeds: the fulfillment gets no status.
AttemptSucceedsSilently(w) ==
  /\ workers[w].pc = "succeed"
  /\ attempts' = [attempts EXCEPT ![workers[w].attempt].status = "SUCCEEDED"]
  /\ ext' = [ext EXCEPT !.courier = workers[w].attempt]
  /\ workers' = Finished(w)
  /\ UNCHANGED <<now, delivery, own, admins, slot, courier, calls>>

\* The transaction of a success: the fulfillment by id, whatever it is now.  The
\* operator answers REQUESTING, which is recorded as COURIER_ASSIGNED.
AttemptSucceeds(w) ==
  /\ workers[w].pc = "succeed"
  /\ attempts' = [attempts EXCEPT ![workers[w].attempt].status = "SUCCEEDED"]
  /\ ext' = [ext EXCEPT !.status = "COURIER_ASSIGNED", !.courier = workers[w].attempt]
  /\ workers' = Finished(w)
  /\ UNCHANGED <<now, delivery, own, admins, slot, courier, calls>>

\* Mutant of EndsCycle: only the window ends a cycle.
EndsWindow(w) == workers[w].at >= workers[w].seen.startedAt + AttemptsPerCycle

\* The last number, or AttemptsPerCycle ticks (fifteen minutes) at the time of the
\* run from the start of the cycle attemptContext read.
EndsCycle(w) ==
  \/ workers[w].attempt[2] = AttemptsPerCycle
  \/ workers[w].at >= workers[w].seen.startedAt + AttemptsPerCycle

\* The transaction of a failure: the fulfillment by id, whatever it is now.
AttemptFails(w) ==
  /\ workers[w].pc = "fail"
  /\ attempts' = [attempts EXCEPT ![workers[w].attempt].status = "FAILED"]
  /\ ext' = [ext EXCEPT !.status = IF EndsCycle(w) THEN "CYCLE_EXHAUSTED" ELSE "ALLOCATION_PENDING"]
  /\ workers' = Finished(w)
  /\ UNCHANGED <<now, delivery, own, admins, slot, courier, calls>>

RunEnd(w) ==
  /\ workers[w].pc = "loop" /\ workers[w].todo = {}
  /\ workers' = [workers EXCEPT ![w] = Idle]
  /\ UNCHANGED <<now, delivery, ext, own, attempts, admins, slot, courier, calls>>

\* The server dies: an open claim rolls back, the rest is as committed.
WorkerDies(w) ==
  /\ MayDie
  /\ workers[w].pc # "idle"
  /\ workers' = [workers EXCEPT ![w] = Idle]
  /\ UNCHANGED <<now, delivery, ext, own, attempts, admins, slot, courier, calls>>

---------------------------------------------------------------------------
(* the operator and its webhooks *)

Rank(status) ==
  CASE status \in {"REQUESTING", "ALLOCATION_PENDING"} -> 1
    [] status = "COURIER_ASSIGNED" -> 2
    [] status = "AT_PICKUP" -> 3
    [] status = "IN_TRANSIT" -> 4
    [] status \in {"DELIVERED", "FAILED", "CANCELED", "CYCLE_EXHAUSTED"} -> 5
    [] OTHER -> 0

\* The courier of an accepted request makes progress, or gives up.
CourierMoves(a, status) ==
  /\ courier[a] # {}
  /\ \A s \in courier[a] : Rank(s) < Rank(status)
  /\ courier' = [courier EXCEPT ![a] = @ \cup {status}]
  /\ UNCHANGED <<now, delivery, ext, own, attempts, workers, admins, slot, calls>>

\* applyPayload of a webhook or of a poll: any status the operator ever
\* reported, late and in any order.  FAILED is not terminal for it.
ApplyPayload(a, status) ==
  /\ status \in courier[a]
  /\ ext.current /\ ext.courier = a
  /\ ext.status \notin {"DELIVERED", "CANCELED", "CYCLE_EXHAUSTED"}
  /\ Rank(status) >= Rank(ext.status)
  /\ ext' = [ext EXCEPT !.status = status]
  /\ delivery' = IF status \in {"IN_TRANSIT", "DELIVERED"} THEN status ELSE delivery
  /\ UNCHANGED <<now, own, attempts, workers, admins, slot, courier, calls>>

---------------------------------------------------------------------------
(* convertToOwn *)

\* capacityService.hold of the fallback key: an active reservation is reused.
ConvertHold(m) ==
  /\ admins[m] = "idle"
  /\ slot' = IF slot \in {"HELD", "CONFIRMED"} THEN slot ELSE "HELD"
  /\ admins' = [admins EXCEPT ![m] = "convert"]
  /\ UNCHANGED <<now, delivery, ext, own, attempts, workers, courier, calls>>

\* The own fulfillment replaces the external one, whatever its status.
Convert(m) ==
  /\ admins[m] = "convert"
  /\ own = "NONE"
  /\ own' = "WAITING_DISPATCH"
  /\ ext' = [ext EXCEPT !.current = FALSE, !.status = "CANCELED"]
  /\ delivery' = IF delivery = "PREPARING" THEN "READY_FOR_DISPATCH" ELSE delivery
  /\ admins' = [admins EXCEPT ![m] = "confirm"]
  /\ UNCHANGED <<now, attempts, workers, slot, courier, calls>>

\* `Delivery já está em modalidade própria': on to the catch block.
ConvertRejected(m) ==
  /\ admins[m] = "convert"
  /\ own # "NONE"
  /\ admins' = [admins EXCEPT ![m] = "undo"]
  /\ UNCHANGED <<now, delivery, ext, own, attempts, workers, slot, courier, calls>>

\* capacityService.confirm of the fallback key.
ConvertConfirm(m) ==
  /\ admins[m] = "confirm"
  /\ slot' = IF slot = "HELD" THEN "CONFIRMED" ELSE slot
  /\ admins' = [admins EXCEPT ![m] = IF slot \in {"HELD", "CONFIRMED"} THEN "idle" ELSE "undo"]
  /\ UNCHANGED <<now, delivery, ext, own, attempts, workers, courier, calls>>

\* The catch block: capacityService.release of the fallback key.
ConvertUndo(m) ==
  /\ admins[m] = "undo"
  /\ slot' = IF slot \in {"HELD", "CONFIRMED"} THEN "RELEASED" ELSE slot
  /\ admins' = [admins EXCEPT ![m] = "idle"]
  /\ UNCHANGED <<now, delivery, ext, own, attempts, workers, courier, calls>>

ConvertDies(m) ==
  /\ MayDie
  /\ admins[m] # "idle"
  /\ admins' = [admins EXCEPT ![m] = "idle"]
  /\ UNCHANGED <<now, delivery, ext, own, attempts, workers, slot, courier, calls>>

---------------------------------------------------------------------------
Tick ==
  /\ now < MaxNow
  /\ now' = now + 1
  /\ UNCHANGED <<delivery, ext, own, attempts, workers, admins, slot, courier, calls>>

WorkerStep(w) ==
  \/ RunBegin(w) \/ RunEnd(w)
  \/ \E a \in Attempts : ClaimSkip(w, a) \/ ClaimRead(w, a)
  \/ ClaimWrite(w) \/ ClaimRejected(w)
  \/ ProviderCall(w) \/ AttemptSucceeds(w) \/ AttemptFails(w)

AdminStep(m) == Convert(m) \/ ConvertRejected(m) \/ ConvertConfirm(m) \/ ConvertUndo(m)

Next ==
  \/ \E from, to \in {"ACCEPTED", "PREPARING", "READY_FOR_DISPATCH", "CANCELED"} : DeliveryMoves(from, to)
  \/ StartCycle \/ RestartCycle
  \/ \E w \in Workers : WorkerStep(w) \/ WorkerDies(w)
  \/ \E a \in Attempts, s \in {"REQUESTING"} \cup Reports : CourierMoves(a, s) \/ ApplyPayload(a, s)
  \/ \E m \in Admins : ConvertHold(m) \/ AdminStep(m) \/ ConvertDies(m)
  \/ Tick

Spec == Init /\ [][Next]_vars

\* Maintenance keeps running, a claim that waits for a row lock gets it, the
\* operator's calls return, and time passes.
FairSpec == Spec /\ (\A w \in Workers : SF_vars(WorkerStep(w))) /\ WF_vars(Tick)

---------------------------------------------------------------------------
(* properties *)

\* Two workers never execute the same logical attempt: whatever overlaps or
\* dies, the operator is called at most once per idempotency key. Nor is a
\* conversion undone by a worker that read the fulfillment before: the
\* external fulfillment never becomes current again beside the own one.
AttemptCalledOnce ==
  /\ \A a \in DOMAIN calls : calls[a] <= 1
  /\ ~(ext.current /\ own # "NONE")

OneWorker == \A v, w \in DOMAIN workers : v = w
NoCallAfterSuccess ==
  \A a, b \in DOMAIN attempts :
    attempts[a].status = "SUCCEEDED" /\ a[1] = ext.cycle /\ b[1] = ext.cycle
      => calls'[b] = calls[b]

\* Maintenance without overlapping runs: while a cycle runs, once one of its
\* attempts has found a courier no other attempt of it calls the operator
\* (runScheduledAttempts), also when servers die and answers are lost.
SuccessStopsCycle == [][OneWorker => NoCallAfterSuccess]_vars

\* Maintenance without overlapping runs or crashes: a cycle is over some day,
\* with a courier, exhausted, failed or converted.
CycleConcludes ==
  ext.status \in {"ALLOCATION_PENDING", "REQUESTING"} ~> ext.status \in Settled
=============================================================================
