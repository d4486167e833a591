------------------------- MODULE DeliveryLifecycle --------------------------
(***************************************************************************)
(* The life of deliveries in delivery.service.ts: the status machine of    *)
(* contracts/delivery-enums.ts, the commands of the panel and of the       *)
(* drivers, and the reconciliation with the orders of the kitchen.         *)
(*                                                                         *)
(* Most commands are one transaction that locks the delivery.  The others  *)
(* run in handlers, step by step: an assignment checks, reads and saves    *)
(* without a lock; a reconciliation, which the core asks for with a call   *)
(* that may fail, reads and then makes up to two transitions; cancel,      *)
(* reject and complete commit the status first and free the courier slot   *)
(* in a second transaction.  A server may die between two steps.  The      *)
(* maintenance's sweep over ACCEPTED and PREPARING is no action: it reads  *)
(* tenant and batch of its deliveries under names that leave them          *)
(* undefined, and repairs nothing (delivery-maintenance.service.ts:147).   *)
(* runIdempotent adds no state: the replay of a stored                     *)
(* answer changes nothing, and a command that was not answered runs again. *)
(* What an operator reports comes from ExternalFulfillment; the slot       *)
(* follows CapacityPool.  Not modelled: PIN, tracking, events, addresses.  *)
(***************************************************************************)
EXTENDS Naturals

CONSTANTS Deliveries, Orders, Drivers, Handlers,
          NoDriver, NoDelivery,
          MaxVersion,   \* bound: changes of one delivery
          Reports,      \* statuses an operator reports
          MayDie        \* may servers die between two transactions

ASSUME VersionAssumption == MaxVersion \in Nat
ASSUME NobodyAssumption == NoDriver \notin Drivers /\ NoDelivery \notin Deliveries
ASSUME OperatorAssumption == Reports \subseteq {"IN_TRANSIT", "DELIVERED"} /\ MayDie \in BOOLEAN

\* DELIVERY_STATUS_TRANSITIONS
Transitions ==
  {<<"PENDING", "ACCEPTED">>, <<"PENDING", "REJECTED">>, <<"PENDING", "CANCELED">>,
   <<"ACCEPTED", "PREPARING">>, <<"ACCEPTED", "CANCELED">>,
   <<"PREPARING", "READY">>, <<"PREPARING", "CANCELED">>,
   <<"READY", "ASSIGNED">>, <<"READY", "IN_TRANSIT">>, <<"READY", "CANCELED">>,
   <<"ASSIGNED", "READY">>, <<"ASSIGNED", "PICKED_UP">>, <<"ASSIGNED", "CANCELED">>,
   <<"PICKED_UP", "IN_TRANSIT">>, <<"PICKED_UP", "FAILED">>,
   <<"IN_TRANSIT", "ARRIVED">>, <<"IN_TRANSIT", "DELIVERED">>,
   <<"IN_TRANSIT", "FAILED">>, <<"IN_TRANSIT", "RETURNING">>,
   <<"ARRIVED", "DELIVERED">>, <<"ARRIVED", "FAILED">>, <<"ARRIVED", "RETURNING">>,
   <<"FAILED", "ASSIGNED">>, <<"FAILED", "RETURNING">>, <<"FAILED", "CANCELED">>,
   <<"RETURNING", "RETURNED">>}
Status == {t[1] : t \in Transitions} \cup {t[2] : t \in Transitions}
Terminal == {"DELIVERED", "REJECTED", "CANCELED", "RETURNED"}
Active == Status \ (Terminal \cup {"PENDING"})

VARIABLES rows,      \* deliveries: status, version, assigned driver; was it taken
                     \* back from its end (undone: no column, for the properties)
          trips,     \* the current fulfillment: none, external, or own with its status
          slots,     \* the courier slot linked to the delivery
          orders,    \* orders of the delivery's batch
          requested, \* deliveries whose reconciliation the core has asked for, not yet begun
          missed,    \* history: the reconciliation last asked for came to nothing
          handlers

asking == <<requested, missed>>

vars == <<rows, trips, slots, orders, asking, handlers>>

Row == [status : Status, version : Nat, driver : Drivers \cup {NoDriver}, undone : BOOLEAN]
NoRow == [status |-> "PENDING", version |-> 0, driver |-> NoDriver, undone |-> FALSE]
Trip == {"NONE", "EXTERNAL", "EXTERNAL_DELIVERED", "WAITING_DISPATCH", "IN_TRANSIT", "DELIVERED"}
\* seen: the version it read; ready: what it read of the orders.
Handler == [pc : {"idle", "assign", "write", "prepare", "ready", "release"},
            delivery : Deliveries \cup {NoDelivery}, driver : Drivers \cup {NoDriver},
            seen : Nat, ready : BOOLEAN]
Idle == [pc |-> "idle", delivery |-> NoDelivery, driver |-> NoDriver, seen |-> 0, ready |-> FALSE]

TypeOK ==
  /\ rows \in [Deliveries -> Row]
  /\ trips \in [Deliveries -> Trip]
  /\ slots \in [Deliveries -> {"NONE", "CONFIRMED", "RELEASED"}]
  /\ orders \in [Deliveries -> [Orders -> {"PENDING", "ACCEPTED", "READY", "DELIVERED", "CANCELED"}]]
  /\ requested \subseteq Deliveries /\ missed \subseteq Deliveries
  /\ handlers \in [Handlers -> Handler]

\* Paid: an own delivery has its slot, an external one its fulfillment.
Init ==
  /\ rows \in [Deliveries -> {[NoRow EXCEPT !.status = s, !.version = 1] : s \in {"PENDING", "ACCEPTED"}}]
  /\ trips \in [Deliveries -> {"NONE", "EXTERNAL"}]
  /\ slots = [d \in Deliveries |-> IF trips[d] = "NONE" THEN "CONFIRMED" ELSE "NONE"]
  /\ orders = [d \in Deliveries |-> [o \in Orders |-> "PENDING"]]
  /\ requested = {} /\ missed = {}
  /\ handlers = [h \in Handlers |-> Idle]

---------------------------------------------------------------------------
\* A command that changes the status saves the next version too.
Save(d, status) ==
  /\ rows[d].version < MaxVersion
  /\ rows' = [rows EXCEPT ![d].status = status, ![d].version = @ + 1]

\* Does this status take a row back from its end?
Undone(row, status) == row.undone \/ (row.status \in Terminal /\ status # row.status)

\* transition: lock, check the table, save.
Transition(d, status) == <<rows[d].status, status>> \in Transitions /\ Save(d, status)

Run(h, pc, d) == handlers' = [handlers EXCEPT ![h] = [Idle EXCEPT !.pc = pc, !.delivery = d]]
Done(h) == handlers' = [handlers EXCEPT ![h] = Idle]

---------------------------------------------------------------------------
(* the kitchen, and the reconciliation with it *)

Kept(os) == {o \in Orders : os[o] # "CANCELED"}

AllIn(d, statuses) == Kept(orders[d]) # {} /\ \A o \in Kept(orders[d]) : orders[d][o] \in statuses
AllAccepted(d) == AllIn(d, {"ACCEPTED", "READY", "DELIVERED"})
AllReady(d) == AllIn(d, {"READY", "DELIVERED"})

\* A request to reconcile; one on its way stands for its copies.
AskFor(d) == requested' = requested \cup {d} /\ missed' = missed \ {d}

\* The panel asks nobody; the core does when the batch becomes ACCEPTED, and
\* only then (publishDeliveryPreparingEvent).
OrderMoves(d, o) ==
  /\ \E to \in {"ACCEPTED", "READY", "DELIVERED", "CANCELED"} :
       /\ <<orders[d][o], to>> \in {<<"PENDING", "ACCEPTED">>, <<"PENDING", "CANCELED">>,
            <<"ACCEPTED", "READY">>, <<"ACCEPTED", "CANCELED">>, <<"READY", "DELIVERED">>}
       /\ orders' = [orders EXCEPT ![d][o] = to]
  /\ \/ UNCHANGED asking
     \/ /\ Kept(orders'[d]) # {} /\ \A x \in Kept(orders'[d]) : orders'[d][x] = "ACCEPTED"
        /\ AskFor(d)
  /\ UNCHANGED <<rows, trips, slots, handlers>>

\* Every notice of the provider about a confirmed payment asks too, the
\* repeated ones as well (DeliveryPaymentCoordinator.ConfirmPaid).
PaymentNotice(d) ==
  /\ d \notin requested
  /\ AskFor(d)
  /\ UNCHANGED <<rows, trips, slots, orders, handlers>>

\* Three attempts failed, the time was up, or the core died: nobody asks again.
RequestLost(d) ==
  /\ d \in requested
  /\ requested' = requested \ {d}
  /\ missed' = missed \cup {d}
  /\ UNCHANGED <<rows, trips, slots, orders, handlers>>

\* Mutant of ReconcileRead: only an ACCEPTED delivery is looked at.
ReconcileAccepted(h, d) ==
  /\ handlers[h].pc = "idle" /\ d \in requested
  /\ requested' = requested \ {d}
  /\ IF rows[d].status = "ACCEPTED" /\ AllAccepted(d)
       THEN handlers' = [handlers EXCEPT ![h] =
              [Idle EXCEPT !.pc = "prepare", !.delivery = d, !.ready = AllReady(d)]]
       ELSE UNCHANGED handlers
  /\ UNCHANGED <<rows, trips, slots, orders, missed>>

\* reconcileOrderBatch: the delivery and the orders are read without locks.
ReconcileRead(h, d) ==
  /\ handlers[h].pc = "idle" /\ d \in requested
  /\ requested' = requested \ {d}
  /\ IF \/ rows[d].status = "ACCEPTED" /\ AllAccepted(d)
        \/ rows[d].status = "PREPARING" /\ AllReady(d)
       THEN handlers' = [handlers EXCEPT ![h] =
              [Idle EXCEPT !.pc = IF rows[d].status = "ACCEPTED" THEN "prepare" ELSE "ready",
                           !.delivery = d, !.ready = AllReady(d)]]
       ELSE UNCHANGED handlers
  /\ UNCHANGED <<rows, trips, slots, orders, missed>>

ReconcilePrepare(h) ==
  /\ handlers[h].pc = "prepare"
  /\ Transition(handlers[h].delivery, "PREPARING")
  /\ IF handlers[h].ready THEN Run(h, "ready", handlers[h].delivery) ELSE Done(h)
  /\ UNCHANGED <<trips, slots, orders, asking>>

ReconcileReady(h) ==
  /\ handlers[h].pc = "ready"
  /\ Transition(handlers[h].delivery, "READY")
  /\ Done(h)
  /\ UNCHANGED <<trips, slots, orders, asking>>

\* The delivery moved on in between and the transition throws: also when the
\* one that moved it was a reconciliation that had not seen the orders ready.
ReconcileRefused(h) ==
  /\ \/ handlers[h].pc = "prepare" /\ rows[handlers[h].delivery].status # "ACCEPTED"
     \/ handlers[h].pc = "ready" /\ rows[handlers[h].delivery].status # "PREPARING"
  /\ missed' = IF handlers[h].pc = "prepare" /\ handlers[h].ready
                 THEN missed \cup {handlers[h].delivery} ELSE missed
  /\ Done(h)
  /\ UNCHANGED <<rows, trips, slots, orders, requested>>

---------------------------------------------------------------------------
(* the panel: commands of one transaction *)

Accept(d) == Transition(d, "ACCEPTED") /\ UNCHANGED <<trips, slots, orders, asking, handlers>>

\* startReturn and completeReturn, for the version the client has seen.
Return(d) ==
  /\ Transition(d, "RETURNING") \/ Transition(d, "RETURNED")
  /\ UNCHANGED <<trips, slots, orders, asking, handlers>>

\* overrideDelivery: a manager declares it delivered.
Override(d) ==
  /\ rows[d].status \in {"IN_TRANSIT", "ARRIVED", "FAILED"}
  /\ Save(d, "DELIVERED")
  /\ UNCHANGED <<trips, slots, orders, asking, handlers>>

StartOwn(d) ==
  /\ rows[d].status = "READY" /\ trips[d] = "WAITING_DISPATCH"
  /\ rows[d].driver = NoDriver
  /\ Save(d, "IN_TRANSIT")
  /\ trips' = [trips EXCEPT ![d] = "IN_TRANSIT"]
  /\ UNCHANGED <<slots, orders, asking, handlers>>

\* Mutant of ConvertToOwn: the delivery becomes ready whatever it was.
ConvertToReady(d) ==
  /\ trips[d] \in {"NONE", "EXTERNAL", "EXTERNAL_DELIVERED"}
  /\ trips' = [trips EXCEPT ![d] = "WAITING_DISPATCH"]
  /\ slots' = [slots EXCEPT ![d] = "CONFIRMED"]
  /\ Save(d, "READY")
  /\ UNCHANGED <<orders, asking, handlers>>

\* convertToOwn (ExternalFulfillment has its steps): the one place where an
\* own fulfillment is made, with a slot for the delivery.
ConvertToOwn(d) ==
  /\ trips[d] \in {"NONE", "EXTERNAL", "EXTERNAL_DELIVERED"}
  /\ trips' = [trips EXCEPT ![d] = "WAITING_DISPATCH"]
  /\ slots' = [slots EXCEPT ![d] = "CONFIRMED"]
  /\ IF rows[d].status = "PREPARING" THEN Save(d, "READY") ELSE UNCHANGED rows
  /\ UNCHANGED <<orders, asking, handlers>>

---------------------------------------------------------------------------
(* the panel: a status, then the slot *)

\* Mutant of Cancel: the slot is freed first.
CancelSlotFirst(h, d) ==
  /\ handlers[h].pc = "idle"
  /\ rows[d].status \in Active
  /\ slots' = [slots EXCEPT ![d] = "RELEASED"]
  /\ UNCHANGED <<rows, trips, orders, asking, handlers>>

Cancel(h, d) ==
  /\ handlers[h].pc = "idle"
  /\ Transition(d, "CANCELED")
  /\ Run(h, "release", d)
  /\ UNCHANGED <<trips, slots, orders, asking>>

Reject(h, d) ==
  /\ handlers[h].pc = "idle"
  /\ Transition(d, "REJECTED")
  /\ Run(h, "release", d)
  /\ UNCHANGED <<trips, slots, orders, asking>>

CompleteOwn(h, d) ==
  /\ handlers[h].pc = "idle"
  /\ rows[d].status = "IN_TRANSIT" /\ trips[d] = "IN_TRANSIT"
  /\ Save(d, "DELIVERED")
  /\ trips' = [trips EXCEPT ![d] = "DELIVERED"]
  /\ Run(h, "release", d)
  /\ UNCHANGED <<slots, orders, asking>>

\* completeOwn of what is delivered already: no change, and on to the slot.
CompleteOwnAgain(h, d) ==
  /\ handlers[h].pc = "idle"
  /\ rows[d].status = "DELIVERED" /\ trips[d] = "DELIVERED"
  /\ Run(h, "release", d)
  /\ UNCHANGED <<rows, trips, slots, orders, asking>>

\* capacityService.releaseForDelivery
ReleaseSlot(h) ==
  LET d == handlers[h].delivery IN
  /\ handlers[h].pc = "release"
  /\ slots' = IF slots[d] = "CONFIRMED" THEN [slots EXCEPT ![d] = "RELEASED"] ELSE slots
  /\ Done(h)
  /\ UNCHANGED <<rows, trips, orders, asking>>

---------------------------------------------------------------------------
(* drivers *)

Busy(driver) == {d \in Deliveries : rows[d].driver = driver /\ rows[d].status \in Active}

\* assignInternal: the checks, for the version the client has seen.
AssignCheck(h, d, driver) ==
  /\ handlers[h].pc = "idle"
  /\ rows[d].status \in {"READY", "ASSIGNED", "FAILED"}
  /\ Busy(driver) # {} => rows[d].driver = driver
  /\ handlers' = [handlers EXCEPT ![h] = [Idle EXCEPT !.pc = "assign", !.delivery = d,
                                                      !.driver = driver, !.seen = rows[d].version]]
  /\ UNCHANGED <<rows, trips, slots, orders, asking>>

\* The transaction reads the row again, unlocked, and compares the version.
AssignRead(h) ==
  LET row == rows[handlers[h].delivery] IN
  /\ handlers[h].pc = "assign"
  /\ handlers' = [handlers EXCEPT ![h] =
       IF row.version = handlers[h].seen THEN [handlers[h] EXCEPT !.pc = "write"] ELSE Idle]
  /\ UNCHANGED <<rows, trips, slots, orders, asking>>

\* save() writes every column that differs from the row it read.
AssignWrite(h) ==
  /\ handlers[h].pc = "write"
  /\ handlers[h].seen < MaxVersion
  /\ rows' = [rows EXCEPT ![handlers[h].delivery] =
       [status |-> "ASSIGNED", version |-> handlers[h].seen + 1, driver |-> handlers[h].driver,
        undone |-> Undone(@, "ASSIGNED")]]
  /\ Done(h)
  /\ UNCHANGED <<trips, slots, orders, asking>>

\* pickup, arrive, confirm-pin, exception: the assigned driver's commands.
DriverMoves(d, to) ==
  /\ rows[d].driver # NoDriver
  /\ <<rows[d].status, to>> \in
       {<<"ASSIGNED", "PICKED_UP">>, <<"IN_TRANSIT", "ARRIVED">>,
        <<"IN_TRANSIT", "DELIVERED">>, <<"ARRIVED", "DELIVERED">>,
        <<"PICKED_UP", "FAILED">>, <<"IN_TRANSIT", "FAILED">>, <<"ARRIVED", "FAILED">>}
  /\ Save(d, to)
  /\ UNCHANGED <<trips, slots, orders, asking, handlers>>

---------------------------------------------------------------------------
\* applyPayload of a webhook or a poll: no table, no version.
OperatorReports(d, status) ==
  /\ trips[d] = "EXTERNAL"
  /\ rows' = [rows EXCEPT ![d].status = status, ![d].undone = Undone(rows[d], status)]
  /\ trips' = IF status = "DELIVERED" THEN [trips EXCEPT ![d] = "EXTERNAL_DELIVERED"] ELSE trips
  /\ UNCHANGED <<slots, orders, asking, handlers>>

\* The server dies; what it committed stays.
Dies(h) ==
  /\ MayDie /\ handlers[h].pc # "idle"
  /\ missed' = IF handlers[h].pc \in {"prepare", "ready"} THEN missed \cup {handlers[h].delivery} ELSE missed
  /\ Done(h)
  /\ UNCHANGED <<rows, trips, slots, orders, requested>>

---------------------------------------------------------------------------
HandlerStep(h) ==
  \/ ReconcilePrepare(h) \/ ReconcileReady(h) \/ ReconcileRefused(h)
  \/ ReleaseSlot(h) \/ AssignRead(h) \/ AssignWrite(h)

Next ==
  \/ \E d \in Deliveries :
       \/ \E o \in Orders : OrderMoves(d, o)
       \/ PaymentNotice(d) \/ RequestLost(d)
       \/ Accept(d) \/ Return(d) \/ Override(d) \/ StartOwn(d) \/ ConvertToOwn(d)
       \/ \E to \in {"PICKED_UP", "ARRIVED", "DELIVERED", "FAILED"} : DriverMoves(d, to)
       \/ \E status \in Reports : OperatorReports(d, status)
       \/ \E h \in Handlers :
            \/ ReconcileRead(h, d)
            \/ Cancel(h, d) \/ Reject(h, d) \/ CompleteOwn(h, d) \/ CompleteOwnAgain(h, d)
            \/ \E driver \in Drivers : AssignCheck(h, d, driver)
  \/ \E h \in Handlers : HandlerStep(h) \/ Dies(h)

Spec == Init /\ [][Next]_vars

\* A reconciliation that was asked for is begun or lost: the core's call has a
\* timeout.  Servers do not die at every attempt, and a client repeats a
\* completion that was not answered.
FairSpec ==
  /\ Spec
  /\ \A h \in Handlers : SF_vars(HandlerStep(h))
  /\ \A d \in Deliveries : /\ WF_vars(RequestLost(d) \/ \E h \in Handlers : ReconcileRead(h, d))
                           /\ SF_vars(\E h \in Handlers : CompleteOwnAgain(h, d))

---------------------------------------------------------------------------
(* properties *)

\* While its delivery is still to be made nobody frees its slot: whatever
\* commands cross, the slot goes after the end (cancel, reject, completeOwn,
\* releaseForDelivery), unless the end was taken back afterwards.
SlotUntilTheEnd ==
  \A d \in Deliveries : slots[d] = "RELEASED" => rows[d].status \in Terminal \/ rows[d].undone

\* "estado terminal não regride": a finished delivery stays as it finished,
\* whatever commands, reconciliations and conversions cross.  Two may take it
\* back: an assignment that read the row before, without a lock, saves ASSIGNED
\* over it (assignInternal), and an operator's report (applyPayload).
TerminalKept ==
  [][\A d \in Deliveries : \A s \in Terminal :
       rows[d].status = s /\ trips[d] # "EXTERNAL" =>
         \/ rows'[d].status = s
         \/ \E h \in Handlers : handlers[h].pc = "write" /\ handlers[h].delivery = d]_vars

\* A reconciliation asked for brings the delivery to where its kitchen is, up
\* to PREPARING and up to READY, whatever else handles the same delivery
\* (reconcileOrderBatch).  It comes to nothing when the request is lost, when
\* its server dies, or when another one that had not seen the orders ready
\* made the first transition: the second throws, and nothing tries again.
BatchFollowed ==
  \A d \in Deliveries :
    /\ d \in requested /\ rows[d].status = "ACCEPTED" /\ AllAccepted(d)
         ~> rows[d].status # "ACCEPTED" \/ ~AllAccepted(d) \/ d \in missed
    /\ d \in requested /\ rows[d].status \in {"ACCEPTED", "PREPARING"} /\ AllReady(d)
         ~> rows[d].status \notin {"ACCEPTED", "PREPARING"} \/ d \in missed

\* A completed own delivery gives its slot back, even when the server dies
\* between the two transactions: the repeated completion frees it, unless a
\* stale assignment took the delivery back before it was repeated.
CompletedFreesSlot ==
  \A d \in Deliveries :
    trips[d] = "DELIVERED" /\ slots[d] = "CONFIRMED"
      ~> slots[d] = "RELEASED" \/ rows[d].undone

\* Kitchen, delivery and slot come together in the end, where somebody asks.
DeliverySettles == BatchFollowed /\ CompletedFreesSlot
=============================================================================
