---- MODULE KitchenOrders ----
(***************************************************************************)
(* The orders of one batch on their way through the kitchen                *)
(* (orders.service.ts, create_order.go, update_order_status.go,            *)
(* order_batch_status.go).                                                 *)
(*                                                                         *)
(* A request reads an order and checks the transition, saves the row,      *)
(* reads the batch, reads its orders, saves the batch and inserts the      *)
(* message for the customer, without a lock or a transaction in between:   *)
(* a step of the model is one of these statements, and at each of them a   *)
(* request may fail or die.                                                *)
(***************************************************************************)
EXTENDS Naturals, FiniteSets

CONSTANTS
  BatchOrders,  \* the orders of the batch, one per station
  Reqs,         \* requests under way at the same time
  NoOrder,
  MaxOps        \* bound: requests begun

VARIABLES
  batchOrders,  \* status of each order
  batch,        \* the row of order_batches: status and the milestones that are set
  reqs,         \* what each request is doing
  readyTold,    \* messages put into the outbox that say the batch is ready
  stale,        \* history: an order changed and no request has come to save the batch since
  interleaved,      \* history: an order was saved or inserted while another request synced the batch
  raced,        \* history: an order was saved over a later status, or came to a batch under way
  mute,         \* history: an order was made ready through the core, which tells nobody
  untold,       \* history: a request failed that had made the last order ready
  ops

histories == <<stale, interleaved, raced, mute, untold>>

kitchenVars == <<batchOrders, batch, reqs, readyTold, histories, ops>>

Final == {"DELIVERED", "CANCELED"}
Statuses == {"PENDING", "ACCEPTED", "READY"} \cup Final

ValidTransitions == [PENDING |-> {"ACCEPTED", "CANCELED"}, ACCEPTED |-> {"READY", "CANCELED"},
                     READY |-> {"DELIVERED"}, DELIVERED |-> {}, CANCELED |-> {}, NONE |-> {}]

Milestones == {"accepted", "ready", "delivered", "canceled"}

BatchRows == [status: Statuses \cup {"NONE", "READY_PARTIAL"}, reached: SUBSET Milestones]

NoBatchRow == [status |-> "NONE", reached |-> {}]

AtRest == [pc |-> "idle", by |-> "none", order |-> NoOrder, from |-> "NONE", to |-> "NONE",
         read |-> NoBatchRow, row |-> NoBatchRow, todo |-> {}]

KitchenTypeOK ==
  /\ batchOrders \in [BatchOrders -> Statuses \cup {"NONE"}]
  /\ batch \in BatchRows
  /\ reqs \in [Reqs -> [pc: {"idle", "save", "batch", "orders", "sync", "tell", "insert"},
                        by: {"none", "notes", "admin", "core", "worker"},
                        order: BatchOrders \cup {NoOrder},
                        from: Statuses \cup {"NONE"}, to: Statuses \cup {"NONE"},
                        read: BatchRows, row: BatchRows, todo: SUBSET BatchOrders]]
  /\ readyTold \in Nat
  /\ {stale, interleaved, raced, mute, untold} \subseteq BOOLEAN
  /\ ops \in Nat

KitchenInit ==
  /\ \E s \in {"NONE", "PENDING", "ACCEPTED"} :
       /\ batchOrders = [o \in BatchOrders |-> s]
       /\ batch = [status |-> s, reached |-> IF s = "ACCEPTED" THEN {"accepted"} ELSE {}]
  /\ reqs = [r \in Reqs |-> AtRest]
  /\ readyTold = 0
  /\ stale = FALSE /\ interleaved = FALSE /\ raced = FALSE /\ mute = FALSE /\ untold = FALSE
  /\ ops = 0

--------------------------------------------------------------------------------
\* The batch as its orders make it.
With(os, statuses) == {o \in BatchOrders : os[o] \in statuses}

ActiveOrders(os) == With(os, Statuses \ {"CANCELED"})

AllActive(os, statuses) == ActiveOrders(os) # {} /\ ActiveOrders(os) \subseteq With(os, statuses)

\* Nothing is left to prepare in these.
DoneReady(os) == With(os, {"READY"})

DoneOrders(os) == With(os, {"READY", "DELIVERED"})

\* deriveBatchStatus and aggregateOrderBatchStatus.
DerivedStatus(os) ==
  LET live == ActiveOrders(os)
  IN CASE With(os, Statuses) # {} /\ live = {}                                   -> "CANCELED"
       [] AllActive(os, {"DELIVERED"})                                           -> "DELIVERED"
       [] ~AllActive(os, {"DELIVERED"}) /\ live # {} /\ DoneOrders(os) = live    -> "READY"
       [] DoneOrders(os) \notin {{}, live}                                       -> "READY_PARTIAL"
       [] live # {} /\ DoneOrders(os) = {} /\ With(os, {"PENDING"}) = {}         -> "ACCEPTED"
       [] OTHER                                                                  -> "PENDING"

ReachedNow(os) ==
  {m \in Milestones : CASE m = "accepted"  -> ActiveOrders(os) # {} /\ With(os, {"PENDING"}) = {}
                        [] m = "ready"     -> ActiveOrders(os) # {} /\ DoneOrders(os) = ActiveOrders(os)
                        [] m = "delivered" -> AllActive(os, {"DELIVERED"})
                        [] m = "canceled"  -> With(os, Statuses) # {} /\ ActiveOrders(os) = {}}

\* applyAggregatedOrderBatchState: milestones are set once and stay.
Reached(b, os) == b.reached \cup ReachedNow(os)

Synced(b, os) == [status |-> DerivedStatus(os), reached |-> Reached(b, os)]

--------------------------------------------------------------------------------
Becomes(r, what) == reqs' = [reqs EXCEPT ![r] = what]

Begins(r) ==
  /\ reqs[r] = AtRest /\ ops < MaxOps
  /\ ops' = ops + 1

\* updateStatus of the admin API and Execute of the core: the order is read and
\* the transition checked.
StatusRead(r, by, o, to) ==
  /\ Begins(r)
  /\ to \in ValidTransitions[batchOrders[o]]
  /\ Becomes(r, [AtRest EXCEPT !.pc = "save", !.by = by, !.order = o, !.from = batchOrders[o], !.to = to])
  /\ UNCHANGED <<batchOrders, batch, readyTold, histories>>

\* updateManualOrder reads an order that is still pending, to save its notes.
NotesRead(r, o) ==
  /\ Begins(r)
  /\ batchOrders[o] = "PENDING"
  /\ Becomes(r, [AtRest EXCEPT !.pc = "save", !.by = "notes", !.order = o, !.from = "PENDING", !.to = "PENDING"])
  /\ UNCHANGED <<batchOrders, batch, readyTold, histories>>

\* Between the saved order and the saved batch.
Syncing(r) == reqs[r].pc \in {"batch", "orders", "sync"}

Crosses(r) == \E q \in Reqs \ {r} : Syncing(q)

\* The whole row is saved, whatever it became in the meantime.
SaveOrder(r) ==
  /\ reqs[r].pc = "save"
  /\ batchOrders' = [batchOrders EXCEPT ![reqs[r].order] = reqs[r].to]
  /\ stale' = (stale \/ batchOrders[reqs[r].order] # reqs[r].to)
  /\ interleaved' = (interleaved \/ Crosses(r))
  /\ raced' = (raced \/ batchOrders[reqs[r].order] # reqs[r].from)
  /\ mute' = (mute \/ (reqs[r].by = "core" /\ reqs[r].to = "READY"))
  /\ Becomes(r, IF reqs[r].by = "notes" THEN AtRest ELSE [reqs[r] EXCEPT !.pc = "batch"])
  /\ UNCHANGED <<batch, readyTold, untold, ops>>

ReadBatch(r) ==
  /\ reqs[r].pc = "batch"
  /\ Becomes(r, [reqs[r] EXCEPT !.pc = "orders", !.read = batch])
  /\ UNCHANGED <<batchOrders, batch, readyTold, histories, ops>>

ReadOrders(r) ==
  /\ reqs[r].pc = "orders"
  /\ Becomes(r, [reqs[r] EXCEPT !.pc = "sync", !.row = Synced(reqs[r].read, batchOrders)])
  /\ UNCHANGED <<batchOrders, batch, readyTold, histories, ops>>

\* Told by the new status, as of a batch that is partly ready.
ReachesPart(r) == reqs[r].row.status \in {"READY_PARTIAL", "READY"}

\* The milestone is reached with this request, as far as it can see.
Reaches(r) == "ready" \in reqs[r].row.reached \ reqs[r].read.reached

Tells(r) == reqs[r].by = "admin" /\ reqs[r].to = "READY"

\* The batch is saved when it differs from what was read; the admin API then
\* goes on to tell the customer of a batch that has just become ready.
SaveBatch(r) ==
  /\ reqs[r].pc = "sync"
  /\ batch' = IF reqs[r].row # reqs[r].read THEN reqs[r].row ELSE batch
  /\ stale' = FALSE
  /\ Becomes(r, IF Tells(r) /\ Reaches(r) THEN [reqs[r] EXCEPT !.pc = "tell"] ELSE AtRest)
  /\ UNCHANGED <<batchOrders, readyTold, interleaved, raced, mute, untold, ops>>

\* enqueueReadyMessage: a statement of its own, after the saved batch.
Tell(r) ==
  /\ reqs[r].pc = "tell"
  /\ readyTold' = readyTold + 1
  /\ Becomes(r, AtRest)
  /\ UNCHANGED <<batchOrders, batch, histories, ops>>

\* A statement fails, the server dies, or the message finds no recipient: what
\* was saved stays, and as an order that is ready is not made ready again
\* nothing does the rest.
Fails(r) ==
  /\ reqs[r].pc \in {"save", "batch", "orders", "sync", "tell"}
  /\ untold' = (untold \/ (Tells(r) /\ reqs[r].pc # "save" /\ With(batchOrders, {"PENDING", "ACCEPTED"}) = {}))
  /\ Becomes(r, AtRest)
  /\ UNCHANGED <<batchOrders, batch, readyTold, stale, interleaved, raced, mute, ops>>

\* createManualOrder: one transaction for the batch and all its orders.
CreateManual(r) ==
  /\ Begins(r)
  /\ batch = NoBatchRow
  /\ batch' = [NoBatchRow EXCEPT !.status = "PENDING"]
  /\ batchOrders' = [o \in BatchOrders |-> "PENDING"]
  /\ UNCHANGED <<reqs, readyTold, histories>>

\* CreateOrderUseCase: the batch first, then order by order, no transaction.
CreateBatch(r) ==
  /\ Begins(r)
  /\ batch = NoBatchRow
  /\ batch' = [NoBatchRow EXCEPT !.status = "PENDING"]
  /\ Becomes(r, [AtRest EXCEPT !.pc = "insert", !.by = "worker", !.todo = BatchOrders])
  /\ UNCHANGED <<batchOrders, readyTold, histories>>

InsertOrder(r, o) ==
  /\ reqs[r].pc = "insert" /\ o \in reqs[r].todo
  /\ batchOrders' = [batchOrders EXCEPT ![o] = "PENDING"]
  /\ stale' = (stale \/ With(batchOrders, Statuses \ {"PENDING"}) # {})
  /\ interleaved' = (interleaved \/ Crosses(r))
  /\ raced' = (raced \/ With(batchOrders, Statuses \ {"PENDING"}) # {} \/ \E q \in Reqs \ {r} : reqs[q] # AtRest)
  /\ Becomes(r, IF reqs[r].todo = {o} THEN AtRest ELSE [reqs[r] EXCEPT !.todo = @ \ {o}])
  /\ UNCHANGED <<batch, readyTold, mute, untold, ops>>

\* An order that cannot be inserted ends the creation; what is there stays.
InsertFails(r) ==
  /\ reqs[r].pc = "insert"
  /\ Becomes(r, AtRest)
  /\ UNCHANGED <<batchOrders, batch, readyTold, histories, ops>>

KitchenNext ==
  \E r \in Reqs :
    \/ \E by \in {"admin", "core"}, o \in BatchOrders, to \in Statuses : StatusRead(r, by, o, to)
    \/ \E o \in BatchOrders : NotesRead(r, o) \/ InsertOrder(r, o)
    \/ SaveOrder(r) \/ ReadBatch(r) \/ ReadOrders(r) \/ SaveBatch(r) \/ Tell(r) \/ Fails(r)
    \/ CreateManual(r) \/ CreateBatch(r) \/ InsertFails(r)

KitchenSpec == KitchenInit /\ [][KitchenNext]_kitchenVars

--------------------------------------------------------------------------------
Quiet == \A r \in Reqs : reqs[r] = AtRest

(* The row of a batch says of its orders what they are: delivered when all *)
(* that were not canceled are, ready when nothing is left to prepare,      *)
(* partly ready when something is and something is not, canceled when      *)
(* nothing else is left (syncBatchStatus, syncOrderBatch).  It does        *)
(* although requests check transitions at the same time and fail at any    *)
(* statement, because each request that comes to the end derives the       *)
(* batch from all of its orders and repairs what failed ones left; it does *)
(* not while the last request failed half-way, nor after an order was      *)
(* written while another request was syncing.  The customer is told at     *)
(* most once that everything is ready, whatever was canceled or delivered  *)
(* first, and is told unless the request that made the last order ready    *)
(* failed, the core made one ready, or a status was written over a later   *)
(* one (updateStatus, readyMilestoneReached).                              *)
SyncedBatchTrue ==
  Quiet /\ ~interleaved /\ With(batchOrders, Statuses) # {} =>
    LET live == ActiveOrders(batchOrders)
        done == With(batchOrders, {"READY", "DELIVERED"})
    IN /\ ~stale =>
            /\ (batch.status = "CANCELED") <=> (live = {})
            /\ (batch.status = "DELIVERED") <=> (live # {} /\ \A o \in live : batchOrders[o] = "DELIVERED")
            /\ (batch.status = "READY_PARTIAL") <=> (done # {} /\ done # live)
            /\ (batch.status = "READY") <=> (live # {} /\ done = live /\ \E o \in live : batchOrders[o] = "READY")
       /\ "delivered" \in batch.reached => "ready" \in batch.reached
       /\ readyTold <= 1
       /\ (done = BatchOrders /\ ~mute /\ ~raced /\ ~untold => readyTold = 1)

(* However requests overlap, the customer is told that the batch is ready  *)
(* only when nothing of it is still to be prepared; only an order saved    *)
(* over a later status, or added to a batch under way, can make it wrong   *)
(* (allActiveOrdersReady).                                                 *)
ToldWhenReady ==
  [][readyTold' > readyTold /\ ~raced => With(batchOrders, {"PENDING", "ACCEPTED"}) = {}]_kitchenVars
====
