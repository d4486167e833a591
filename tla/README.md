# Formal models of ClickGarçom

ClickGarçom lets the guests of a restaurant order over WhatsApp. A Go backend
(`platform/core-backend`) holds the conversation, orders, tabs, payments and the
kitchen display (KDS); a NestJS API (`apps/tenant-admin/api`) is the restaurant's
panel and owns the Delivery domain: courier capacity, checkout, fulfillment by the
restaurant's own couriers or by an external operator, and the life of a delivery.
The two share one PostgreSQL database and talk over HTTP and RabbitMQ.

This directory models in TLA+ the parts of both that are hardest to test: the
Delivery domain and what its customer sees, tables and tabs and who gets into them, the
money of a tab, kitchen orders and the page that shows them, the conversation that leads to
an order or to a delivery, the wallets of restaurants and the accounts of their staff. There
requests, payments, webhooks, several processes' jobs, guests and staff act on the same rows or
keys, each in a sequence of separate statements or transactions, and any of them may
die in between.

In what follows `delivery/` is `apps/tenant-admin/api/src/modules/delivery/`, `core/` is
`platform/core-backend/internal/`, and `tables.service.ts`, `orders.service.ts` are those
of the modules `tables` and `orders` of `apps/tenant-admin/api`.

## 1. Inventory

### Delivery domain (NestJS)

| Component | State | Operations | Hard behaviour | What makes it correct |
|---|---|---|---|---|
| Own capacity, `delivery-capacity.service.ts` | `delivery_own_capacity_reservations`, the capacity declared on the tenant's row | hold, confirm, release, releaseForDelivery, expire | a hold is five statements under the tenant's row lock; the other operations lock reservation rows only and commit in between | no slot taken twice; a paid slot stays; an abandoned hold lapses |
| Checkout, `delivery-checkout.service.ts` | `delivery_checkouts` | create, confirm, confirmPaidInternally, expire | slot and checkout are written in different transactions; creators of one key, payers and the expiry race | PAID only over a reservation; every checkout settles and returns what it does not use; an accepted payment stays accepted |
| Quotes, `delivery-quote.service.ts` | `delivery_quotes` | createExternalQuote, useQuote, expire | a quote expires while it is being paid | one quote pays one checkout |
| External fulfillment, `delivery-fulfillment.service.ts` | `delivery_fulfillments`, `delivery_provider_attempts` | createExternal, startExternalCycle, runScheduledAttempts, restartExternalCycle, convertToOwn | overlapping maintenance runs; a call outside any transaction between two transactions; lost answers; crashes | one call per attempt; one current fulfillment; a success ends the cycle; a cycle concludes |
| Operator webhooks, `delivery-webhook.service.ts` | `delivery_provider_webhook_inbox` | receive, processPending, reconcileStale, applyPayload | late, repeated, reordered reports | a final state never goes back |
| Lifecycle, `delivery.service.ts` | `deliveries` (status, version, driver), stored answers | accept, reject, cancel, own-start, own-complete, assign, pickup, arrive, confirm-pin, exception, override, return, reconcileOrderBatch | unlocked reads before writes; status and slot in two transactions; the core's calls to reconcile may be lost, and nobody repeats them | the status table; a driver has one delivery; the slot outlives the delivery's work and not more |
| Maintenance, `delivery-maintenance.service.ts` | none | runOnce: a sweep over batches, expire, attempts, webhooks, purges | several servers' runs overlap; one run does everything in sequence | what others left half-done is finished (not by the sweep: section 3) |
| Tracking page, positions, estimates: `delivery-tracking.service.ts`, `delivery-location.service.ts`, `delivery-eta.service.ts`, `deliveryrealtime` in `core/`, `tracking.js` | samples, the estimate of the row, the room of the hub, the page | publish, relay, broadcast, poll, reconnect, recalculate | full channels, restarts, snapshots overtaken by events, calculations that overlap | the page shows the end in the end; the estimate is the newest position's |
| Customers' addresses and the delivery dialogue: `delivery-customer.service.ts`, `handle_whatsapp_delivery.go`, `delivery_checkout_coordinator.go`, `delivery_payment_coordinator.go` | address book, session, batches, checkouts, payments | choose, enter, confirm, save, remove an address; check out; pay; the restaurant's edits | the session is saved after the calls; answers get lost; the address book changes beside the dialogue | what is charged and paid goes where the customer said |
| Outbox relay, notifications, PIN, settings, policy, fee, provider configuration, reports | their tables | see `PROJECT.json` | publish inside a transaction; lock-out; others are single reads or writes | at-least-once, no duplicates for the guest, lock-out after wrong PINs |

Interactions: checkout calls capacity and quotes *inside* its own open transaction, but on a
second connection, so they commit first. The Go payment coordinator
(`delivery_payment_coordinator.go`) confirms a checkout and may repeat the call. Lifecycle
commands call capacity *after* their own commit. `reconcileOrderBatch` is called by the core
over HTTP, up to three times: when a batch becomes ACCEPTED (`update_order_status.go:158`), and
for every notice of a confirmed payment (`delivery_payment_coordinator.go:46`,
`reconcile_payment_webhook.go:151`). The panel changes orders without calling it. It starts the
external cycle. Conversion to own couriers takes a slot under the key `fallback:<delivery>`.
Webhooks and polls write fulfillment and delivery together.

### Restaurant service (NestJS and Go)

| Component | State | Operations | Hard behaviour | What makes it correct |
|---|---|---|---|---|
| Tables, tabs, requests, portal links: `tables.service.ts`, `core/application/process_table_event.go` | `tables`, `tabs`, `table_requests`, portal credentials | open, move, close, reopen, delete, renew a link; approve, reject; the worker that carries the answer out | some statements run in a transaction under row locks and others in none; answers are published, delivered twice, lost with a worker | a request leads to one tab; one live link; nobody waits for ever; an answer is applied |
| The money of a tab: `tables.service.ts`, `payment_handler.go`, `create_order.go`, `reconcile_payment_webhook.go` | `orders`, `payments`, totals and status of the tab, closing messages | orders of portal, panel and conversation; card payments, polls, webhooks; closing by panel, page, worker, exit validation | calls of the provider between statements; answers overtake one another; the same result comes in three ways | a closed tab is billed; a confirmed payment was approved; the page hears of it; the guest is told once |
| Kitchen orders and batches: `orders.service.ts`, `update_order_status.go`, `order_batch_status.go`, `create_order.go` | `orders`, `order_batches` | creation, changes of status in API and core, edits | read, check, save and aggregation with no lock | the batch says what its orders are; "ready" is told once, and only when it is |
| KDS page: `orders.service.ts`, `core/infrastructure/websocket`, `kds.js`, queue `kds.events` | the page's cards, its filter of duplicates, channels of the hub | broadcast, relay, hub, reconnection, polling | every event comes on two ways; slow clients are dropped; poll answers race with events | a page that hears everything shows what is; a page that polls does in the end |
| Conversation: `whatsapp_webhook.go`, `process_whatsapp_message.go`, `handle_whatsapp_message.go`, `handle_whatsapp_ordering.go`, `handle_portal_conversation.go` | `inbox_events`, two queues, the session in Redis | webhook, queue, dialogue, order; answers of the staff; release of the session | three consumers share a session that nobody locks; copies, redeliveries, retries of the support | a message orders once; a cart is ordered once and as shown |
| Ordering dialogue, menu and cart: `handle_whatsapp_ordering.go`, `handle_whatsapp_message.go`, `create_order.go`, `core/domain/menu`, `menu.service.ts` | the session's lists, selection and cart; menu tables | categories, items, quantities, options, lines of the cart, order, last round again; edits of the menu | an answer is a number of a list shown earlier, the menu is read anew for each message, rows and buttons of old messages stay touchable | an answer means what was asked; what was put together is accepted; the guest pays what was shown |
| Guests, codes, joins and links: `handle_whatsapp_message.go`, `handle_whatsapp_ordering.go`, `handle_portal_conversation.go`, `tables.service.ts` | tabs' owners, join requests, calls for the bill, sessions | code, scan, request to the staff, request to the opener, link, closing in the dialogue | each message searches its tab anew and may claim one; sessions expire and are written whole | a guest reaches only tabs they were let into; an answered request leaves nobody waiting; one call for the bill |
| Wallet: `wallet.service.ts`, `payment_handler.go`, `outbox_processor.go`, `super-admin.service.ts` | balance on the tenant's row, message log, recharges, monthly rows | toll before a message, debit and log after it, PIX recharges, polls and webhooks, the support's adjustments, the page that derives the months | debits are atomic, whole-row saves beside them are not; the provider's answers repeat | the balance is what log, recharges and adjustments add up to; closed months stand |
| Accounts: `auth.service.ts`, `super-admin.service.ts` | users, restaurants, the support's session | login, create, edit, deactivate, change role and password, create and edit a restaurant | read, check, count and save with no lock | a restaurant keeps an administrator; what was revoked stays revoked |
| WhatsApp outbox: `sender.go`, `outbox_processor.go`, `super-admin.service.ts` | `outbox_messages` | SendText, the worker's batches, the support's retries | send before save; whole rows written back | a text is sent once, and sent or given up |

Interactions: the panel publishes answers to requests and table events to the core's
worker (RabbitMQ, acknowledged also when the handler fails: `consumer.go:84`). Order
changes reach the KDS through an HTTP relay to the core's hub and through a queue the
core forwards to the same hub. The worker that hears of a payment asks the provider,
writes the payment and closes the tab; page and panel do the same on their own. The
conversation creates orders with the core's `CreateOrder`, which saves the tab's row.
Closing a tab deletes the guest's session with a call to the core.

Domain outbox relay, notifications, PIN, settings, the forms and reports of the two
administrations, the KDS mobile application, static pages, load tests and deployment files
are not modelled; section 5 says why.

## 2. The modules

    CapacityPool          the pool of courier slots, abstractly
      ^ implemented by
    OwnCapacity           reservations, holds statement by statement
      ^ INSTANCE
    DeliveryCheckout      checkout, payment, quotes, expiry over OwnCapacity
    ExternalFulfillment   cycles, attempts, webhooks, conversion
    DeliveryLifecycle     status machine, commands, kitchen, drivers
    DeliveryTracking      positions, estimates, hub, the customer's page
    DeliveryDialogue      addresses, checkout and payment in the conversation
    TableService          tables, tabs, requests, links
    TabBilling            orders, payments and closing of one tab
    GuestAccess           codes, scans, joins, links: who reaches which tab
    KitchenOrders         orders of a batch, statement by statement
    KitchenBoard          events, hub, queue and polls of the KDS page
    Outbox                texts that leave through the outbox
      ^ EXTENDS
    Conversation          inbox, session, dialogue; it leaves texts in the Outbox
    Ordering              the part of the dialogue that leads to an order, in full
    Wallet                credits, recharges, months
    StaffAccounts         users, roles, passwords, the support's session

    <module>_proofs       theorems about the module, with their proofs
    CapacityAndBoard_proofs
                          those about OwnCapacity and KitchenBoard
    Lifecycles_proofs     those about DeliveryLifecycle, DeliveryTracking, KitchenOrders
                          and StaffAccounts
    OrderingAndWallet_proofs
                          those about Ordering, Wallet and DeliveryCheckout
    Deliveries_proofs     those about DeliveryDialogue and ExternalFulfillment

A module `MC...` extends what its run checks with the symmetry TLC may use, the menus of
`Ordering`, or a choice. `MCDeliveryCheckout` and `MCExternalFulfillment` hold two
instances of their module with other constants and faults, `MCOrders` three of the dialogue
and the kitchen, `MCRealtime` the board and two instances of the tracking, `MCAdministration`
wallets and accounts: a variable (`instance` or `focus`), chosen at the start and never
changed, says which one a behaviour follows, and the others stay as they begin. They share
no state, so nothing is lost by looking at them one at a time. The other modules are checked
as they are (liveness is not sound with symmetry). Each `.cfg` is one run. A mutated
definition, named after the one it changes and kept just before it, shows for each property
a plausible bug that the property catches.

**OwnCapacity.** `rows` is the committed reservation of each checkout key, `capacity`
the number on the tenant's row, `hold` the one hold transaction that has the tenant's
lock. `HoldBegin` is the first three statements, `HoldReuse`, `HoldCount`,
`HoldRefuse`, `HoldGrant` the rest; between them `Confirm`, `Release`,
`ReleaseForDelivery` and `Expire` commit whenever the rows they need are not locked
(`Locked`: rows the hold has expired, and its key). A refusal rolls the hold's own
expiry back, as the exception does in the code. The unique index of one active row per
delivery is `FreeDelivery`.

**CapacityPool** is the promise: sets `held` and `confirmed` and a capacity; a slot is
granted only when there is room, confirmed only from a hold, lost only by release,
lapse or renewal. `OwnCapacity!Pool` maps rows to it by their status.

**DeliveryCheckout** uses OwnCapacity's own actions through `Cap == INSTANCE
OwnCapacity`, so a checkout's hold interleaves as finely as there. A creator's steps
are hold, insert and, after a failed insert, release; a payer's are lock, reserve
(slot or quote, committed on its own) and commit; the job's are read the due list,
write EXPIRED by id, release. `confirm` and `confirmPaidInternally` differ in what they
check of token, batch and amount, and are one here.

**ExternalFulfillment** is one delivery with an external fulfillment. A worker is one
maintenance run: read the due attempts, then per attempt claim (read, write), call,
record. `seen` is the fulfillment row it read; `ClaimWrite` writes it back because
TypeORM's `save` writes every column that differs from the table. `courier` is what the
operator reported for the delivery of each attempt: `ApplyPayload` may apply any of it
at any time. An administrator's conversion is hold, transaction, confirm, or release
after a failure. The slot is one value because OwnCapacity's pool says how it moves.

**DeliveryLifecycle** has the status, version and driver of deliveries, their current
fulfillment (`trips`), slot and orders. A command that is one locked transaction is
one action. `handlers` are the others: assignments (check, read, write), reconciliations
(read, up to two transitions), and cancel, reject and complete (status, then slot).
`requested` has the deliveries whose reconciliation the core has asked for (`OrderMoves`
when the batch becomes ACCEPTED, `PaymentNotice`); such a request is taken by
`ReconcileRead` or lost (`RequestLost`), and `missed` marks a delivery whose last request
was lost, died with its server or was refused. The maintenance's sweep is no action,
because it changes nothing (section 3).

**TableService.** A member of staff or a worker is a program counter with what it has
read. An operation inside a transaction takes the rows of its tab and of the tables it
changes one by one, in the order of the code's `SELECT ... FOR UPDATE`; statements
outside one are steps of their own, so openings, moves, closings and renewals cross.
`queue` has what was published for the worker; a worker that dies gives its message
back, a handler that fails loses it.

**TabBilling** has one tab, orders of one unit each, and payments at a provider whose state
(`provider`) moves by itself. A poll, a webhook or a closing is a sequence: read, ask, get the
answer of that moment, write. `manual` is what was booked as received by hand,
`ConfirmedOnline` what the confirmed payments come to. Guests' pages, staff, conversation and
the payment worker are actors with one operation at a time.

**KitchenOrders** has the orders of one batch and requests of six statements: read and
check, save, read the batch, read its orders, save the batch, tell the customer. At each of
them a request may fail or die (`Fails`); what it saved stays. `readyTold` counts the messages
that the batch is ready. Of the history, `stale` marks an order that was changed and whose
batch no request has saved since, `interleaved` that an order was written while another
request was between its saved order and its saved batch, `raced` that an order was saved over a
later status or came to a batch under way, `mute` that the core made an order ready, which
tells nobody, `untold` that a request failed after it had made the last order ready.

**KitchenBoard** has the rows, the two channels to the page, its socket, its cards and
the filter of duplicates (`seen`, whose window of ten seconds may pass at any time). A
page hears, polls, loses its connection and comes back.

**Conversation** has the guest's session as the value under its key in Redis and, in `doing`,
the copy each of the three consumers works on. A consumer reads the session, does what the text
leads to, answers, and writes the session; a WhatsApp message is then marked. `mixed` marks
that two copies existed at once or that one was lost. `again` has the messages that may be
handled twice (the worker died, the support asked). An event whose row cannot be read
(`TakeFails`) or marked (`MarkFails`) is acknowledged and in `dropped`. The connection to
RabbitMQ may be lost (`ConnectionLost`): what was not acknowledged is back in the queue, and
nothing is taken (`listening`) until the worker is restarted (`WorkerRestarts`). Texts are
numbers of the menus and the code of the tab; the menu has one item (Ordering has the rest).

**Ordering** is one guest whose messages are handled one by one, over a menu that changes
between them. `sess` has what the session keeps: lists of ids, the selection, the cart.
`prompt` is what the last message that asked something showed. Each handler reads the
menu as it is now, resolves the answer by the session's ids, and asks again or goes on. An
answer is a number of the list, or a row or button of any message. `CreateOrder` validates
and prices by rules of its own, per destination, and may fail in between.

**GuestAccess** is one table and its guests. A message of WhatsApp or of the portal is handled
in steps (load the session, search the tab, claim it, handle, look for a call, insert it, save)
on a copy of the session; `grants` remembers how each guest was let into which tab, `crossed`
and `overwritten` where two hands met. A statement may fail and end the handler, a worker may
die (`Stops`), and errors the code ignores let a handler go on: `undelivered` has the answered
requests to join whose answer did not reach the guest's session. The staff approve, reject,
open, close, reopen and rename beside them, and sessions expire.

**DeliveryTracking** has the row with what the operator has reported, the samples by device
time, what is committed and still to be published (`unsaid`), the queue, the hub's room with
its channel and its memory of ids, and the page with its polls. A calculation of the estimate
reads, computes and saves.

**DeliveryDialogue** is one customer: address book, session, batches, checkouts and payments.
A message's calls are steps whose effects stay when the worker dies or the answer is lost,
and the session is saved last. `DeliveryCheckout` has the transactions inside a checkout.

**Wallet** has the tenant's row, log, recharges, what the provider knows and the monthly
rows. Everything that takes several statements is an entry of `doing`. A statement may fail and
end the operation (`Fails`), or fail without anybody looking at the error (`Overlooks`), as that
of a debit, of a recharge's confirmation or of its credit; `unbooked` adds up what such
failures left on one side only, with the support's adjustments. `disturbed` marks the whole-row
saves and crossing requests after which the ledger need not hold (section 3 lists them),
`faithful` the closed months whose stored row says what the tables said.

**StaffAccounts** has the users and, at each desk, a request with the rows it read, whose
whole-row save comes later. `crossed` marks two requests at once that each take an
administrator away, or the save of an old row.

**Outbox** has the rows and, of each processor, the batch with the rows as it read them:
`Save` writes the whole row back. Faults (`Fault`, shared with Conversation) are unclear
answers, deaths, and interventions of the support.

## 3. Runs

All runs have `CHECK_DEADLOCK FALSE`: clocks and versions are bounded, and a system
with nothing left to do may stop. The runs that pass:

| Run | Shows |
|---|---|
| OwnCapacity | `NoOvercommit`: when a row becomes active, the active rows fit the capacity. `ConfirmedHeldWithinWindow`: only a release ends a confirmed reservation before its window does. `ImplementsPool`: refinement. `HoldsLapse`: abandoned holds lapse |
| CheckoutRun | `PaidOverReservation`: a checkout becomes PAID over a slot confirmed at that moment, or a used quote, when no insert fails. `EveryCheckoutSettles`: every checkout is paid, or expires and its slot is returned, when maintenance does not die |
| ExternalRun | `AttemptCalledOnce`: each attempt calls the operator once, and a worker does not undo a conversion, with overlapping runs, crashes and lost answers. `SuccessStopsCycle`, `EveryCycleConcludes` with one run at a time and no fault |
| LifecycleSettles | `SlotUntilTheEnd`, `TerminalKept`: slots and final states stay. `DeliverySettles`: a reconciliation that is asked for and comes through brings the delivery to where its kitchen is, and a completed one frees its slot although servers die |
| OrdersRun | `GoesWhereConfirmed`: a paid delivery goes where the customer said, for the cart that was charged. `SyncedBatchTrue`: the batch says what its orders are, although requests check transitions at the same time and fail at any statement, unless the last one failed half-way or orders were written during another's sync; "ready" is told at most once, and told unless the request that brought it failed. `ToldWhenReady` however they overlap |
| RealtimeRun | `BoardTrueWhileHeard`: a board that heard every event shows the rows; `PollingBoardTrue`: one without a socket does in the end. `PageSettles`: the customer's page shows the end; `EstimateOfNewest`: the estimate left behind is the newest position's |
| TableServiceRun | `OneTabPerRequest`, `OneLiveLink`. `TableWorkEnds`: transactions end (no deadlock, no endless wait) and an answer is applied although a worker dies |
| TabBillingRun | `ConfirmedWasApproved`: what counts as paid online was approved at the provider, and one closing message is sent. `ClosesBilled`: a tab closes over what its orders cost. `PageHears`: a page that asks learns the result |
| GuestAccessRun | `TabsKeptApart`: a guest reaches only tabs they were let into and closes only their own. `AnsweredNotWaiting`: an answered request to join leaves nobody waiting, unless a session was overwritten or a failure kept the answer from it. `AloneCalledOnce`: one call for the bill |
| ConversationRun | `OneOrderPerMessage`; `AloneOrderedOnce`: a cart is ordered once, and as it was shown, while one hand at a time is on the session; `SentOnce`: a text leaves once. `ConversationSettles`: what was published is processed or marked while the consumers keep their connection, but for events that could not be read or marked; texts are sent or given up |
| OrderingRun | `AnswerMeansWhatWasAsked`: the ids an answer is resolved by are those of the last question; `FreshLineOrderable`: what the dialogue accepted the order accepts; `PricedAsShown`: the guest pays what the cart showed |
| AdministrationRun | `BalanceIsTheLedger`, `ClosedMonthsStand` of the wallet; `AdminRemains`, `RevocationsHold` of the accounts |

`TypeOK` is a property of OwnCapacity's run, and proved; in the other modules it says what
their states look like and is no property of a run.

### What the code does that its specifications do not say

The restrictions of the properties are borders, found in the models and read in the code.

Delivery:

* `PaidOverReservation` holds as long as no insert fails: the creator whose insert failed
  releases the hold another creator of the key reused (`delivery-checkout.service.ts:129`).
  It excepts a payment whose slot's window ended between its two transactions: `confirm` of
  the slot commits first, and until the checkout is saved a second creator of the key may
  find the row past its window and make a new hold of it (`delivery-capacity.service.ts:86`).
  The expiry writes EXPIRED by id from a list it read before, over a payment that came in
  between (211), although a repeated payment is to return the same delivery.
* `TerminalKept` excepts two writes: an assignment reads without a lock and may save
  ASSIGNED over CANCELED (`delivery.service.ts:997`), and an operator's report sets the
  status by its own rank. `SlotUntilTheEnd` and `DeliverySettles` end where such a write
  undoes a final state.
* The maintenance's sweep over ACCEPTED and PREPARING deliveries, which is to repair lost calls
  (`docs/delivery-maintenance-runbook.md:46`), repairs nothing: it selects tenant and batch by
  the names of their columns (`delivery-maintenance.service.ts:147`), TypeORM leaves both
  properties undefined, and `reconcileOrderBatch` with undefined ids reads whatever batch comes
  first and changes the status of no delivery (its transitions find no row). So a delivery
  whose call was lost stays behind its kitchen. Nothing takes it from PREPARING to READY when
  the kitchen is done, because the core calls when the batch becomes ACCEPTED only; the next
  notice of its payment does, if one comes. Of two reconciliations at once the second is
  refused (422) and not repeated, also when it alone had seen that the orders are ready.
  `DeliverySettles` is about calls that come through (`missed`).
* A batch whose orders are all ready when it is first looked at never starts the external
  cycle (`delivery.service.ts:501`). Of two administrators who convert at once the loser
  releases the winner's slot (`delivery-fulfillment.service.ts:486`).
* `EveryCheckoutSettles` needs that the job does not die between EXPIRED and the release
  (`delivery-checkout.service.ts:213`): the next run no longer finds the checkout.
* `EveryCycleConcludes` needs runs that do not overlap (a late failure, written by id,
  overwrites CYCLE_EXHAUSTED: `delivery-fulfillment.service.ts:359`) and no crash during
  a call (REQUESTING attempts are not looked for: 163).
* `SuccessStopsCycle` speaks of the running cycle: a restart makes the attempts an
  earlier success left over due again (387).
* `AttemptCalledOnce` is per attempt: each has its own idempotency key, so after a lost
  answer the next one creates a second delivery at the operator (276).
* A hold repeated after its window turns a confirmed row back into a hold
  (`delivery-capacity.service.ts:86`); a hold ends a moment before its checkout
  (`delivery-checkout.service.ts:81` and 110); a used quote pays a second checkout
  (`delivery-quote.service.ts:82`); an operator's report moves a cancelled delivery to
  IN_TRANSIT (`delivery-webhook.service.ts:175`), and one without an event id is stored
  each time it comes (40); conversion is possible after pickup
  (`delivery-fulfillment.service.ts:436`); two assignments give one driver two deliveries
  (`delivery.service.ts:992`); a driver may be assigned on the own path (986); a crash
  after CANCELED keeps the slot (570); the override neither frees the slot nor follows
  the table (891).

The delivery dialogue:

* "novo" after an address was chosen keeps the chosen id: a new address that is not saved
  goes on and is charged under the old id, against "V2 does not allow an unsaved temporary
  address to proceed to checkout." (`handle_whatsapp_delivery.go:420`); with "editar" before,
  it overwrites the old address.
* The draft of an edited address keeps the old text beside the new coordinates, and the
  restaurant's change of a text without coordinates keeps the old coordinates:
  `GoesWhereConfirmed` excepts addresses that were renewed or edited.
* The key of a checkout is made of address, coordinates and cart: after an expiry ("Vamos
  recalcular o frete", 578) or a lost answer the same cart and address cannot be checked out
  again, and each try creates another order. A cancelled or expired review leaves its order.
* An ambiguous geocoding is accepted by the dialogue and refused by `createFromBatch`: the
  approved payment is never confirmed. A creation repeated after a lost answer doubles the
  address, a repeated removal answers 404, and the list is not read anew in spite of
  "Atualizei sua lista". The branch of external quotes is not reachable in the dialogue;
  `StartDeliveryAddressFlow` and `ConfirmDeliveryPayment` have no caller outside the tests.

The tracking page:

* A final event stops the polls; a snapshot asked for before may then be shown over it.
  Events carry the time of their publication, positions the device's, by which the page drops
  later events. Reports of operators raise no version and publish nothing. Calculations that
  overlap may save the older estimate last (`EstimateOfNewest` is about what is left when
  none is under way). A socket outlives the revocation of its link, and ids remembered
  by the hub outlive its room.

Tables and tabs:

* A request is APPROVED before table and tab are written: after an error in between a
  redelivery finds it done, and only a new approval helps (`process_table_event.go:97`).
* A closing counts the tabs of the table without a lock, so a table may be shown free
  with a tab that was opened meanwhile (`tables.service.ts:2918`).

The money of a tab:

* Items that were voided are billed at closing, although
  `docs/14_homologacao_comanda_manual.md:20` says they leave the total; voids are left
  out of the model.
* The core's `CreateOrder` saves the tab's row as it read it (`create_order.go:280`): a
  tab closed meanwhile is open again. `ClosesBilled` is about the step that closes.
* An older answer of the provider may unconfirm a payment; an approved payment closes a
  tab although orders came after it; approval seen by a page or a poll books what is
  still due as settled by hand; a page with nothing due is told that it paid.
* The exit finds nothing due, an order commits, and the closing books its price as
  received by hand (`tables.service.ts:2421`). The closing of a shift uses stored totals
  and leaves the links live.
* A reopened tab's second closing message is never sent. A webhook message whose
  handling fails is acknowledged and lost (`consumer.go:84`); the pages' polls make up.

Guests:

* The answer to a request to join is stored before the guest who asked hears of it
  (`handle_whatsapp_message.go:2332`, 2377). When the session cannot be read (2334, 2379) or
  written (2346, 2363, 2383: the errors are ignored), or the worker dies in between, nothing
  makes up for it: the opener is told that it went well, a repetition that the request is
  answered (2314), and the guest waits until "0". `AnsweredNotWaiting` excepts these
  (`undelivered`). An approved guest may be left without a tab too: the error of its creation
  is ignored (2359), and the session points to a tab that is none.
* The id in the opener's button is not looked at: the newest pending request is answered
  (`handle_whatsapp_message.go:2308`). Who left the queue with "0" is still admitted later;
  any reset of the opener's session strands the one who asked. An owner who lost the session
  and scans again is asked to join their own tab, and waits for themself.
* A claim writes the whole row of the tab (`tab_repository.go:74`) and may undo a closing or
  a new name: a guest who lost the tab between the search and the claim owns it again. What a
  portal link authorised stays in the session after the tab has another owner. Closing leaves
  the waiter chats open. Several open tabs of a table have no order.

Wallets:

* Debit and credit are atomic updates, and each TypeORM `save` of the tenant's row writes
  back the balance that it read. The first webhook of a recharge confirms and credits it
  whatever the provider's status is (`payment_handler.go:515`), and two of them credit twice;
  a poll, or the answer to the creation, may write PENDING over CONFIRMED (credited again)
  or CONFIRMED without a credit. `BalanceIsTheLedger` excepts these, as `disturbed` marks them.
* Failures are not made up for. A text of the outbox is debited after it left: when plan and
  price cannot be read or the debit fails, it is logged as charged (`outbox_processor.go:162`);
  an inbound one alike. When the confirmation of a recharge fails it is only logged, the credit
  is made all the same, and the next webhook credits again; when the credit fails, the recharge
  is CONFIRMED and never credited (`payment_handler.go:520`, 523). What these leave on one side
  is no exception of `BalanceIsTheLedger` but an entry of its ledger (`unbooked`): each failure
  moves the balance by exactly the price or the amount it concerns, and by nothing else.
* A change of the price prices all months anew; adjustments shift the opening balances of
  closed months: `ClosedMonthsStand` is about the stored rows without them.

Accounts:

* Two administrators may take the rights from each other at once. The save at the end of a
  login undoes a deactivation, a change of role or a new password. A restaurant is saved
  before its administrator's e-mail is checked, and the repetition is refused ("Slug ja
  cadastrado"). A request acts with the role its user had at its start, and an edit of a
  restaurant without active administrator sets the password of an inactive one.

Kitchen:

* An order is saved before its batch, and the batch before the message that it is ready
  (`orders.service.ts:552`, 561, 838, 957; `update_order_status.go:96`, 138, 152). A statement
  that fails, or a death, leaves the batch stale until the next request of the batch derives it
  anew; the message is then never sent, because READY to READY is refused and the milestone,
  once saved, is not reached again. `SyncedBatchTrue` says how far this goes (`stale`,
  `untold`).
* Overlapping requests lose or repeat the message that a batch is ready, leave the batch
  stale, undo a cancellation; an edit of the notes brings PENDING back. A batch made ready
  by canceling what was missing is never told (`orders.service.ts:561`), and changes that
  go through the core tell nobody. The core creates the orders of a batch without a
  transaction. Nothing writes `payment_item_allocations`.
* The page loads nothing when its socket opens (`kds.js:648`): what it missed since its last
  poll stays on the board. A queue copy after the filter's ten seconds, an `order.updated`
  of an order delivered meanwhile, or a poll answered after the socket opened brings a
  finished card back. The contract (`docs/kds-websocket-contract.md:157`) takes polling
  for the remedy.

Ordering:

* A category that "change item" finds empty is answered with "choose another category",
  while numbers still name the items shown before (`handle_whatsapp_ordering.go:172`): the
  one prompt that `AnswerMeansWhatWasAsked` excepts, besides options after an edit.
* Rows of options carry positions, not ids: a row of an older list picks what is at that
  place of the present group. A group whose options sell out below its minimum holds the
  guest until "0".
* Options are matched by name at the order, and the group is found without regard to case.
  Where two groups, or two options of a group, share a name, which `menu.service.ts` lets a
  restaurant save, the first of that name is validated and charged (`Matches`), whichever the
  guest chose: `FreshLineOrderable` and `PricedAsShown` are about items that are `WellNamed`.
* A merged line keeps its first price and the order charges the menu's: `PricedAsShown`
  is about carts over which nobody edited the menu.
* `CreateOrder` creates one order per destination without a transaction: after an error the
  first ones exist, the cart is kept, and sending again orders them again. "Repeat the last
  round" repeats the newest order, that is one destination's.

Conversation and outbox:

* A message whose handler returns an error is acknowledged (`consumer.go:83`): an event whose row
  cannot be read (`process_whatsapp_message.go:84`) is never handled, and one that cannot be
  marked (236) stays PENDING for ever although it was handled; only the support may look for
  them. A consumer whose connection is lost ends its loop and never subscribes again
  (`consumer.go:59`, `rabbitmq.go:125`): until the worker is restarted nothing is taken.
  `ConversationSettles` excepts these events (`dropped`) and assumes that the consumers
  listen from some time on.
* `INSERT ... ON CONFLICT DO NOTHING` is no error: a copy of a webhook, which the handler
  takes for "Provavelmente duplicado (UNIQUE constraint)" (`whatsapp_webhook.go:112`), is
  charged again and publishes an id no row has. It is not handled as a message
  (`OneOrderPerMessage`).
* The id is published by a goroutine after the event was stored (145): when that fails
  the message waits for the support. Two of them may arrive in the wrong order.
* WhatsApp, portal and table events are consumed side by side and share the session: when
  they overlap a cart is ordered twice or units get lost, and a guest whose request was
  approved may stay in the queue until "0". `AloneOrderedOnce` says that no cart suffers
  from one hand at a time.
* The order is created before the answer is sent and the session written: when one of
  these fails the cart is still there, and the message counts as processed
  (`process_whatsapp_message.go:203`). A session written after its release is back.
* The first message after a release is answered with the welcome menu whatever it says.
* The outbox worker sends before it saves, and writes the whole row: a death, an unclear
  answer, or a retry of the support, whose UPDATE does not look at `sent` again
  (`super-admin.service.ts:1700`), sends a text twice; `SentOnce` says that nothing else
  does. Without credits a text is dropped for good (`outbox_processor.go:101`), and the
  wallet is charged by a goroutine later.

### Bounds

* OwnCapacity: three keys contend for at most two slots (an overcommit needs one more key than
  slots); none at all is a capacity too. CheckoutRun: two creators on one key. Its instance
  `races`, with the constants of the cfg, has two payers, both modes, a quote, two couriers (a
  hold made again needs a second slot free) and a job that dies; `faults` has one payer, a
  capacity of one or two and inserts that fail. Six ticks let a window of three end and a
  second one begin.
* Clocks: `HoldTime`, `CheckoutTime` and `AttemptsPerCycle` are one to three ticks; an
  attempt is due every tick as it is every three minutes in the code. `MaxNow` lets each
  window end and one more begin. A hold, quote or cycle starts only when its window
  ends before the clock stops (guards in `HoldBegin`, `QuoteCreate`, `CreateBegin`,
  `RoomForCycle`), so that liveness is not lost at the bound.
* `RequestTime`: a request ends long before the fifteen minutes of a hold
  (`RequestAssumption`). Without it a payer could confirm, sleep through the window and
  commit after the slot lapsed.
* `MaxCycle` 2 covers a restart; `MaxVersion` 5 lets an accepted delivery be
  prepared, made ready, started and completed, and a waiting one be accepted, go through both
  transitions of a reconciliation and change once more.
* TableServiceRun: two tables and two tabs (a cycle of waiting needs two), two members of
  staff with two operations in all, two workers, one crash, every message up to twice.
* TabBillingRun: two orders and two payments, so that a payment may precede an order and a
  second one may follow; one page, one member of staff, one conversation, one worker; two
  operations besides polls, one webhook that may be repeated.
* OrdersRun: of the dialogue, `payment` has one address, two carts, two orders and a payment,
  `address` two places and two addresses, `edits` one address the restaurant changes once,
  each with one fault; `kitchen` two orders, two requests at a time, four in all: a third
  and a fourth after an overlap find what it left.
* RealtimeRun: `board` has one card, two changes, one lost connection, two polls at a time, a
  channel of one message; `page` three versions, one sample, one answer under way, a channel of
  one message, one remembered id and one mishap; `estimate` two samples, two calculations.
* GuestAccessRun: two guests, two tabs of one table, one request to join, three messages and
  four events in all: a guest comes, another joins, and something happens to the first. The tab
  there may be at the start has orders: that nothing is due, or all is paid, comes with other
  tabs.
* AdministrationRun: two hands, one recharge of two units, two messages, two notices of the
  provider, one poll, one save, two pages over three months, three started things in all, from
  a balance that covers one message and not two, any statement failing; two desks, three users
  of two restaurants, three requests (two that cross and one that finds what they left).
* ConversationRun: one WhatsApp message and one of the portal, from every state of the
  dialogue with none, one or two units in the cart. Each step of the dialogue is taken
  from each of its states by each channel, and a violation of `AloneOrderedOnce`
  takes two messages; a longer dialogue is a chain of these. One text for two attempts;
  one fault of any kind, shared by inbox, session and outbox.
* OrderingRun: two categories, two items, three menus between which one edit (`MaxMenuEdits`)
  changes prices, categories, options and what is sold, or deletes an item; carts of two lines
  of up to two units, so that lines merge, shrink and go; two for the twenty units a guest
  may ask for (`MostAsked`).
* One delivery: deliveries meet only through a driver's second assignment, which no
  property is about.
* `CallMayBeLost` is FALSE in the instance `alone` of ExternalRun: for the cycle a lost
  answer is a refusal. `overlap` has two workers, one cycle, and every fault.

### Fairness

* `SF` on what waits for row locks: PostgreSQL queues lock waiters, so an UPDATE that is
  again and again possible is made. `WF` on the end of a transaction that is open.
* The maintenance job is started periodically and runs for ever: `Expire`,
  `ExpireStep`, `WorkerStep`. It owes nothing to `DeliveryLifecycle`: there a reconciliation that
  was asked for is begun or lost (`WF`; the core's call has three attempts and a timeout).
* Servers may die at any step where `MayDie` or `ExpirerMayDie` allow it, but not at
  every attempt: `SF` on handlers' steps.
* `CompleteOwnAgain`: the panel repeats a completion that was not answered; the code
  has its idempotent path (`delivery.service.ts:666`) for this.
* TableService: PostgreSQL's queue again (`SF` on the steps that wait for rows), `WF` on
  statements that wait for nobody; workers take what is queued. TabBilling: a page polls
  on, the provider answers again and again, a worker ends what it took. KitchenBoard: a
  request that wrote its row goes on; the page's timer polls while there is no socket.
* Conversation and Outbox: a WhatsApp consumer that has its connection goes on (no fairness
  brings the connection back or restarts the worker), the outbox's ticker ticks, a delay
  passes. Guests, staff, portal and support owe nothing, and the provider may refuse every
  call. Ordering, GuestAccess, DeliveryDialogue, Wallet and StaffAccounts have no fairness:
  their properties are safety.
* DeliveryTracking: the page's timer of twelve seconds polls while it polls at all (`SF` on
  `Poll`), and an answer under way arrives.
* Requests, payments, administrators, couriers and kitchens owe nothing.

## 4. Proofs

Every theorem holds for all values of the constants that satisfy the named assumptions of
its module; TLC evaluates those assumptions in every run. The inductive invariants were
checked by TLC on the runs' instances before they were proved.

| Module | Theorem | States |
|---|---|---|
| `CapacityAndBoard_proofs` | TypeCorrect | `[]TypeOK` of OwnCapacity |
| | HoldKnowledge | `[]HoldInv` |
| | NoOvercommitHolds | `NoOvercommit` |
| | ConfirmedHolds | `ConfirmedHeldWithinWindow` |
| | Refinement | `ImplementsPool` |
| | BoardTypeCorrect | `[]BoardTypeOK` of KitchenBoard |
| | BoardIsTrue | `[]BoardTrueWhileHeard` of KitchenBoard |
| `OrderingAndWallet_proofs` | AnswersUnderstood | `[]AnswerMeansWhatWasAsked` of Ordering |
| | DialogueOrderable | `[]FreshLineOrderable` of Ordering |
| | PricedAsShownHolds | `PricedAsShown` of Ordering |
| | WalletTypeCorrect | `[]WalletTypeOK` of Wallet |
| | BalanceAddsUp | `[]BalanceIsTheLedger` of Wallet |
| | ClosedMonthsAreHistory | `ClosedMonthsStand` of Wallet |
| | TypeCorrect | `[]TypeOK` of DeliveryCheckout |
| | PaidWithReservation | no insert fails `=> [][PaysOverReservation]_vars` |
| | PaidOverReservationHolds | `PaidOverReservation` of MCDeliveryCheckout |
| | UsesTheService | `Spec => Cap!Spec` |
| `Deliveries_proofs` | TypeCorrect | `[]TypeOK` of ExternalFulfillment |
| | CalledOnce | `[]AttemptCalledOnce` |
| | SuccessStops | `SuccessStopsCycle` |
| | GoesWhereConfirmedHolds | `[]GoesWhereConfirmed` of DeliveryDialogue |
| `Lifecycles_proofs` | TypeCorrect | `[]TypeOK` of DeliveryLifecycle |
| | FinishedStays | `TerminalKept` |
| | SlotKept | `[]SlotUntilTheEnd` |
| | KitchenTypeCorrect | `[]KitchenSound` |
| | ToldWhenReadyHolds | `ToldWhenReady` |
| | SyncedBatchTrueHolds | `[]SyncedBatchTrue` |
| | AccountsTypeCorrect | `[]AccountsSound` |
| | AdminRemainsHolds | `AdminRemains` |
| | RevocationsKept | `RevocationsHold` |
| | EstimateHolds | `[]EstimateOfNewest` |
| `TableService_proofs` | TypeCorrect | `[]TypeOK` |
| | RequestsOnce | `[]OneTabPerRequest` |
| | LinksOnce | `[]OneLiveLink` |
| | NoCircleOfWaiting | `[]WaitsAscend` |
| `TabBilling_proofs` | TypeCorrect | `[]TypeOK` |
| | ApprovedHolds | `[]ConfirmedWasApproved` |
| | ClosesBilledHolds | `ClosesBilled` |
| `Conversation_proofs` | TypeCorrect | `[]TypeOK` |
| | OrdersOnce | `[]OneOrderPerMessage` |
| | CartsOnce | `[]AloneOrderedOnce` |
| | TextsOnce | one process at the outbox `=> []SentOnce` |
| `GuestAccess_proofs` | TypeCorrect | `[]TypeOK` |
| | KeptApart | `TabsKeptApart` |
| | AnsweredHolds | `[]AnsweredNotWaiting` |
| | CalledOnce | `[]AloneCalledOnce` |

**OwnCapacity.** `NoOvercommit` is not inductive: it speaks of a step, and at that step the
hold trusts a count made earlier. The invariant is `HoldInv == TypeOK /\ LocksKept /\
CountKept`: while a hold is open the rows it expired are still HELD and due (it locked
them), and once it has counted, the active rows it did not expire are among the counted
ones and the row of its key is dead. `UnlockedStep` is the heart of it: a transaction that
touches only unlocked rows, and makes none active, keeps that knowledge. Each action but a
grant is of that kind (`OthersTakeNothing`), and for a grant `GrantBound` adds one element
to a counted set that was smaller than the capacity. The refinement uses the same facts:
grant is the pool's `Grant`, the other commits its `Confirm`, `Release` and `Lapse`, the
settings its `Resize`, and everything else stutters. Assumed: finite keys, a clock in Nat,
a window of at least one unit, capacities in Nat.

**DeliveryCheckout** uses OwnCapacity through `INSTANCE`. `CheckoutInv` says what creators,
payers and maintenance know while they run: a payer holds a PENDING checkout alone,
maintenance releases slots of EXPIRED checkouts only, and the open hold belongs to a creator
that waits for it. `UsesTheService` is the composition: each step, seen from the tables of
the capacity service, is a step of `OwnCapacity` (`CapStep`) or a stutter, so all that was
proved of the service holds for the checkout too. For `PaidWithReservation`, `PayInv` adds
`PayersReserved`: a payer past its reservation has a slot that is CONFIRMED with the window
it saw, or that window has ended, or a USED quote. Only one kind of request takes a
confirmed slot away from a payer: a creation of the same key whose insert failed and that
gives the slot back (`NoUndo`). The theorem therefore assumes `SaveMayFail = FALSE`, and
what happens without it is a divergence of section 3. `PaidOverReservationHolds` is the same of
the composition that the run checks, whose other instance has such inserts.

**ExternalFulfillment.** Workers save back a whole row they read earlier, so what they know has
to be said of the rows and of each worker. `ExecutionInv` is `TypeOK`, `ExecutorKnows` (a
worker that calls or records has an attempt that is claimed and not yet recorded),
`OneExecutor` (no two have the same one), `UnclaimedUncalled` (a scheduled attempt was not
called) and `AttemptCalledOnce` itself. With overlapping workers a cycle may go on after one of
its attempts succeeded (section 3); with one worker at a time (`OneWorker`) it may not, and
`SearchInv` shows it: a cycle that found a courier is settled, and a worker that executes an
attempt does so in a cycle that found none.

**DeliveryLifecycle.** Every step moves a row by a transition of the status table, writes an
assignment over what was read before, or leaves it (`EveryRowMoves`); no transition leads
out of a terminal status (`TerminalIsFinal`). `FinishedStays` follows, with the one
exception `TerminalKept` names. `SlotInv` adds that a handler about to free a slot saw the
end of its delivery; an end that is taken back is marked (`OverStays`), so the fact does not
depend on when the handler goes on.

**KitchenOrders.** `KitchenSound` says what a request carries at each of its steps (`WellMade`)
and that a batch that was not begun has no orders. `ToldWhenReady` speaks of the step that
tells; between the reading of the orders and that step others go on. `ReadyStays` is what
survives: once nothing was to be prepared, only an order saved over a later status (`raced`) or
added to the batch makes something to be prepared again, because no transition leads out of
READY but to DELIVERED (`Moves`). `SyncedInv` is for `SyncedBatchTrue`: while no order was
written during another's sync, the requests are `Synchronous`. One is between its saved order
and its saved batch (`OneSyncs`), and what it has read is still so (`UpToDate`), so the row it
saves is the one the orders make. `InSync` says how far the row is behind: not at all, unless
`stale`. A failure needs no case of its own there: it leaves `stale` as it is, and whoever
saves the batch next derives it from all orders. `Told` relates messages and milestone: one
message at most, sent or being sent, and only when the milestone is set; `ReadySettled`, that a
batch that was ready has nothing to be prepared; `LastTells`, that a batch whose orders are all
done was told of, or a request is on its way that will, unless one failed (`untold`) or the
core did it (`mute`). `MilestonesOrdered` (a delivered batch was ready) holds of the row and of
the copies that requests work on. What `DerivedStatus` returns is said once, in `Derived`, so
that no step expands its `CASE`.

**KitchenBoard.** `BoardTrueWhileHeard` speaks of moments when nothing is left to come.
`BoardInv` says of every other moment what will come. `Stream` is what the hub's channel holds
and then what the queue holds; a copy that the bridge takes from one to the other changes
nothing in it (`HeadMoved`), an event that is relayed is put into its middle, one that is
published at its end. While the page follows (`Following`: it has its socket, heard what there
was and no two requests of an order overlapped), the events it has not seen yet come, order by
order, in the order of their changes, each at its first copy (`InOrder`), after all it has seen
(`SeenFirst`), and the last of them shows the order as it is; where none is to come the card
does already (`CardsLead`), but for an order whose change nobody has said (`Unsaid`). The relay
may overtake copies in the queue: `InOrder` survives because `missed` marks an overtaken event
the page has not heard, and the copy of one it has is no first copy. The answer of the page's
own request (`Answered`) is right for two reasons, which `AnswersTold` and `OneAtATime` give:
its event was either seen, and then nothing is to come, or it comes. The facts about requests
and numbers (`RequestsApart`, `ToldOnce`) hold without these conditions.

**Wallet.** `BalanceIsTheLedger` speaks of moments when nothing is under way; `WalletInv` says
of the others what is missing (`Balanced`): a message that is charged and not logged yet counts
with its price, a recharge that is confirmed and not credited yet with its amount, and with
these (`UnsettledOf`) the balance is the ledger's. An operation that fails, or goes on without
its statement, changes what it leaves unsettled and no table (`Skips`), and the difference is
what `unbooked` takes up. That holds as long as nothing disturbed the history, and then
`AllAgree` is why: a message under way has the plan and the price of the tenant's row, a
webhook or a poll has seen the payment's row as it is, and a creation has a row that is still
PENDING, because nobody else is about that payment (`OneEach`). `DatesInv` says that a
confirmed payment has a month that has begun and that nothing is logged in months to come, so a
debit or a credit falls into the running month and into no other (`BalanceStands`). For
`ClosedMonthsStand`, `FaithfulInv` has for each faithful month that its stored row is
`TrueCycle`: what the page would say of it if it started from the ledger. A page starts from
today's balance and goes backwards; `CyclesAreTrue` shows that the two agree, since the months
it subtracts and those before are all the months up to now. The sums are over any number of
hands and of months. What a sum over a finite set is, when two are equal, and how one splits
into two (`SumIsIteration`, `SumSame`, `SumDisjoint`) is proved with no theorem that takes an
operator: two iterations that differ would differ on a smallest set, and there is a least
cardinality because numbers are well-founded (`LeastOf`, from `WFMin`). TLC checked `WalletInv`
on the run's constants (1 375 207 states) and with three hands and two recharges (1 449 610
states). Assumed: hands and recharges are finite, amount, window and last month at least one.

**StaffAccounts.** Nothing is locked, so the invariants are about the copies at the desks.
`Begun`, `Goes`, `Dropped` and `Saved` are the four things a request can do; one lemma per
operation shows which it does (`LoginBegins` ... `SaveSaves`), and each invariant meets only
those four. `AdminInv` adds to the types that, while nothing crossed, role, activity and
restaurant in a copy are those of the table but for what the request was asked to change
(`Fresh`), and that a request that takes an administrator away is the only one of its kind and
finds another one when it saves (`Leaves`): after the count nobody else can take that one
away. `RevokeInv` has `DismissedAway` and `ReplacedGone`: no copy of a dismissed user is
active, but at a desk asked to activate; no copy has a replaced password. The oldest
administrator is chosen by number, which exists because numbers are well-founded (`OldestIn`).

**DeliveryTracking.** `EstimateOfNewest` speaks of the moment when nothing is left to do. Its
invariant says of every other moment who still has to do it: while nothing excuses the
estimate, one calculation runs at most, and the newest position is on its way
(`NewestOnItsWay`) - saved but not yet published, on the timer, in the calculation that
runs - or the estimate is already its. A position that is saved makes itself the newest and
leaves something to be published; a publication sets the timer; the timer reads the newest
position; and a calculation that saves is the only one, so what it leaves is either the
newest or still on its way. The disjunct of two calculations is what `excused` is about: a
second one that starts beside the first may be saved before it.

**Ordering.** Every handler ends by showing something, so the invariant is proved of what is
shown: `Led` says that the session a handler leaves is good and that what it showed is what the
session means, and one lemma per prompt (`StartLed`, `CartLed`, `GroupLed`, `ActionsLed`,
`RepeatLed` ...) shows it; an action is then a choice between prompts. `OrderingInv` has,
besides, `LinesDiffer` (a line of the cart is known by its item and options, and is found once:
without it the numbers of the actions could be those of another line) and, for
`FreshLineOrderable`, `Choosing`: in the middle of the dialogue the options picked so far are
sold in the groups passed so far, each of which has what it requires and none too many. What
comes in a message counts several options at once: `PickChoosing` bounds them by cardinalities,
`NextGroup` and `LastGroup` carry the bounds to the next group and to the validation of
`CreateOrder`, which looks at all groups and not at their order and looks each option up by its
names: `PickedMatches` is the step from what was picked to what the validation finds, and the
one for which the names of groups and options must differ (`WellNamed`). The property says so
item by item; it is no assumption on the menu, as `normalizeOptionGroups` does not see to it.
What is assumed is that groups and options are lists and that no group asks for more than it
allows (`Math.max(maxSelect, minSelect)`). What the guest is asked and what an answer means
(`AnswersUnderstood`) needs no names.

For `PricedAsShown` each line that is fresh is `PricedNow`: its price is the one of the menu
and its options, and what the order finds by their names are the options themselves
(`Meant`; `PickedMatches` finds just one option, the first group and option of that name). A line
that takes up more units keeps its price, which is therefore still the menu's. An order is sent
from a cart that was just shown (`AnswersUnderstood` is needed for that) and by nothing but
confirming (`SentByConfirming`); its lines are those of the cart by destination, and the sum of
the sums over the destinations is the sum over the cart (`SumByParts`, `BatchAddsUp`), in
any order and for any number of destinations. TLC checked `OrderingInv` on the run's constants
(3 138 734 states). Amounts are whole numbers of cents; the rounding of the `float64` sums of
the code is not modelled, and what an option adds may be negative.

**DeliveryDialogue.** `GoesWhereConfirmed` compares four copies of a place: what the customer
said yes to, what the checkout is of, what the batch was priced for and what the delivery is
created with. Each is made from another one some messages earlier, and the session is only
partly cleared in between. `SessionInv` follows the draft: `BookSound` (a saved address has a
place, and the coordinates are that place's unless the restaurant wrote over it), `Refers`
(what the session points to exists, and an address was chosen before it is edited or left),
`DraftSound` (a complete draft has a place; without coordinates of its own it has those of
the selected address), `DraftShown` (without a change of mind the draft is what was shown and
confirmed). `CheckoutInv` follows the money: a checkout is of a batch made for its key and of
no other checkout's, the batch of the session is that of its draft and its cart, a payment
that confirms has an order whose delivery comes first. Answers that are lost after the
restaurant's service did its part are the hard case: the batch or the checkout exists and the
session does not know. The next attempt has the same key, or a key no checkout has, because
`BatchSound` gives each batch to one key. Ids are given in order; a free one with none
before it exists because numbers are well-founded (`LeastIn`).

**TableService.** `Progress` describes how one operation of the staff may go on, whatever
action does it, and `StaffStartsOK` and `StaffContinuesOK` show that each action does no
more; the rest of the proof speaks of `Progress` alone. `TableInv` is `TypeOK`,
`OperationsOK` (the rows of a tab and of its tables are locked by one transaction),
`LocksAscend`, `IssuesAlone` (who is about to issue a link has revoked the others) and
`AnswersBound`, which counts the messages in the queue, in the hands of workers and about to
be published: at most one per operation begun. `LocksAscend` is inductive only because a
transaction that takes a table gets the smallest one it needs and the tables it holds do not
change under it, although other tables are removed and tabs moved. `NoCircleOfWaiting` says
that along a chain of moves that wait for each other the ids of the tables ascend, so
that no circle of any length exists: TLC sees two or three, the theorem any number.

**TabBilling.** `BillingInv` has four parts. `PaymentInv`: an approval in the hands of a
page, a user or a worker is the provider's, and the provider never takes one back, so
results may be written late and in any order; only one actor creates a payment at the
provider, and until it has, the provider does not know it. `ToldInv`: while the closing is
claimed, one actor tells the guest or has told. `BillInv`: orders are placed and closings
made under the tab's lock by one actor at a time; a closing that holds it knows the tab's
status, and what it is about to book by hand, with what was received, covers the orders
placed under the lock. That last part is what the commit needs, and it survives every step
in between: orders outside the lock are not counted, orders only end, and approvals only
add (`ReceivedStays`). `TypeOK` needs a part of `BillInv`: the conversation adds
one to a total it read before, which stays within the number of orders because its own
order was placed since. `Move`, `PaymentsGo`, `OrdersLeave` say once what a kind of step
keeps; each action has a lemma of its own. Assumed: orders and payments are finite
and numbered, `NoPayment` is none of them, and the bounds are in Nat.

**Conversation** and its **Outbox**. The dialogue has twenty branches, and none of the
invariants wants to know which one was taken: `Outcome` says what any of them may do to the
cart and the orders (the cart is the one there was, none, or one the message itself began; a
confirmation orders the whole of it and leaves none), one lemma per handler shows it
(`WelcomeMenuOutcome` ... `ProcessedOutcome`), and the rest speaks of `Outcome` through
`ProcessKeeps` alone. `OrdersOnce` needs to know where a message is. `MessagesOnce` says that
it is in one place at a time - not stored, about to be published, or once in the queue - and
that until it is taken nothing bears its name: no order, no cart, no copy in a consumer's
hands (`Untouched`); `InputsOnce` says so of the portal, whose messages are told apart by
their text. `again` excepts the messages of a consumer that died and those the support
retried. For `CartsOnce`, `Alone` says that while one hand at a time was on the session, the
cart to come - that of the one copy, or the session's when there is none - was not ordered,
and a cart that waits for its confirmation was shown with its units. A new cart bears the name
of its message, so `MessagesOnce` gives that it was not ordered either. For `TextsOnce`,
`Batches` has the rows of a batch as they were read, unsent and each once, and `Accounted`
says of a text that reached the phone that its row is SENT or that it is the one at hand, and
that no batch has it as one still to be sent. It assumes one process at the outbox
(`OneProcessor`): `ProcessPending` reads the due rows without a lock or a claim
(`outbox_processor.go:52`), so two processes would send each text twice, and what keeps them
from it is the deployment, one service with a fixed container name
(`docker-compose.yml:278`). The run has one process too. Assumed besides: the kinds of
messages are told apart, a cart has room for a unit, and the bounds are in Nat.

**GuestAccess.** Most branches of the dialogue move one handler and tell nobody: `Quiet` says
what such a step may do, one lemma per branch shows it (`FirstMessageQuiet` ... `FindQuiet`),
and each invariant meets all of them in one lemma (`QuietInv`, `QuietCalled`, `QuietAnswered`,
`QuietApart`). What is left is few: a message begins, a guest asks, the opener answers and the
answer is delivered, a row is claimed, a call is looked for and inserted, a session is saved, a
handler stops, and the staff act. `GuestInv` is `TypeOK`, `SessionsGood` and `Sound` (a
session, and each copy of it a handler works on, refers to tabs and requests that exist, and
has the authority of a link only with its grant; a handler that looks for a call is the owner's
or the link's), `JoinsGood` and `OwnersGood` (consents and owners are granted). `TabsKeptApart`
follows from it step by step: the search tests the session's tab, the table and the phone, and
each of these tests is one of the grants (`EntitledFound`). `CalledInv` adds the handler about
to insert a call to the calls that are stored: together at most one, but for tabs where two
handlers crossed. `AnsweredInv` is the least obvious. That an answered guest does not wait says
nothing of the handlers that still hold an older session of the guest and will write it. `Past`
speaks of them: a copy that waits was read in the state of the choice or of the wait, and the
session stored now is in neither, so writing the copy is an overwriting. `Accounted` says why a
guest who waits for the latest of their requests may do so although it was answered: the
opener's handler has yet to deliver it (`Told`), or it is in `undelivered`, where a failed read
or write and a death (`Stops`) put it and a delivery that succeeds takes it out. A guest whose
session has ended (`NoSession`) has no handler that read it before, or was overwritten.
`AppendedLatest` and `LatestIn` say which request is a guest's latest. Assumed: phones are not
tabs and nobody is neither, and there is room for one tab.

### What the proofs changed in the modules

* `ExternalFulfillment`: `Start` and `RestartCycle` schedule attempts only in a cycle that
  has none (`Fresh`), as the unique index over cycle and number has it. Without that guard
  the invariant of `CalledOnce` is not inductive.
* `DeliveryCheckout`: `PaysOverReservation` names the one exception it has. Between the two
  transactions of a payment the window of its slot may end, and a second creator of the same
  key then turns the confirmed slot into a hold of its own.
* `TabBilling`: money is counted unit by unit (`AmountOf`), so that two sums can be compared
  by the sets they count, and the type of an operation is complete. Alternatives of a `CASE`
  exclude one another there and in `GuestAccess`: a `CASE` whose guards overlap may take any
  of them, and only TLC takes the first.
* `Outbox`: a batch is the set of the rows that were read, and the processor goes on with the
  one of the least id; as a sequence sorted by a recursive operator it was out of the prover's
  reach. `Conversation` names what it assumes of its texts and bounds.
* `GuestAccess`: `TabsKeptApart` was false beyond the bounds of its run. A handler has found a
  tab and is about to claim it with the table's number; the staff give the tab to another
  guest; the claim writes the row as it was read, and the former owner, whose grant ended, is
  let in again. The claim now grants such an owner the tab as `"stale"`, and the property names
  this way in. `Find` is split into `AsItIs`, `Row` and `Taken`, and the types of handlers and
  sequences are complete.

* `KitchenOrders`: its type bounded `readyTold` by the number of orders, which overlapping
  requests exceed with enough of them; it is a natural number. `StaffAccounts` names what it
  assumed silently: everybody's first e-mail is one of the e-mails, no e-mail is the mark of
  a missing row, and there is a restaurant.
* `Wallet` names the net of each month and sums functions (`Nets`, `NetOf` with
  `SumFunctionOnSet`) where it summed with an operator; what a page makes of one month is `Cycle`,
  said once for both plans; hands have a type for each operation; there is a month at least.
* `DeliveryTracking` names that no position is not a position (`NowhereAssumption`).
* `DeliveryDialogue`: the fields the form asks for after another one are a set, and
  `NextField` takes them in their order; a filtered sequence needed an induction over data.
* `Ordering` assumed of every menu that the names of groups and options differ, in the form of
  two cardinalities. The proof showed where that is used, and the code that it is not true:
  nothing in `normalizeOptionGroups` compares names. The assumption is gone; the lookup by
  names takes the first match, as `findMenuItemSelectedOption` does (`Matches`), and the two
  properties that fail where names are shared say so (`WellNamed`). What is left of the
  assumption says that groups and options are lists (`IsList`) and that prices are numbers.
  An order's lines were a sequence made by filtering the cart, and orders a sequence made by
  folding it; neither can be summed without an induction over data. As in `groupedItems` an
  order now belongs to a destination and its lines keep their places in the cart
  (`Batch`, `LinesTo`), and which order is the newest is said by these places (`Newest`).

### What stays with TLC

* Liveness under fairness and ENABLED, which the prover does not reach: `HoldsLapse`,
  `EveryCheckoutSettles`, `EveryCycleConcludes`, `DeliverySettles`, `TableWorkEnds`,
  `PageHears`, `PollingBoardTrue`, `PageSettles` and `ConversationSettles`. Every other property
  that a run checks is stated by a theorem.

## 5. Not modelled

* Amounts (but for prices of orders, tabs and credits), fees, addresses, tracking links, PINs,
  costs, wording, audit rows: no property above depends on them.
* `createExternal` and the creation of a delivery from its batch: each ends in a state
  the modules start from (`Init`); their unique constraints make repetition harmless.
* The webhook inbox of the operators and its five retries; reports may be late, repeated
  or never come.
* Of tables and tabs: the rows of waiter chats and their panel, several tables of one guest,
  shifts. Of the money: voids, service fee. Of the kitchen: summaries, several windows of one
  page, the waiters' panels. Of the conversation: notes of items, images, lists that fall back
  to texts, the texts of restaurants that are closed, the expiry of a session after a day. Of
  the wallets: the statement of messages and its export, forecasts, alerts. Of the accounts:
  names, audit entries, throttling, allowed addresses. Of the tracking: several pages, rate
  limits, the cookie, the map, the purge of positions.
* Domain outbox relay: publishes and marks rows in one transaction, skipping locked ones;
  what it may do to a delivery (repeat, reorder, lose) DeliveryLifecycle allows for its
  events. Reports show state and write none back. PIN, notifications, settings: one locked
  transaction or one insert each.
* The rest of the two administrations (menus, stock, profiles, metrics, support screens),
  OpenAPI descriptions, static pages, the KDS application and its styling: forms over one
  row at a time, presentation and generated text. They are most of the repository's lines
  - most of `super-admin.service.ts`, `openapi.ts`, the pages of `web/public` -
  and hold no protocol a model could tell right from wrong. For this reason the mapped lines
  are a small share of the repository, however much of its concurrent core is modelled.
* Observed while modelling: an own fulfillment row is made only by `convertToOwn`, so
  `own-start` needs a conversion first (`DeliveryLifecycle!Init` has no own trip);
  nothing moves a driver's delivery from PICKED_UP to IN_TRANSIT, so arrival and PIN
  confirmation are reached only after an operator's report.

## 6. Plan

1. Done: the modules of section 2 with their runs; the theorems of section 4.
2. Composition of ExternalFulfillment with OwnCapacity for the conversion, of TabBilling
   with DeliveryCheckout for the payments of deliveries, and a refinement from
   DeliveryLifecycle to the status table alone.
