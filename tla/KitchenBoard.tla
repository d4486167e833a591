---- MODULE KitchenBoard ----
(***************************************************************************)
(* The page of the KDS and what keeps its cards true: the events of the    *)
(* orders, which reach it twice, through the hub of the core and through   *)
(* the queue kds.events, and the polling of a page without a socket        *)
(* (orders.service.ts, main.go, hub.go, fiber_client.go, kds.js;           *)
(* docs/kds-websocket-contract.md).                                        *)
(*                                                                         *)
(* A change of an order is one step here; KitchenOrders has the steps it   *)
(* is made of.                                                             *)
(***************************************************************************)
EXTENDS Naturals, Sequences, FiniteSets, SequencesExt

CONSTANTS
  Orders, Reqs, NoOrder,
  MaxOps,       \* bound: changes of orders
  MaxDrops,     \* bound: times the connection of the page is lost
  MaxPolls,     \* bound: answers of GET /orders under way
  ChanCap       \* messages that the channel of a client holds (256 in the code)

ASSUME Bounds == {MaxOps, MaxDrops, MaxPolls, ChanCap} \subseteq Nat /\ NoOrder \notin Orders

VARIABLES
  orders,       \* status of each order
  reqs,         \* requests that have changed an order and still have to say so
  relayQueue,   \* the queue kds.events
  chan,         \* the channel of the page's client in the hub
  registered,   \* the hub knows the client
  online,       \* the page believes its socket open
  seen,         \* recentWSEventKeys of the page
  cards,        \* allOrders of the page: the status on the card of each order
  polls,        \* answers of GET /orders under way to the page
  overlapped,   \* history: two requests of one order were under way together
  missed,       \* history: an event passed the page by, or may reach it late
  ops, drops

hub == <<chan, registered, online, drops>>
page == <<seen, cards, polls>>
boardVars == <<orders, hub, page, reqs, relayQueue, overlapped, missed, ops>>

Final == {"DELIVERED", "CANCELED"}
Statuses == {"PENDING", "ACCEPTED", "READY"} \cup Final
Rows == Statuses \cup {"NONE"}          \* NONE: no such order, or no card

ValidTransitions == [PENDING |-> {"ACCEPTED", "CANCELED"}, ACCEPTED |-> {"READY", "CANCELED"},
                     READY |-> {"DELIVERED"}, DELIVERED |-> {}, CANCELED |-> {}, NONE |-> {}]

Events == [op: 1..MaxOps, type: {"created", "status", "updated"}, order: Orders, status: Statuses]

Idle == [pc |-> "idle", by |-> "none", type |-> "none", order |-> NoOrder, to |-> "NONE", op |-> 0]

\* GET /orders?status=PENDING,ACCEPTED,READY.
Open(os) == [o \in Orders |-> IF os[o] \in Final THEN "NONE" ELSE os[o]]

BoardTypeOK ==
  /\ orders \in [Orders -> Rows] /\ cards \in [Orders -> Rows]
  /\ \A q \in {relayQueue, chan} : \A i \in DOMAIN q : q[i] \in Events
  /\ Len(chan) <= ChanCap /\ seen \subseteq Events
  /\ Len(polls) <= MaxPolls /\ \A i \in DOMAIN polls : polls[i] \in [Orders -> Rows \ Final]
  /\ {registered, online, overlapped, missed} \subseteq BOOLEAN
  /\ \A r \in Reqs : reqs[r].order \in Orders \cup {NoOrder} /\ reqs[r].to \in Rows
  /\ ops \in 0..MaxOps /\ drops \in 0..MaxDrops

BoardInit ==
  /\ orders \in [Orders -> {"NONE", "PENDING", "READY"}]
  /\ reqs = [r \in Reqs |-> Idle]
  /\ relayQueue = <<>> /\ chan = <<>> /\ polls = <<>>
  /\ registered = TRUE /\ online = TRUE
  /\ seen = {} /\ cards = Open(orders)
  /\ overlapped = FALSE /\ missed = FALSE /\ ops = 0 /\ drops = 0

--------------------------------------------------------------------------------
\* What changes an order.
Becomes(r, what) == reqs' = [reqs EXCEPT ![r] = what]

Begins(r, o, pc, by, type, to) ==
  /\ reqs[r] = Idle /\ ops < MaxOps
  /\ ops' = ops + 1
  /\ overlapped' = (overlapped \/ \E q \in Reqs : reqs[q].order = o)
  /\ Becomes(r, [pc |-> pc, by |-> by, type |-> type, order |-> o, to |-> to, op |-> ops + 1])

\* updateStatus.  The page offers what follows the status on its card, once at
\* a time; others are other terminals, or the core.
Change(r, by, o, to) ==
  /\ Begins(r, o, "relay", by, "status", to)
  /\ to \in ValidTransitions[orders[o]]
  /\ by = "page" => /\ to \in ValidTransitions[cards[o]]
                    /\ \A q \in Reqs : reqs[q].by # "page" \/ reqs[q].order # o
  /\ orders' = [orders EXCEPT ![o] = to]
  /\ UNCHANGED <<hub, page, relayQueue, missed>>

\* createManualOrder, and CreateOrderUseCase in a worker, which has no hub.
Create(r, by, o) ==
  /\ Begins(r, o, IF by = "worker" THEN "publish" ELSE "relay", by, "created", "PENDING")
  /\ orders[o] = "NONE"
  /\ orders' = [orders EXCEPT ![o] = "PENDING"]
  /\ UNCHANGED <<hub, page, relayQueue, missed>>

\* updateManualOrder, updateManualOrderItem and voidManualOrderItem commit and
\* then read the order for the event.
Edit(r, o) ==
  /\ Begins(r, o, "reload", "staff", "updated", "NONE")
  /\ orders[o] \in Statuses \ Final
  /\ UNCHANGED <<orders, hub, page, relayQueue, missed>>

Reload(r) ==
  /\ reqs[r].pc = "reload"
  /\ Becomes(r, [reqs[r] EXCEPT !.pc = "relay", !.to = orders[reqs[r].order]])
  /\ UNCHANGED <<orders, hub, page, relayQueue, overlapped, missed, ops>>

--------------------------------------------------------------------------------
\* How an event gets to the hub.
EventOf(r) == [op |-> reqs[r].op, type |-> reqs[r].type, order |-> reqs[r].order, status |-> reqs[r].to]

Heard == seen \cup Range(chan)

Room == registered /\ Len(chan) < ChanCap

\* broadcastToTenant: a client that cannot take the event is dropped; what its
\* channel holds still reaches the page.
Broadcast(e) ==
  /\ chan' = IF Room THEN Append(chan, e) ELSE chan
  /\ registered' = Room

\* broadcastKDSEventToGoCore; a failure is logged.  The core broadcasts in its
\* own process, and that is all it does.  The event may overtake others, whose
\* copies are still in the queue.
Relay(r) ==
  /\ reqs[r].pc = "relay"
  /\ Broadcast(EventOf(r))
  /\ missed' = (missed \/ ~Room \/ ~(Range(relayQueue) \subseteq Heard))
  /\ Becomes(r, IF reqs[r].by = "core" THEN Idle ELSE [reqs[r] EXCEPT !.pc = "publish"])
  /\ UNCHANGED <<orders, page, relayQueue, online, drops, overlapped, ops>>

RelayFails(r) ==
  /\ reqs[r].pc = "relay" /\ reqs[r].by # "core"
  /\ Becomes(r, [reqs[r] EXCEPT !.pc = "publish"])
  /\ UNCHANGED <<orders, hub, page, relayQueue, overlapped, missed, ops>>

Published(r) == Becomes(r, IF reqs[r].by = "page" THEN [reqs[r] EXCEPT !.pc = "answer"] ELSE Idle)

Publish(r) ==
  /\ reqs[r].pc = "publish"
  /\ relayQueue' = Append(relayQueue, EventOf(r))
  /\ Published(r)
  /\ UNCHANGED <<orders, hub, page, overlapped, missed, ops>>

\* publishKDSEvent without a channel: the event is lost unless it was relayed.
PublishFails(r) ==
  /\ reqs[r].pc = "publish"
  /\ missed' = (missed \/ EventOf(r) \notin Heard)
  /\ Published(r)
  /\ UNCHANGED <<orders, hub, page, relayQueue, overlapped, ops>>

\* handleKDSEvent: the copy of the queue goes to the hub.
Bridge ==
  /\ relayQueue # <<>>
  /\ Broadcast(Head(relayQueue))
  /\ missed' = (missed \/ (~Room /\ Head(relayQueue) \notin Heard))
  /\ relayQueue' = Tail(relayQueue)
  /\ UNCHANGED <<orders, page, reqs, online, drops, overlapped, ops>>

--------------------------------------------------------------------------------
\* The page.

\* handleWSEvent: the card is replaced by the event, or removed.
Applied(e) ==
  [cards EXCEPT ![e.order] = IF e.type = "status" /\ e.status \in Final THEN "NONE" ELSE e.status]

\* shouldHandleWSEvent.
FreshAlways(e) == TRUE

Fresh(e) == e \notin seen

Hear ==
  /\ online /\ chan # <<>>
  /\ LET e == Head(chan)
     IN /\ cards' = IF Fresh(e) THEN Applied(e) ELSE cards
        /\ seen' = seen \cup {e}
  /\ chan' = Tail(chan)
  /\ UNCHANGED <<orders, reqs, relayQueue, registered, online, drops, polls, overlapped, missed, ops>>

\* Ten seconds on, a key is forgotten: its copy, still under way, counts again.
ForgetKey(e) ==
  /\ e \in seen /\ e \in Range(relayQueue)
  /\ seen' = seen \ {e}
  /\ missed' = TRUE
  /\ UNCHANGED <<orders, hub, cards, polls, reqs, relayQueue, overlapped, ops>>

\* onclose, after the hub has closed the channel or the connection is lost.
Closed ==
  /\ online /\ ~registered /\ chan = <<>>
  /\ online' = FALSE
  /\ UNCHANGED <<orders, page, reqs, relayQueue, chan, registered, drops, overlapped, missed, ops>>

ConnectionLost ==
  /\ online /\ drops < MaxDrops
  /\ online' = FALSE /\ registered' = FALSE /\ chan' = <<>> /\ drops' = drops + 1
  /\ UNCHANGED <<orders, page, reqs, relayQueue, overlapped, missed, ops>>

\* onopen stops the polling and loads nothing: the page is right from here on
\* only when nothing is under way and its board is right.
Connect ==
  /\ ~online
  /\ online' = TRUE /\ registered' = TRUE
  /\ missed' = (cards # Open(orders) \/ polls # <<>> \/ relayQueue # <<>> \/ \E r \in Reqs : reqs[r] # Idle)
  /\ UNCHANGED <<orders, page, reqs, relayQueue, chan, drops, overlapped, ops>>

\* loadOrders of the timer; the answers of two loads may come in any order.
PollRead ==
  /\ ~online /\ Len(polls) < MaxPolls
  /\ polls' = Append(polls, Open(orders))
  /\ UNCHANGED <<orders, hub, seen, cards, reqs, relayQueue, overlapped, missed, ops>>

\* The cards that the answer leaves out stay.
PollMerged(i) ==
  /\ i \in DOMAIN polls
  /\ cards' = [o \in Orders |-> IF polls[i][o] = "NONE" THEN cards[o] ELSE polls[i][o]]
  /\ polls' = RemoveAt(polls, i)
  /\ UNCHANGED <<orders, hub, seen, reqs, relayQueue, overlapped, missed, ops>>

PollAnswer(i) ==
  /\ i \in DOMAIN polls
  /\ cards' = polls[i]
  /\ polls' = RemoveAt(polls, i)
  /\ UNCHANGED <<orders, hub, seen, reqs, relayQueue, overlapped, missed, ops>>

\* The answer of the PATCH: the page moves the card without waiting for the event.
Answered(r) ==
  /\ reqs[r].pc = "answer"
  /\ cards' = [cards EXCEPT ![reqs[r].order] =
                 IF reqs[r].to \in Final \/ @ = "NONE" THEN "NONE" ELSE reqs[r].to]
  /\ Becomes(r, Idle)
  /\ UNCHANGED <<orders, hub, seen, polls, relayQueue, overlapped, missed, ops>>

--------------------------------------------------------------------------------
RequestSteps(r) ==
  \/ Reload(r) \/ Relay(r) \/ RelayFails(r) \/ Publish(r) \/ PublishFails(r) \/ Answered(r)

BoardNext ==
  \/ \E r \in Reqs, o \in Orders :
       \/ \E by \in {"page", "staff", "core"}, to \in Statuses : Change(r, by, o, to)
       \/ \E by \in {"staff", "worker"} : Create(r, by, o)
       \/ Edit(r, o)
  \/ \E r \in Reqs : RequestSteps(r)
  \/ Bridge \/ Hear \/ Closed \/ ConnectionLost \/ Connect \/ PollRead
  \/ \E e \in seen : ForgetKey(e)
  \/ \E i \in 1..MaxPolls : PollAnswer(i)

BoardSpec == BoardInit /\ [][BoardNext]_boardVars

(* Requests run to their end.  The timer of the page fires while it has no *)
(* socket, and GET /orders is answered in the end; nothing makes the       *)
(* socket come back.                                                       *)
BoardFairSpec ==
  /\ BoardSpec
  /\ \A r \in Reqs : WF_boardVars(RequestSteps(r))
  /\ WF_boardVars(PollRead) /\ WF_boardVars(PollAnswer(1))

--------------------------------------------------------------------------------
Quiet == \A r \in Reqs : reqs[r] = Idle

(* With its socket open the page shows the orders as they are, when what   *)
(* changed them one after the other was relayed in that order and the page *)
(* was there to hear it, or had a true board when it came back: a copy     *)
(* from the queue, later than its event, changes nothing                   *)
(* (shouldHandleWSEvent, handleWSEvent).                                   *)
BoardTrueWhileHeard ==
  online /\ registered /\ Quiet /\ ~overlapped /\ ~missed /\ chan = <<>> /\ Range(relayQueue) \subseteq seen =>
    cards = Open(orders)

(* A page that never gets its socket back shows the orders as they are in  *)
(* the end, whatever it missed and in whatever order its polls are         *)
(* answered ("manter polling de fallback quando o WebSocket cair",         *)
(* docs/kds-websocket-contract.md:157).                                    *)
PollingBoardTrue ==
  <>[](~online) => <>[](cards = Open(orders))
====
