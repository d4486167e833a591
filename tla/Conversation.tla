---- MODULE Conversation ----
(***************************************************************************)
(* The conversation of a guest: webhooks of WhatsApp and their inbox       *)
(* (whatsapp_webhook.go, process_whatsapp_message.go), what the guest      *)
(* writes in the portal (handle_portal_conversation.go), the session in    *)
(* Redis that both lead from state to state up to an order                 *)
(* (handle_whatsapp_message.go, handle_whatsapp_ordering.go), the answers  *)
(* of the staff to a request (process_table_event.go), and the texts that  *)
(* leave through the outbox (module Outbox).                               *)
(*                                                                         *)
(* One guest and one core worker, whose consumers each take one message at *)
(* a time.  The menu has items without options and no categories, so the   *)
(* cart has one line; the tab of a table is that of module TableService,   *)
(* the creation of an order that of TabBilling.                            *)
(***************************************************************************)
EXTENDS Outbox

CONSTANTS
  Messages,     \* ids of WhatsApp messages
  Inputs,       \* messages written in the portal
  Texts,        \* what they may say: numbers, and "code" for the one of the guest's tab
  MaxUnits,     \* bound: units of the cart's line
  Nobody        \* no message

ASSUME MessagesDistinct == Messages \cap Inputs = {} /\ Nobody \notin Messages \cup Inputs

ASSUME SomeUnits == MaxUnits \in Nat \ {0}

\* "none" and "past" stand for a message nobody has looked at yet, or will again.
ASSUME TextsSaid == {"none", "past"} \cap Texts = {}

VARIABLES
  inbox,        \* rows of inbox_events
  text,         \* what each message says, from the first to the last look at it
  publishing,   \* ids the webhook handlers are about to publish
  queue,        \* whatsapp.messages
  portal,       \* portal.conversation.inputs
  answers,      \* admin.table.events
  session,      \* the key in Redis
  tab,          \* of the guest: none, opened by the staff for nobody, the guest's, closed
  request,      \* for a tab
  orders,       \* what was ordered: by which message, from which cart
  doing,        \* of each consumer: its message, its copy of the session, where it is
  shown,        \* units in the cart as the guest was shown it last
  releasing,    \* a closed tab's session is about to be deleted
  listening,    \* the worker's consumers have their connection
  dropped,      \* messages acknowledged, but neither handled nor marked
  again,        \* messages the worker may handle more than once
  mixed         \* two hands were on the session at once, or one fell off it

convVars == <<inbox, text, publishing, queue, portal, answers, session, tab, request,
              orders, doing, shown, releasing, listening, dropped, again, mixed>>

vars == <<convVars, outVars, faults>>

arriving == <<inbox, text, publishing, queue, portal>>
service == <<tab, request, answers, releasing>>

broker == <<listening, dropped>>

Channels == {"whatsapp", "portal", "tables"}

States == {"WELCOME", "WAITING_TAB_CODE", "WAITING_ADMIN_APPROVAL", "MAIN_MENU", "ORDERING",
           "SELECTING_QTY", "CONFIRMING_ORDER", "REMOVING_ORDER_ITEM", "ADJUSTING_ORDER_ITEM",
           "SELECTING_CART_ITEM_QTY"}

InCart == {"ORDERING", "SELECTING_QTY", "CONFIRMING_ORDER", "REMOVING_ORDER_ITEM",
           "ADJUSTING_ORDER_ITEM", "SELECTING_CART_ITEM_QTY"}

NoCart == [line |-> Nobody, units |-> 0]

Sessions == [live: BOOLEAN, state: States,
             cart: [line: Messages \cup Inputs \cup {Nobody}, units: 0..MaxUnits]]

Gone == [live |-> FALSE, state |-> "WELCOME", cart |-> NoCart]

New(state) == [Gone EXCEPT !.live = TRUE, !.state = state]

Idle == [pc |-> "idle", item |-> Nobody, sess |-> Gone]

ConvTypeOK ==
  /\ inbox \in [Messages -> {"NONE", "STORED", "PROCESSED", "FAILED"}]
  /\ text \in [Messages \cup Inputs -> Texts \cup {"none", "past"}]
  /\ publishing \subseteq Messages \cup {Nobody}
  /\ queue \in Seq(Messages \cup {Nobody}) /\ portal \in Seq(Inputs)
  /\ answers \in Seq({"APPROVE", "REJECT"})
  /\ session \in Sessions
  /\ tab \in {"NONE", "FREE", "MINE", "CLOSED"}
  /\ request \in {"NONE", "PENDING", "APPROVED", "REJECTED"}
  /\ orders \in Seq([by: Messages \cup Inputs, cart: BOOLEAN, line: Messages \cup Inputs \cup {Nobody},
                     units: 1..MaxUnits, shown: 0..MaxUnits, mixed: BOOLEAN])
  /\ doing \in [Channels -> [pc: {"idle", "processed", "saved", "APPROVE", "REJECT"},
                           item: Messages \cup Inputs \cup {Nobody}, sess: Sessions]]
  /\ shown \in 0..MaxUnits
  /\ releasing \in BOOLEAN /\ mixed \in BOOLEAN
  /\ listening \in BOOLEAN /\ dropped \subseteq Messages \cup {Nobody}
  /\ again \subseteq Messages \cup Inputs

TypeOK == OutTypeOK /\ ConvTypeOK

Init ==
  /\ OutInit /\ faults = 0
  /\ inbox = [m \in Messages |-> "NONE"]
  /\ text = [m \in Messages \cup Inputs |-> "none"]
  /\ publishing = {} /\ queue = <<>> /\ portal = <<>> /\ answers = <<>>
  /\ \/ session = Gone /\ tab \in {"NONE", "MINE"} /\ request = "NONE"
     \/ session = New("WELCOME") /\ tab \in {"NONE", "FREE"} /\ request = "NONE"
     \/ session = New("WAITING_ADMIN_APPROVAL") /\ tab = "NONE" /\ request = "PENDING"
     \/ /\ tab = "MINE" /\ request = "APPROVED"
        /\ \/ \E state \in {"MAIN_MENU", "ORDERING", "SELECTING_QTY"} : session = New(state)
           \/ \E state \in InCart, n \in 1..MaxUnits :
                session = [New(state) EXCEPT !.cart = [line |-> Nobody, units |-> n]]
  /\ orders = <<>>
  /\ doing = [c \in Channels |-> Idle]
  /\ shown = session.cart.units
  /\ releasing = FALSE /\ again = {} /\ mixed = FALSE
  /\ listening = TRUE /\ dropped = {}

--------------------------------------------------------------------------------
(* What a text leads to: the session, the request, and the units ordered.  *)

Stays(s) == [sess |-> s, request |-> request, ordered |-> 0]

GoesTo(s, state) == Stays([s EXCEPT !.state = state])

\* clearOrderingContext.
Emptied(s) == [s EXCEPT !.cart = NoCart, !.state = "MAIN_MENU"]

BackToMenu(s) == Stays(Emptied(s))

\* resetSessionAccess.
Reset(s) == [s EXCEPT !.cart = NoCart, !.state = "WELCOME"]

\* findSessionOpenTab.
Access == tab = "MINE"

\* startOrderingFlow; the cart stays.
StartOrdering(s) == IF Access THEN GoesTo(s, "ORDERING") ELSE GoesTo(s, "WELCOME")

AsNumber(t) == CASE t = "1" -> 1 [] t = "2" -> 2 [] t = "3" -> 3 [] t = "4" -> 4 [] OTHER -> 0

Least(a, b) == IF a < b THEN a ELSE b

Holding(s, line, n) == [s EXCEPT !.cart = [line |-> line, units |-> n], !.state = "CONFIRMING_ORDER"]

WelcomeMenu(s, t) ==
  CASE t = "1" -> GoesTo(s, "WAITING_TAB_CODE")
    [] t = "2" -> IF request = "PENDING" THEN GoesTo(s, "WAITING_ADMIN_APPROVAL")
                  ELSE [Stays([Reset(s) EXCEPT !.state = "WAITING_ADMIN_APPROVAL"])
                          EXCEPT !.request = "PENDING"]
    [] OTHER -> Stays(s)

TabCode(s, t) ==
  CASE t = "0" -> Stays(Reset(s))
    [] t = "code" /\ tab \in {"FREE", "MINE"} -> GoesTo(s, "MAIN_MENU")
    [] OTHER -> Stays(s)

WaitingAdminApproval(s, t) ==
  IF t = "0" THEN [Stays(Reset(s)) EXCEPT !.request = IF @ = "PENDING" THEN "REJECTED" ELSE @]
  ELSE Stays(s)

\* guardMainMenuAccess, then the options; the last round is that of the last order.
MainMenu(s, t) ==
  CASE request = "PENDING" -> GoesTo(s, "WAITING_ADMIN_APPROVAL")
    [] request # "PENDING" /\ ~Access -> Stays(Reset(s))
    [] request # "PENDING" /\ Access /\ t = "1" -> StartOrdering(s)
    [] request # "PENDING" /\ Access /\ t = "3" /\ orders # <<>> ->
         [Stays(s) EXCEPT !.ordered = Last(orders).units]
    [] OTHER -> Stays(s)

Ordering(s, t) ==
  CASE t = "0" -> BackToMenu(s)
    [] t = "1" -> GoesTo(s, "SELECTING_QTY")
    [] OTHER -> Stays(s)

QuantitySelection(s, t, m) ==
  CASE t = "0" -> BackToMenu(s)
    [] AsNumber(t) > 0 ->
         Stays(Holding(s, IF s.cart.units = 0 THEN m ELSE s.cart.line,
                       Least(MaxUnits, s.cart.units + AsNumber(t))))
    [] OTHER -> Stays(s)

OrderConfirmed(s) == [Stays(Emptied(s)) EXCEPT !.ordered = s.cart.units]

OrderConfirmation(s, t) ==
  CASE t = "0" -> BackToMenu(s)
    [] t = "2" -> StartOrdering(s)
    [] t = "3" -> IF s.cart.units = 0 THEN StartOrdering(s) ELSE GoesTo(s, "REMOVING_ORDER_ITEM")
    [] t = "1" /\ s.cart.units = 0 -> StartOrdering(s)
    [] t = "1" /\ s.cart.units > 0 /\ Access -> OrderConfirmed(s)
    [] t = "1" /\ s.cart.units > 0 /\ ~Access -> GoesTo(Emptied(s), "WELCOME")
    [] OTHER -> Stays(s)

ItemRemoval(s, t) ==
  CASE t = "0" -> BackToMenu(s)
    [] t # "0" /\ s.cart.units = 0 -> StartOrdering(s)
    [] t = "1" /\ s.cart.units > 0 -> GoesTo(s, "ADJUSTING_ORDER_ITEM")
    [] OTHER -> Stays(s)

\* The numbers of the options depend on whether there is one unit or more.
ItemAdjustment(s, t) ==
  LET more == s.cart.units > 1
  IN CASE t = "0" -> BackToMenu(s)
       [] t # "0" /\ s.cart.units = 0 -> StartOrdering(s)
       [] s.cart.units > 0 /\ t = "1" -> Stays(Holding(s, s.cart.line, Least(MaxUnits, s.cart.units + 1)))
       [] more /\ t = "2" -> Stays(Holding(s, s.cart.line, s.cart.units - 1))
       [] s.cart.units > 0 /\ t = (IF more THEN "3" ELSE "2") -> GoesTo(s, "SELECTING_CART_ITEM_QTY")
       [] s.cart.units > 0 /\ t = (IF more THEN "4" ELSE "3") -> StartOrdering([s EXCEPT !.cart = NoCart])
       [] OTHER -> Stays(s)

CartQuantity(s, t) ==
  CASE s.cart.units = 0 -> StartOrdering(s)
    [] s.cart.units > 0 /\ t = "0" -> BackToMenu(s)
    [] s.cart.units > 0 /\ AsNumber(t) > 0 -> Stays(Holding(s, s.cart.line, Least(MaxUnits, AsNumber(t))))
    [] OTHER -> Stays(s)

\* processMessage.
Processed(s, t, m) ==
  CASE s.state = "WELCOME" -> WelcomeMenu(s, t)
    [] s.state = "WAITING_TAB_CODE" -> TabCode(s, t)
    [] s.state = "WAITING_ADMIN_APPROVAL" -> WaitingAdminApproval(s, t)
    [] s.state = "MAIN_MENU" -> MainMenu(s, t)
    [] s.state = "ORDERING" -> Ordering(s, t)
    [] s.state = "SELECTING_QTY" -> QuantitySelection(s, t, m)
    [] s.state = "CONFIRMING_ORDER" -> OrderConfirmation(s, t)
    [] s.state = "REMOVING_ORDER_ITEM" -> ItemRemoval(s, t)
    [] s.state = "ADJUSTING_ORDER_ITEM" -> ItemAdjustment(s, t)
    [] s.state = "SELECTING_CART_ITEM_QTY" -> CartQuantity(s, t)

--------------------------------------------------------------------------------
(* Messages arrive.                                                        *)

StoreTwice(m) ==
  /\ inbox' = [inbox EXCEPT ![m] = "STORED"]
  /\ publishing' = publishing \cup {m}

\* INSERT ... ON CONFLICT DO NOTHING is no error for a copy of a known
\* message: the id of a row that was never written is published.
Store(m) ==
  /\ inbox' = [inbox EXCEPT ![m] = IF @ = "NONE" THEN "STORED" ELSE @]
  /\ publishing' = publishing \cup {IF inbox[m] = "NONE" THEN m ELSE Nobody}

Webhook(m) ==
  /\ \/ inbox[m] = "NONE" /\ UNCHANGED faults
     \/ inbox[m] # "NONE" /\ Fault
  /\ Store(m)
  /\ UNCHANGED <<text, queue, portal, session, service, orders, doing, shown, broker, again, mixed, outVars>>

\* The goroutines of two webhooks may publish in either order.
Publish(m) ==
  /\ m \in publishing
  /\ publishing' = publishing \ {m}
  /\ queue' = Append(queue, m)
  /\ UNCHANGED <<inbox, text, portal, session, service, orders, doing, shown, broker, again, mixed, outVars, faults>>

\* The error is logged, or the process ended.
PublishFails(m) ==
  /\ Fault
  /\ m \in publishing
  /\ publishing' = publishing \ {m}
  /\ UNCHANGED <<inbox, text, queue, portal, session, service, orders, doing, shown, broker, again, mixed, outVars>>

\* sendPortalMessage.
Write(i) ==
  /\ tab = "MINE" /\ text[i] = "none" /\ ~Contains(portal, i)
  /\ portal' = Append(portal, i)
  /\ UNCHANGED <<inbox, text, publishing, queue, session, service, orders, doing, shown, broker, again, mixed, outVars, faults>>

\* retryInboxEvent, of any event.
SupportRetries(m) ==
  /\ Fault
  /\ inbox[m] # "NONE"
  /\ inbox' = [inbox EXCEPT ![m] = "STORED"]
  /\ queue' = Append(queue, m)
  /\ again' = again \cup {m}
  /\ dropped' = dropped \ {m}
  /\ UNCHANGED <<text, publishing, portal, session, service, orders, doing, shown, listening, mixed, outVars>>

--------------------------------------------------------------------------------
(* The consumers of the worker.                                            *)

Holds(c) == doing[c].pc = "processed"

\* Another consumer has read the session and has not written it yet.
Overlaps(c) == \E d \in Channels \ {c} : Holds(d)

Known(m) == m \in Messages /\ inbox[m] # "PROCESSED"

Says(m, t) == t \in Texts /\ text[m] \in {"none", t}

\* The session is read, what the text leads to is done, and the copy changed;
\* a session that is not there is opened with the welcome menu, whatever the
\* text says.
Process(c, m, t, s) ==
  LET outcome == IF s.live THEN Processed(s, t, m) ELSE Stays(New("WELCOME"))
      confirms == s.state = "CONFIRMING_ORDER"
  IN /\ text' = [text EXCEPT ![m] = t]
     /\ doing' = [doing EXCEPT ![c] = [pc |-> "processed", item |-> m, sess |-> outcome.sess]]
     /\ request' = outcome.request
     /\ tab' = IF s.live /\ s.state = "WAITING_TAB_CODE" /\ t = "code" /\ tab = "FREE" THEN "MINE" ELSE tab
     /\ mixed' = (mixed \/ Overlaps(c))
     /\ orders' = IF outcome.ordered = 0 THEN orders
                  ELSE Append(orders, [by |-> m, units |-> outcome.ordered,
                                       cart |-> confirms, line |-> s.cart.line,
                                       shown |-> IF confirms THEN shown ELSE outcome.ordered,
                                       mixed |-> mixed'])

\* FindByID and the check of what was processed.
Take ==
  /\ listening /\ doing["whatsapp"] = Idle /\ queue # <<>>
  /\ queue' = Tail(queue)
  /\ IF Known(Head(queue))
       THEN \E t \in Texts : Says(Head(queue), t) /\ Process("whatsapp", Head(queue), t, session)
       ELSE UNCHANGED <<text, doing, request, tab, mixed, orders>>
  /\ UNCHANGED <<inbox, publishing, portal, session, answers, releasing, shown, broker, again, outVars, faults>>

\* The row cannot be read, or not marked as failed: the error is logged, and
\* the message is acknowledged all the same.
TakeFails ==
  /\ Fault
  /\ listening /\ doing["whatsapp"] = Idle /\ queue # <<>> /\ Known(Head(queue))
  /\ queue' = Tail(queue)
  /\ dropped' = dropped \cup {Head(queue)}
  /\ UNCHANGED <<inbox, text, publishing, portal, session, service, orders, doing, shown, listening, again, mixed, outVars>>

MarkedNothing(m) == inbox

\* No tenant for the number: MarkAsFailed, and the message is acknowledged.
MarkedFailed(m) == [inbox EXCEPT ![m] = "FAILED"]

Unknown ==
  /\ Fault
  /\ listening /\ doing["whatsapp"] = Idle /\ queue # <<>> /\ Known(Head(queue))
  /\ queue' = Tail(queue)
  /\ inbox' = MarkedFailed(Head(queue))
  /\ UNCHANGED <<text, publishing, portal, session, service, orders, doing, shown, broker, again, mixed, outVars>>

\* ExecutePortal: refused when the tab is not open; the session is the guest's.
PortalSession == IF ~session.live THEN New("MAIN_MENU")
                 ELSE IF session.state = "WELCOME" THEN [session EXCEPT !.state = "MAIN_MENU"]
                 ELSE session

TakeInput ==
  /\ listening /\ doing["portal"] = Idle /\ portal # <<>>
  /\ portal' = Tail(portal)
  /\ IF tab = "MINE"
       THEN \E t \in Texts : Says(Head(portal), t) /\ Process("portal", Head(portal), t, PortalSession)
       ELSE /\ text' = [text EXCEPT ![Head(portal)] = "past"]
            /\ UNCHANGED <<doing, request, tab, mixed, orders>>
  /\ UNCHANGED <<inbox, publishing, queue, session, answers, releasing, shown, broker, again, outVars, faults>>

\* A message of the portal is done with, unless it is back in its queue; a
\* WhatsApp message is to be marked.
Ends(c) ==
  /\ doing' = IF c = "whatsapp" THEN [doing EXCEPT ![c].pc = "saved", ![c].sess = Gone] ELSE [doing EXCEPT ![c] = Idle]
  /\ text' = IF c = "portal" /\ doing[c].item \notin again
              THEN [text EXCEPT ![doing[c].item] = "past"] ELSE text

\* presentCartConfirmation.
Showing(s) == IF s.state = "CONFIRMING_ORDER" THEN s.cart.units ELSE shown

\* A menu goes to the API at once; a text, or a menu that was refused, is
\* left to the outbox.
Sends(state) ==
  \/ UNCHANGED <<outVars, faults>> /\ (state = "WAITING_TAB_CODE" => Free = {})
  \/ SendText /\ (state # "WAITING_TAB_CODE" => Fault) /\ (state = "WAITING_TAB_CODE" => UNCHANGED faults)

\* Mutant of Kept: the state is written, the cart is not.
KeptState(s) == [session EXCEPT !.live = TRUE, !.state = s.state]

Kept(s) == s

\* The answer, then the session.
SaveSession(c) ==
  /\ Holds(c)
  /\ IF c = "portal" THEN UNCHANGED <<outVars, faults>> ELSE Sends(doing[c].sess.state)
  /\ shown' = Showing(doing[c].sess)
  /\ session' = Kept(doing[c].sess)
  /\ Ends(c)
  /\ UNCHANGED <<inbox, publishing, queue, portal, service, orders, broker, again, mixed>>

\* The answer cannot be sent, or the session not written: what was done
\* stays, the session does not change, and a WhatsApp message counts as
\* processed all the same.
AnswerFails(c) ==
  /\ Fault
  /\ Holds(c)
  /\ shown' \in {shown, Showing(doing[c].sess)}
  /\ Ends(c)
  /\ mixed' = TRUE
  /\ UNCHANGED <<inbox, publishing, queue, portal, session, service, orders, broker, again, outVars>>

MarkAsProcessed ==
  /\ doing["whatsapp"].pc = "saved"
  /\ inbox' = [inbox EXCEPT ![doing["whatsapp"].item] = "PROCESSED"]
  /\ doing' = [doing EXCEPT !["whatsapp"] = Idle]
  /\ UNCHANGED <<text, publishing, queue, portal, session, service, orders, shown, broker, again, mixed, outVars, faults>>

\* The error of the mark is logged, and the message acknowledged.
MarkFails ==
  /\ Fault
  /\ doing["whatsapp"].pc = "saved"
  /\ dropped' = dropped \cup {doing["whatsapp"].item}
  /\ doing' = [doing EXCEPT !["whatsapp"] = Idle]
  /\ UNCHANGED <<inbox, text, publishing, queue, portal, session, service, orders, shown, listening, again, mixed, outVars>>

Back(c, q) == IF doing[c].item = Nobody THEN q ELSE <<doing[c].item>> \o q

\* What was not acknowledged is delivered again.
Redelivered ==
  /\ queue' = Back("whatsapp", queue) /\ portal' = Back("portal", portal)
  /\ again' = again \cup ({doing["whatsapp"].item, doing["portal"].item} \ {Nobody})

NoneDoing == doing' = [c \in Channels |-> Idle]

WorkerDies ==
  /\ Fault
  /\ listening /\ \E c \in Channels : doing[c] # Idle
  /\ Redelivered /\ NoneDoing
  /\ mixed' = TRUE
  /\ UNCHANGED <<inbox, text, publishing, session, service, orders, shown, broker, outVars>>

\* The loops over the messages end after the one at hand; there is another
\* connection soon, but nobody consumes from it.
ConnectionLost ==
  /\ Fault
  /\ listening /\ listening' = FALSE
  /\ Redelivered
  /\ UNCHANGED <<inbox, text, publishing, session, service, orders, doing, shown, dropped, mixed, outVars>>

WorkerRestarts ==
  /\ ~listening /\ listening' = TRUE
  /\ mixed' = (mixed \/ \E c \in Channels : doing[c] # Idle)
  /\ NoneDoing
  /\ UNCHANGED <<arriving, session, service, orders, shown, dropped, again, outVars, faults>>

--------------------------------------------------------------------------------
(* The staff.                                                              *)

AnswerRequest(answer) ==
  /\ request = "PENDING" /\ answers = <<>>
  /\ answers' = <<answer>>
  /\ UNCHANGED <<arriving, session, tab, request, orders, doing, shown, releasing, broker, again, mixed, outVars, faults>>

\* approveRequest and rejectRequest: the rows first, of a request that waits.
TakeAnswer ==
  /\ listening /\ doing["tables"] = Idle /\ answers # <<>>
  /\ answers' = <<>>
  /\ IF request = "PENDING"
       THEN /\ request' = IF answers[1] = "APPROVE" THEN "APPROVED" ELSE "REJECTED"
            /\ tab' = IF answers[1] = "APPROVE" THEN "MINE" ELSE tab
            /\ doing' = [doing EXCEPT !["tables"].pc = answers[1]]
       ELSE UNCHANGED <<request, tab, doing>>
  /\ UNCHANGED <<arriving, session, orders, shown, releasing, broker, again, mixed, outVars, faults>>

Admitted(s) == [s EXCEPT !.state = "MAIN_MENU"]

\* Then the session, if there is one, and the message.
TellAnswer ==
  /\ doing["tables"].pc \in {"APPROVE", "REJECT"}
  /\ doing' = [doing EXCEPT !["tables"] = Idle]
  /\ session' = IF ~session.live THEN session
                ELSE IF doing["tables"].pc = "APPROVE" THEN Admitted(session) ELSE Reset(session)
  /\ mixed' = (mixed \/ Overlaps("tables"))
  /\ Sends(IF doing["tables"].pc = "APPROVE" THEN "MAIN_MENU" ELSE "WAITING_TAB_CODE")
  /\ UNCHANGED <<arriving, service, orders, shown, broker, again>>

\* Closing the tab, and the call that deletes the session afterwards.
CloseTab ==
  /\ tab \in {"FREE", "MINE"}
  /\ tab' = "CLOSED" /\ releasing' = TRUE
  /\ UNCHANGED <<arriving, session, request, answers, orders, doing, shown, broker, again, mixed, outVars, faults>>

ReleaseSession ==
  /\ releasing
  /\ releasing' = FALSE
  /\ session' = Gone
  /\ mixed' = (mixed \/ \E c \in Channels : Holds(c))
  /\ UNCHANGED <<arriving, tab, request, answers, orders, doing, shown, broker, again, outVars, faults>>

ReleaseFails ==
  /\ Fault
  /\ releasing /\ releasing' = FALSE
  /\ UNCHANGED <<arriving, session, tab, request, answers, orders, doing, shown, broker, again, mixed, outVars>>

--------------------------------------------------------------------------------
ConvNext ==
  \/ \E m \in Messages : Webhook(m) \/ SupportRetries(m)
  \/ \E m \in Messages \cup {Nobody} : Publish(m) \/ PublishFails(m)
  \/ \E i \in Inputs : Write(i)
  \/ Take \/ TakeFails \/ Unknown \/ TakeInput \/ MarkAsProcessed \/ MarkFails
  \/ WorkerDies \/ ConnectionLost \/ WorkerRestarts
  \/ \E c \in Channels : SaveSession(c) \/ AnswerFails(c)
  \/ \E answer \in {"APPROVE", "REJECT"} : AnswerRequest(answer)
  \/ TakeAnswer \/ TellAnswer \/ CloseTab \/ ReleaseSession \/ ReleaseFails

Next == ConvNext \/ (OutNext /\ UNCHANGED convVars)

Spec == Init /\ [][Next]_vars

(* A consumer that has its connection goes on as long as there is          *)
(* something to take; nobody has to write, to answer, to close or to       *)
(* restart a worker.                                                       *)
FairSpec ==
  /\ Spec /\ OutFair
  /\ WF_vars(Take \/ SaveSession("whatsapp") \/ MarkAsProcessed)

--------------------------------------------------------------------------------
(* A message of the guest leads to at most one order, whatever copies of   *)
(* its webhook follow and however the channels overlap, unless the worker  *)
(* died over it or the support asked to handle it again (Store,            *)
(* process_whatsapp_message.go).                                           *)
OneOrderPerMessage ==
  \A i, j \in 1..Len(orders) : orders[i].by = orders[j].by /\ orders[i].by \notin again => i = j

(* A cart is ordered once, and as the guest was shown it last, in          *)
(* whichever channel, as long as one hand at a time was on the session and *)
(* none fell off it: the confirmation empties the cart, and both channels  *)
(* share it (handleOrderConfirmation, presentCartConfirmation, Save).      *)
AloneOrderedOnce ==
  \A i, j \in 1..Len(orders) :
    ~orders[i].mixed /\ ~orders[j].mixed =>
      /\ orders[i].units = orders[i].shown
      /\ /\ orders[i].cart /\ orders[j].cart
         /\ orders[i].line = orders[j].line /\ orders[i].line \notin again
         => i = j

(* What was published is processed or marked as failed, although the       *)
(* worker may die and errors of the handlers are only logged: once the     *)
(* consumers keep their connection (Consume never subscribes again), all   *)
(* but the events whose row could not be read or marked, which Consume     *)
(* acknowledges with the others.                                           *)
EventSettles ==
  <>[]listening =>
    \A m \in Messages : (\E i \in 1..Len(queue) : queue[i] = m) ~>
                          (inbox[m] \in {"PROCESSED", "FAILED"} \/ m \in dropped)

(* Both ways of a conversation come to an end: what the customer wrote and *)
(* what is to be sent (OutboxSettles).                                     *)
ConversationSettles == EventSettles /\ OutboxSettles
================================================================================
