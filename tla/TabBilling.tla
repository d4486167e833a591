---- MODULE TabBilling ----
(***************************************************************************)
(* The money of one tab: orders that guests, staff and the WhatsApp        *)
(* conversation add to it, payments at Mercado Pago, the polls and the     *)
(* webhooks that bring their result back, and the closing that bills what  *)
(* is left (tables.service.ts, payment_handler.go, create_order.go,        *)
(* reconcile_payment_webhook.go).                                          *)
(*                                                                         *)
(* Every actor runs one operation at a time, a database statement or a     *)
(* call to the provider per step.  An order costs one unit; the service    *)
(* fee, in proportion to the orders, is left out.                          *)
(***************************************************************************)
EXTENDS Naturals, Sequences, FiniteSets

CONSTANTS
  Orders, Payments,     \* numbered as they are created
  Guests,       \* pages of the checkout and of the portal
  Staff,        \* users of the panel
  Chats,        \* core processes that carry out orders of the conversation
  Workers,      \* consumers of payment.webhooks
  NoPayment,
  MaxOps,       \* bound: operations begun, polls not counted
  MaxWebhooks   \* bound: messages in payment.webhooks

ASSUME Numbered ==
  /\ Orders \subseteq Nat /\ Payments \subseteq Nat /\ NoPayment \notin Payments
  /\ IsFiniteSet(Orders) /\ IsFiniteSet(Payments)

ASSUME BoundsAssumption == MaxOps \in Nat /\ MaxWebhooks \in Nat

VARIABLES
  tab,          \* the row of the tab
  orders,       \* status of each order, and whether it was placed under the tab's lock
  payments,     \* the rows of payments with the attempt of each
  provider,     \* what Mercado Pago knows of each payment
  manual,       \* money recorded as received by hand
  closedBy,     \* source of the last closing
  claimed,      \* closed_notified_at is set
  told,         \* closing messages put into the outbox
  webhooks,     \* the queue payment.webhooks
  polling,      \* the payment a page asks for
  doing,        \* what each actor is doing
  ops

vars == <<tab, orders, payments, provider, manual, closedBy, claimed, told,
          webhooks, polling, doing, ops>>

bill == <<orders, manual, closedBy>>          \* changed by orders and closings only
notice == <<claimed, told>>
outside == <<provider, webhooks>>

Actors == Guests \cup Staff \cup Chats \cup Workers

NewTab == [status |-> "OPEN", total |-> 0, paid |-> 0, exit |-> FALSE]

Idle == [pc |-> "idle", then |-> "idle", pay |-> NoPayment, row |-> NewTab,
         sum |-> 0, answer |-> "none", source |-> "none", settled |-> FALSE]

Answers == {"none", "pending", "approved", "rejected"}
Sources == {"none", "MANUAL_SETTLEMENT", "EXIT_QR", "PAYMENT_APPROVED", "SHIFT_CLOSE"}
Amounts == 0..Cardinality(Orders)

Tab == [status: {"OPEN", "CLOSED"}, total: Amounts, paid: Nat, exit: BOOLEAN]
Order == [status: {"NONE", "ACTIVE", "DELIVERED", "CANCELED"}, locked: BOOLEAN]
Payment == [amount: Amounts,
            status: {"NONE", "PENDING", "CONFIRMED", "CANCELED"},
            attempt: {"CREATED", "UNKNOWN", "ERROR", "PENDING", "APPROVED", "REJECTED"},
            known: BOOLEAN, settled: BOOLEAN]
Operation == [pc: {"idle", "writeBack", "ordering", "reload", "recount", "recounted",
                   "chatInsert", "chatSave", "create", "call", "apply", "ask", "record",
                   "lock", "close", "claim", "tell", "settled", "exit", "leave", "reconcile"},
              then: {"idle", "create", "ask", "exit"},
              pay: Payments \cup {NoPayment}, row: Tab, sum: Amounts,
              answer: Answers, source: Sources, settled: BOOLEAN]

TypeOK ==
  /\ tab \in Tab
  /\ orders \in [Orders -> Order]
  /\ payments \in [Payments -> Payment]
  /\ provider \in [Payments -> Answers]
  /\ manual \in Nat /\ told \in Nat /\ claimed \in BOOLEAN
  /\ closedBy \in Sources
  /\ webhooks \in Seq(Payments)
  /\ polling \in [Guests -> Payments \cup {NoPayment}]
  /\ doing \in [Actors -> Operation]
  /\ ops \in 0..MaxOps

Owed == Cardinality({o \in Orders : orders[o].status \in {"ACTIVE", "DELIVERED"}})

\* The next one to be created.
NewOrder(o) == orders[o].status = "NONE" /\ \A q \in Orders : q < o => orders[q].status # "NONE"

NewPayment(p) == payments[p].status = "NONE" /\ \A q \in Payments : q < p => payments[q].status # "NONE"

Init ==
  /\ \E placed \in {{}, {1}, Orders} :        \* what was ordered before
       orders = [o \in Orders |-> IF o \in placed THEN [status |-> "DELIVERED", locked |-> TRUE]
                                  ELSE [status |-> "NONE", locked |-> FALSE]]
  /\ tab = [NewTab EXCEPT !.total = Owed]
  /\ payments = [p \in Payments |-> [amount |-> 0, status |-> "NONE", attempt |-> "CREATED",
                                     known |-> FALSE, settled |-> FALSE]]
  /\ provider = [p \in Payments |-> "none"]
  /\ manual = 0 /\ closedBy = "none" /\ claimed = FALSE /\ told = 0
  /\ webhooks = <<>>
  /\ polling = [g \in Guests |-> NoPayment]
  /\ doing = [a \in Actors |-> Idle]
  /\ ops = 0

--------------------------------------------------------------------------------
\* The row of the tab is locked by an order being placed or by a closing.
Locked == \E a \in Actors : doing[a].pc \in {"ordering", "close"}

Least0(n, m) == IF n > m THEN n - m ELSE 0

Larger(n, m) == IF n > m THEN n ELSE m

\* What some payments come to, counted unit by unit (an amount is never more
\* than the orders cost).
AmountOf(ps) == Cardinality({unit \in ps \X (1..Cardinality(Orders)) : unit[2] <= payments[unit[1]].amount})

ConfirmedOnline == AmountOf({p \in Payments : payments[p].status = "CONFIRMED"})

Confirmed == manual + ConfirmedOnline

\* reconcileTabFinancialSnapshot: what the orders and the payments add up to.
Snapshot == [tab EXCEPT !.total = Owed, !.paid = Larger(tab.paid, Confirmed)]

Due(row) == IF row.status = "CLOSED" THEN 0 ELSE Least0(row.total, row.paid)

AsPaymentUnlessRefused(answer) == IF answer = "rejected" THEN "CANCELED" ELSE "CONFIRMED"

\* mapProviderStatusToPaymentStatus and ...ToAttemptStatus.
AsPayment(answer) == CASE answer = "approved" -> "CONFIRMED"
                       [] answer = "rejected" -> "CANCELED"
                       [] OTHER -> "PENDING"

AsAttempt(answer) == CASE answer = "approved" -> "APPROVED"
                       [] answer = "rejected" -> "REJECTED"
                       [] OTHER -> "PENDING"

\* isPendingPaymentStillActive.
StillActive(p) == payments[p].status = "PENDING" /\ payments[p].attempt # "REJECTED"

Goto(a, what) == doing' = [doing EXCEPT ![a] = what]

Begins(a) == doing[a] = Idle /\ ops < MaxOps /\ ops' = ops + 1

\* An operation that closes the tab, with the payment it is about.
Closing(p, source) == [Idle EXCEPT !.pc = "lock", !.pay = p, !.source = source]

--------------------------------------------------------------------------------
(* The page loads the tab: its row, then the sums, which are written when  *)
(* they differ from what the row held; then it goes on with what it came   *)
(* for.                                                                    *)
LoadTab(a, d) ==
  LET changed == Snapshot.total # tab.total \/ Snapshot.paid # tab.paid
  IN  Goto(a, [d EXCEPT !.pc = IF changed THEN "writeBack" ELSE d.then,
                        !.row = IF d.then = "idle" /\ ~changed THEN NewTab ELSE Snapshot])

WriteBack(a) ==
  /\ doing[a].pc = "writeBack" /\ ~Locked
  /\ tab' = [tab EXCEPT !.total = doing[a].row.total, !.paid = doing[a].row.paid]
  /\ Goto(a, IF doing[a].then = "idle" THEN Idle ELSE [doing[a] EXCEPT !.pc = doing[a].then])
  /\ UNCHANGED <<bill, notice, outside, payments, polling, ops>>

TabFreeAlways == TRUE

(* createPortalOrder and createManualOrder hold the tab's row from the     *)
(* check of its status to the commit.                                      *)
TabFree == ~Locked

OrderLock(a) ==
  /\ Begins(a) /\ TabFree
  /\ tab.status = "OPEN"
  /\ Goto(a, [Idle EXCEPT !.pc = "ordering"])
  /\ UNCHANGED <<tab, bill, notice, outside, payments, polling>>

OrderCommit(a, o) ==
  /\ doing[a].pc = "ordering" /\ NewOrder(o)
  /\ orders' = [orders EXCEPT ![o] = [status |-> "ACTIVE", locked |-> TRUE]]
  /\ Goto(a, [Idle EXCEPT !.pc = IF a \in Guests THEN "reload" ELSE "recount"])
  /\ UNCHANGED <<tab, manual, closedBy, notice, outside, payments, polling, ops>>

\* An item is not available any more: the order, or the one of the
\* conversation, is refused.
OrderRefused(a) ==
  /\ doing[a].pc \in {"ordering", "chatInsert"}
  /\ Goto(a, Idle)
  /\ UNCHANGED <<tab, bill, notice, outside, payments, polling, ops>>

Reload(a) ==
  /\ doing[a].pc = "reload"
  /\ LoadTab(a, Idle)
  /\ UNCHANGED <<tab, bill, notice, outside, payments, polling, ops>>

\* recalculateTabTotals, after an order of the panel: the total alone.
Recount(a) ==
  /\ doing[a].pc = "recount"
  /\ Goto(a, [Idle EXCEPT !.pc = "recounted", !.sum = Owed])
  /\ UNCHANGED <<tab, bill, notice, outside, payments, polling, ops>>

Recounted(a) ==
  /\ doing[a].pc = "recounted" /\ ~Locked
  /\ tab' = [tab EXCEPT !.total = doing[a].sum]
  /\ Goto(a, Idle)
  /\ UNCHANGED <<bill, notice, outside, payments, polling, ops>>

(* create_order.go locks nothing: it reads the tab, inserts the order and  *)
(* saves the whole row it read with the new total.                         *)
ChatRead(c) ==
  /\ Begins(c) /\ tab.status = "OPEN"
  /\ Goto(c, [Idle EXCEPT !.pc = "chatInsert", !.row = tab])
  /\ UNCHANGED <<tab, bill, notice, outside, payments, polling>>

ChatInsert(c, o) ==
  /\ doing[c].pc = "chatInsert" /\ NewOrder(o)
  /\ orders' = [orders EXCEPT ![o].status = "ACTIVE"]
  /\ Goto(c, [doing[c] EXCEPT !.pc = "chatSave"])
  /\ UNCHANGED <<tab, manual, closedBy, notice, outside, payments, polling, ops>>

ChatSave(c) ==
  /\ doing[c].pc = "chatSave" /\ ~Locked
  /\ tab' = [doing[c].row EXCEPT !.total = @ + 1]
  /\ Goto(c, Idle)
  /\ UNCHANGED <<bill, notice, outside, payments, polling, ops>>

\* The kitchen delivers an order, or it is cancelled.
OrderEnds(o) ==
  /\ ops < MaxOps /\ ops' = ops + 1
  /\ orders[o].status = "ACTIVE"
  /\ \E status \in {"DELIVERED", "CANCELED"} : orders' = [orders EXCEPT ![o].status = status]
  /\ UNCHANGED <<tab, manual, closedBy, notice, outside, payments, polling, doing>>

--------------------------------------------------------------------------------
(* createPublicPixPayment and createPublicCardPayment.  The panel's        *)
(* retryPaymentAsPix takes the sums as they are stored, and looks for      *)
(* another payment still active.                                           *)
Pay(g) ==
  /\ Begins(g)
  /\ LoadTab(g, [Idle EXCEPT !.then = "create"])
  /\ UNCHANGED <<tab, bill, notice, outside, payments, polling>>

Retry(s, p) ==
  /\ payments[p].status # "NONE" /\ payments[p].status # "CONFIRMED" /\ ~StillActive(p)
  /\ ~\E q \in Payments \ {p} : StillActive(q)
  /\ Begins(s)
  /\ Goto(s, [Idle EXCEPT !.pc = "create", !.row = tab])
  /\ UNCHANGED <<tab, bill, notice, outside, payments, polling>>

CreatePayment(a) ==
  /\ doing[a].pc = "create"
  /\ \/ Goto(a, Idle) /\ UNCHANGED payments         \* nothing is due, or the insert fails
     \/ \E p \in Payments :
            /\ Due(doing[a].row) > 0 /\ NewPayment(p)
            /\ payments' = [payments EXCEPT ![p].amount = Due(doing[a].row), ![p].status = "PENDING"]
            /\ Goto(a, [Idle EXCEPT !.pc = "call", !.pay = p])
  /\ UNCHANGED <<tab, bill, notice, outside, polling, ops>>

\* The page asks for the payment from then on.
PageGets(a, p) == polling' = IF a \in Guests THEN [polling EXCEPT ![a] = p] ELSE polling

\* Only a card, which a guest pays with, is decided at once.
CallAnswered(a) ==
  LET p == doing[a].pay IN
  /\ doing[a].pc = "call"
  /\ \E answer \in Answers \ {"none"} :
       /\ a \in Guests \/ answer = "pending"
       /\ provider' = [provider EXCEPT ![p] = answer]
       /\ Goto(a, [doing[a] EXCEPT !.pc = "apply", !.answer = answer])
  /\ UNCHANGED <<tab, bill, notice, webhooks, payments, polling, ops>>

\* A timeout: the provider may have the payment or not.
CallTimesOut(a) ==
  LET p == doing[a].pay IN
  /\ doing[a].pc = "call"
  /\ \E answer \in {"none", "pending"} : provider' = [provider EXCEPT ![p] = answer]
  /\ payments' = [payments EXCEPT ![p].attempt = "UNKNOWN"]
  /\ PageGets(a, p)
  /\ Goto(a, Idle)
  /\ UNCHANGED <<tab, bill, notice, webhooks, ops>>

CallFails(a) ==
  /\ doing[a].pc = "call"
  /\ payments' = [payments EXCEPT ![doing[a].pay].attempt = "ERROR"]
  /\ Goto(a, Idle)
  /\ UNCHANGED <<tab, bill, notice, outside, polling, ops>>

\* The attempt and the payment are saved as the answer has them.
Saved(p, answer, settled) ==
  [payments EXCEPT ![p].status = AsPayment(answer), ![p].attempt = AsAttempt(answer),
                   ![p].known = TRUE, ![p].settled = settled]

ApplyAnswer(a) ==
  LET p == doing[a].pay
      answer == doing[a].answer
  IN  /\ doing[a].pc = "apply"
      /\ payments' = Saved(p, answer, FALSE)
      /\ CASE answer = "pending" -> PageGets(a, p)
           [] answer = "approved" -> PageGets(a, NoPayment)
           [] OTHER -> UNCHANGED polling
      /\ Goto(a, IF answer = "approved" THEN Closing(NoPayment, "MANUAL_SETTLEMENT") ELSE Idle)
      /\ UNCHANGED <<tab, bill, notice, outside, ops>>

--------------------------------------------------------------------------------
(* getPublicPaymentStatus, which the page calls every five seconds, and    *)
(* refreshPaymentStatus of the panel.                                      *)
Poll(g) ==
  /\ doing[g] = Idle /\ polling[g] # NoPayment
  /\ LoadTab(g, [Idle EXCEPT !.then = "ask", !.pay = polling[g]])
  /\ UNCHANGED <<tab, bill, notice, outside, payments, polling, ops>>

Refresh(s, p) ==
  /\ payments[p].status # "NONE"
  /\ Begins(s)
  /\ Goto(s, [Idle EXCEPT !.pc = "ask", !.pay = p])
  /\ UNCHANGED <<tab, bill, notice, outside, payments, polling>>

FindableById(p) == provider[p] # "none" /\ payments[p].known

\* By the provider's id or, when it is not known, by the external reference.
Findable(p) == provider[p] # "none"

NothingDue(a) == a \in Guests /\ Due(doing[a].row) = 0

AskNothing(a) ==
  /\ doing[a].pc = "ask" /\ NothingDue(a)
  /\ PageGets(a, NoPayment)
  /\ Goto(a, Idle)
  /\ UNCHANGED <<tab, bill, notice, outside, payments, ops>>

AskAnswered(a) ==
  LET p == doing[a].pay IN
  /\ doing[a].pc = "ask" /\ ~NothingDue(a)
  /\ Findable(p)
  /\ Goto(a, [doing[a] EXCEPT !.pc = "record", !.answer = provider[p],
                              !.settled = payments[p].settled])
  /\ UNCHANGED <<tab, bill, notice, outside, payments, polling, ops>>

\* No answer: the payment is approved when its row says so.
AskFails(a) ==
  /\ doing[a].pc = "ask" /\ ~NothingDue(a)
  /\ Goto(a, IF a \in Guests /\ payments[doing[a].pay].status = "CONFIRMED"
             THEN Closing(NoPayment, "MANUAL_SETTLEMENT") ELSE Idle)
  /\ UNCHANGED <<tab, bill, notice, outside, payments, polling, ops>>

RecordAnswer(a) ==
  LET answer == doing[a].answer IN
  /\ doing[a].pc = "record"
  /\ payments' = Saved(doing[a].pay, answer, doing[a].settled)
  /\ IF answer = "pending" THEN UNCHANGED polling ELSE PageGets(a, NoPayment)
  /\ Goto(a, IF a \in Guests /\ answer = "approved"
             THEN Closing(NoPayment, "MANUAL_SETTLEMENT") ELSE Idle)
  /\ UNCHANGED <<tab, bill, notice, outside, ops>>

--------------------------------------------------------------------------------
(* finalizeTabInternal.  Under the tab's lock the sums are taken again and *)
(* what no payment covers is recorded as received by hand; after the       *)
(* commit the guest is told, once.                                         *)
SettleByHand(s) ==
  /\ Begins(s)
  /\ Goto(s, Closing(NoPayment, "MANUAL_SETTLEMENT"))
  /\ UNCHANGED <<tab, bill, notice, outside, payments, polling>>

CloseLock(a) ==
  /\ doing[a].pc = "lock" /\ ~Locked
  /\ Goto(a, [doing[a] EXCEPT !.pc = "close", !.row = Snapshot,
                              !.sum = IF doing[a].source = "PAYMENT_APPROVED" THEN 0
                                      ELSE Least0(Owed, Confirmed)])
  /\ UNCHANGED <<tab, bill, notice, outside, payments, polling, ops>>

CloseCommit(a) ==
  LET row == doing[a].row IN
  /\ doing[a].pc = "close"
  /\ IF row.status = "CLOSED"
     THEN tab' = row /\ UNCHANGED bill
     ELSE /\ tab' = [row EXCEPT !.status = "CLOSED", !.paid = Larger(row.total, row.paid)]
          /\ manual' = manual + doing[a].sum
          /\ closedBy' = doing[a].source
          /\ UNCHANGED orders
  /\ Goto(a, [doing[a] EXCEPT !.pc = "claim", !.row = NewTab, !.sum = 0])
  /\ UNCHANGED <<notice, outside, payments, polling, ops>>

\* What follows a closing: the exit is validated, the worker has its answer.
AfterClosing(a) ==
  CASE a \in Workers -> [doing[a] EXCEPT !.pc = "settled"]
    [] a \notin Workers /\ doing[a].source = "EXIT_QR" -> [Idle EXCEPT !.pc = "leave"]
    [] OTHER -> Idle

\* UPDATE ... WHERE closed_notified_at IS NULL RETURNING.
Unclaimed == ~claimed

Claim(a) ==
  /\ doing[a].pc = "claim" /\ ~Locked
  /\ claimed' = TRUE
  /\ Goto(a, IF Unclaimed THEN [doing[a] EXCEPT !.pc = "tell"] ELSE AfterClosing(a))
  /\ UNCHANGED <<tab, bill, told, outside, payments, polling, ops>>

Tell(a) ==
  /\ doing[a].pc = "tell"
  /\ \/ told' = told + 1 /\ UNCHANGED claimed
     \/ claimed' = FALSE /\ UNCHANGED told       \* the insert failed
  /\ Goto(a, AfterClosing(a))
  /\ UNCHANGED <<tab, bill, outside, payments, polling, ops>>

(* validatePublicExit.                                                     *)
Exit(g) ==
  /\ Begins(g)
  /\ LoadTab(g, [Idle EXCEPT !.then = "exit"])
  /\ UNCHANGED <<tab, bill, notice, outside, payments, polling>>

MayLeave(row) ==
  /\ ~tab.exit /\ Due(row) = 0
  /\ \A o \in Orders : orders[o].status # "ACTIVE"
  /\ \A p \in Payments : payments[p].status # "PENDING"
                         /\ ~(payments[p].status # "NONE" /\ payments[p].attempt = "PENDING")

ExitCheck(g) ==
  LET row == doing[g].row IN
  /\ doing[g].pc = "exit"
  /\ Goto(g, CASE ~MayLeave(row) -> Idle
               [] MayLeave(row) /\ row.status = "CLOSED" -> [Idle EXCEPT !.pc = "leave"]
               [] OTHER -> Closing(NoPayment, "EXIT_QR"))
  /\ UNCHANGED <<tab, bill, notice, outside, payments, polling, ops>>

Leave(g) ==
  /\ doing[g].pc = "leave" /\ ~Locked
  /\ tab' = [tab EXCEPT !.exit = TRUE]
  /\ Goto(g, Idle)
  /\ UNCHANGED <<bill, notice, outside, payments, polling, ops>>

\* reopenTab refuses a tab that is paid for.
Reopen(s) ==
  /\ doing[s] = Idle /\ ops < MaxOps /\ ops' = ops + 1
  /\ ~Locked /\ tab.status = "CLOSED"
  /\ tab.total = 0 \/ Larger(tab.paid, Confirmed) < tab.total
  /\ tab' = [tab EXCEPT !.status = "OPEN"]
  /\ UNCHANGED <<bill, notice, outside, payments, polling, doing>>

\* autoCloseTabOnShiftClose takes the sums as they are stored.
ShiftClose(s) ==
  /\ doing[s] = Idle /\ ops < MaxOps /\ ops' = ops + 1
  /\ ~Locked /\ tab.status = "OPEN" /\ tab.total <= tab.paid
  /\ tab' = [tab EXCEPT !.status = "CLOSED"]
  /\ closedBy' = "SHIFT_CLOSE"
  /\ UNCHANGED <<orders, manual, notice, outside, payments, polling, doing>>

--------------------------------------------------------------------------------
(* Mercado Pago decides and calls the webhook, again and again, which      *)
(* queues what it can find and drops the rest.  A worker's death brings    *)
(* its message back, as another call does.                                 *)
Decide(p) ==
  /\ provider[p] = "pending"
  /\ \E answer \in {"approved", "rejected"} : provider' = [provider EXCEPT ![p] = answer]
  /\ UNCHANGED <<tab, bill, notice, webhooks, payments, polling, doing, ops>>

HandleWebhook(p) ==
  /\ provider[p] # "none" /\ payments[p].known
  /\ Len(webhooks) < MaxWebhooks
  /\ webhooks' = Append(webhooks, p)
  /\ UNCHANGED <<tab, bill, notice, provider, payments, polling, doing, ops>>

(* reconcile_payment_webhook.go.  A message whose handling fails is        *)
(* acknowledged, so it is gone.                                            *)
Take(w) ==
  LET p == Head(webhooks) IN
  /\ doing[w] = Idle /\ webhooks # <<>>
  /\ webhooks' = Tail(webhooks)
  /\ \/ Goto(w, [Idle EXCEPT !.pc = "reconcile", !.pay = p, !.answer = provider[p],
                             !.settled = payments[p].settled])
     \/ UNCHANGED doing            \* the provider does not answer
  /\ UNCHANGED <<tab, bill, notice, provider, payments, polling, ops>>

Settles(w) == doing[w].answer = "approved" /\ ~doing[w].settled

Reconcile(w) ==
  LET p == doing[w].pay IN
  /\ doing[w].pc = "reconcile"
  /\ payments' = Saved(p, doing[w].answer, doing[w].settled)
  /\ Goto(w, IF Settles(w)
             THEN [Closing(p, "PAYMENT_APPROVED") EXCEPT !.answer = doing[w].answer]
             ELSE Idle)
  /\ UNCHANGED <<tab, bill, notice, outside, polling, ops>>

\* The call that closes the tab fails: the attempt is saved, not settled.
SettlementFails(w) ==
  /\ w \in Workers /\ doing[w].pc = "lock"
  /\ payments' = [payments EXCEPT ![doing[w].pay].attempt = AsAttempt(doing[w].answer),
                                  ![doing[w].pay].settled = FALSE]
  /\ Goto(w, Idle)
  /\ UNCHANGED <<tab, bill, notice, outside, polling, ops>>

Settled(w) ==
  /\ doing[w].pc = "settled"
  /\ payments' = [payments EXCEPT ![doing[w].pay].attempt = AsAttempt(doing[w].answer),
                                  ![doing[w].pay].settled = TRUE]
  /\ Goto(w, Idle)
  /\ UNCHANGED <<tab, bill, notice, outside, polling, ops>>

--------------------------------------------------------------------------------
GuestStep(g) ==
  \/ Pay(g) \/ Exit(g) \/ Poll(g) \/ Reload(g)
  \/ ExitCheck(g) \/ Leave(g)

StaffStep(s) ==
  \/ \E p \in Payments : Retry(s, p) \/ Refresh(s, p)
  \/ SettleByHand(s) \/ Reopen(s) \/ ShiftClose(s)
  \/ Recount(s) \/ Recounted(s)

PaymentStep(a) ==
  \/ CreatePayment(a) \/ CallAnswered(a) \/ CallTimesOut(a) \/ CallFails(a) \/ ApplyAnswer(a)
  \/ AskNothing(a) \/ AskAnswered(a) \/ AskFails(a) \/ RecordAnswer(a)

OrderStep(a) == OrderLock(a) \/ OrderRefused(a) \/ \E o \in Orders : OrderCommit(a, o)

CloseStep(a) == CloseLock(a) \/ CloseCommit(a) \/ Claim(a) \/ Tell(a)

ChatStep(c) == ChatRead(c) \/ OrderRefused(c) \/ (\E o \in Orders : ChatInsert(c, o)) \/ ChatSave(c)

WorkerStep(w) == Take(w) \/ Reconcile(w) \/ SettlementFails(w) \/ Settled(w)

Next ==
  \/ \E g \in Guests : GuestStep(g)
  \/ \E s \in Staff : StaffStep(s)
  \/ \E c \in Chats : ChatStep(c)
  \/ \E w \in Workers : WorkerStep(w)
  \/ \E a \in Guests \cup Staff : OrderStep(a) \/ PaymentStep(a)
  \/ \E a \in Actors : CloseStep(a) \/ WriteBack(a)
  \/ \E o \in Orders : OrderEnds(o)
  \/ \E p \in Payments : Decide(p) \/ HandleWebhook(p)

Spec == Init /\ [][Next]_vars

(* An operation that has begun goes on, and a row is granted in the end to *)
(* who waits for it.  The page polls by a timer, and the provider, asked   *)
(* again and again, answers some time.                                     *)
Goes(a) ==
  \/ OrderRefused(a) \/ \E o \in Orders : OrderCommit(a, o)
  \/ CreatePayment(a) \/ CallAnswered(a) \/ ApplyAnswer(a) \/ AskNothing(a) \/ RecordAnswer(a)
  \/ CloseCommit(a) \/ Tell(a) \/ Reload(a) \/ ExitCheck(a)

FairSpec ==
  /\ Spec
  /\ \A g \in Guests :
       /\ WF_vars(Goes(g)) /\ WF_vars(Poll(g)) /\ SF_vars(AskAnswered(g))
       /\ WF_vars(AskAnswered(g) \/ AskFails(g))
       /\ SF_vars(WriteBack(g)) /\ SF_vars(CloseLock(g)) /\ SF_vars(Claim(g)) /\ SF_vars(Leave(g))
  /\ \A a \in Staff \cup Workers : WF_vars(Goes(a))

--------------------------------------------------------------------------------
(* A payment counts as confirmed only when the provider approved it,       *)
(* whoever learnt its result and in whatever order the results were        *)
(* written, and a tab is closed as paid online only after the provider     *)
(* approved one of its payments; and the guest is told of a closing once,  *)
(* although closings may end together and the message may fail to be       *)
(* stored (applyCardProviderResponse, refreshPaymentStatus, Execute,       *)
(* confirmApprovedPaymentSettlement, notifyTabClosed).                     *)
ConfirmedWasApproved ==
  /\ \A p \in Payments : payments[p].status = "CONFIRMED" => provider[p] = "approved"
  /\ closedBy = "PAYMENT_APPROVED" => \E p \in Payments : provider[p] = "approved"
  /\ told <= 1

(* A closing at the counter or at the exit leaves no order of the portal   *)
(* or of the panel unbilled: what was received covers them, although       *)
(* orders are placed and payments arrive meanwhile (finalizeTabInternal).  *)
Received == manual + AmountOf({p \in Payments : provider[p] = "approved"})

Billed == Cardinality({o \in Orders : orders[o].locked /\ orders[o].status \in {"ACTIVE", "DELIVERED"}})

ClosesBilled ==
  [][tab.status = "OPEN" /\ tab'.status = "CLOSED" /\ closedBy' \in {"MANUAL_SETTLEMENT", "EXIT_QR"}
     => Received' >= Billed']_vars

(* A page does not ask for ever about a payment the provider approved, the *)
(* one whose creation timed out included: it is told, or begins another    *)
(* payment (startPaymentPolling, refreshPaymentStatus).                    *)
PageHears ==
  \A g \in Guests, p \in Payments :
    (polling[g] = p /\ provider[p] = "approved") ~> polling[g] # p
================================================================================
