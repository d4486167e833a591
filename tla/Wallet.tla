------------------------------ MODULE Wallet ------------------------------
(* The wallet of a restaurant: messages are charged to its balance, PIX      *)
(* recharges are credited, the panel derives the months' figures from        *)
(* balance, message log and payments. Everything that takes several          *)
(* statements is an entry of `doing`, and entries cross. Amounts are units.  *)
EXTENDS Integers, FiniteSets, Functions

CONSTANTS Hands,        \* what may be going on at once
          Recharges,    \* payments without order and tab
          Amount,       \* of a recharge
          Window,       \* months the panel looks back (six in the code)
          Starts,       \* balances to start from
          MaxMessages, MaxNotices, MaxPolls, MaxSaves, MaxPages,  \* of each
          MaxStarted,   \* of these together
          MaxMonth

ASSUME WalletAssumption ==
  /\ IsFiniteSet(Hands) /\ IsFiniteSet(Recharges)
  /\ Amount \in Nat \ {0} /\ Window \in Nat \ {0} /\ Starts \subseteq Int
  /\ {MaxMessages, MaxNotices, MaxPolls, MaxSaves, MaxPages, MaxStarted} \subseteq Nat
  /\ MaxMonth \in Nat \ {0}

VARIABLES tenant,     \* the row: balance, billing plan, price of a message
          logs,       \* message_logs, by month
          payments,   \* rows of the recharges: status, month paid, how far they can be found
          provider,   \* what the payment provider knows of each recharge
          cycles,     \* wallet_billing_cycles
          month,
          doing,
          made,       \* how many of each bounded thing were started
          start,      \* balance at the start
          unbooked,   \* the support's adjustments, and what failed statements left on one side only
          disturbed,  \* something happened after which the ledger need not hold
          faithful    \* closed months whose stored row is what the tables say

walletVars == <<tenant, logs, payments, provider, cycles, month, doing, made, start, unbooked, disturbed, faithful>>
ghosts == <<start, unbooked, disturbed, faithful>>

Months == 1..MaxMonth
Counters == {"messages", "notices", "polls", "saves", "pages", "all"}
Idle == [op |-> "none"]
NoRow == [opening |-> 0, closing |-> 0, charged |-> 0, received |-> 0, outstanding |-> 0, status |-> "none"]
Larger(a, b) == IF a > b THEN a ELSE b
Smaller(a, b) == IF a < b THEN a ELSE b

Begin(h, d) == doing' = [doing EXCEPT ![h] = d]
Go(h, at) == doing' = [doing EXCEPT ![h].at = at]
Done(h) == doing' = [doing EXCEPT ![h] = Idle]
Counted(what, max) == /\ made[what] < max /\ made["all"] < MaxStarted
                      /\ made' = [made EXCEPT ![what] = @ + 1, !["all"] = @ + 1]

Prepaid(t) == t.plan = "pre_paid"
\* The toll of every message, before it is sent or stored.
OutOfCredits(t) == Prepaid(t) /\ t.balance <= 0

WalletInit ==
        /\ \E b \in Starts, p \in {"pre_paid", "post_paid"} :
             /\ tenant = [balance |-> b, plan |-> p, price |-> 1]
             /\ start = b
        /\ logs = [m \in Months |-> 0]
        /\ payments = [r \in Recharges |-> [status |-> "none", paid |-> 0, found |-> "no"]]
        /\ provider = [r \in Recharges |-> "none"]
        /\ cycles = [m \in Months |-> NoRow]
        /\ month = 1
        /\ doing = [h \in Hands |-> Idle]
        /\ made = [what \in Counters |-> 0]
        /\ unbooked = 0 /\ disturbed = FALSE /\ faithful = {}

---------------------------------------------------------------------------
(* Messages *)

Billing(d) == IF d.plan = "pre_paid" THEN "debit" ELSE "log"

\* The outbox worker takes a text; without credits it is dropped for good. When the row
\* cannot be read it is sent all the same.
StartText(h) ==
  /\ doing[h] = Idle
  /\ Counted("messages", MaxMessages)
  /\ \/ OutOfCredits(tenant) /\ UNCHANGED doing
     \/ Begin(h, [op |-> "text", at |-> "send", plan |-> tenant.plan, price |-> tenant.price])
  /\ UNCHANGED <<tenant, logs, payments, provider, cycles, month, ghosts>>

\* The dialogue sends buttons, lists, links, images on its own; not when the row cannot be read.
StartInteractive(h) ==
  /\ doing[h] = Idle
  /\ Counted("messages", MaxMessages)
  /\ \/ UNCHANGED doing
     \/ /\ ~OutOfCredits(tenant)
        /\ Begin(h, [op |-> "interactive", at |-> "send", plan |-> tenant.plan, price |-> tenant.price])
  /\ UNCHANGED <<tenant, logs, payments, provider, cycles, month, ghosts>>

\* A guest's message is dropped, or stored and charged by a goroutine at the price read;
\* a restaurant that cannot be read is not charged.
Inbound(h) ==
  /\ doing[h] = Idle
  /\ Counted("messages", MaxMessages)
  /\ \/ UNCHANGED doing
     \/ /\ ~OutOfCredits(tenant)
        /\ LET d == [op |-> "inbound", at |-> "log", plan |-> tenant.plan, price |-> tenant.price]
           IN Begin(h, [d EXCEPT !.at = Billing(d)])
  /\ UNCHANGED <<tenant, logs, payments, provider, cycles, month, ghosts>>

SendBillsRefusals(h) ==
  /\ doing[h] # Idle /\ doing[h].at = "send"
  /\ \/ /\ Done(h)
        /\ tenant' = [tenant EXCEPT !.balance = @ - doing[h].price]
     \/ /\ Go(h, IF doing[h].op = "text" THEN "reload" ELSE Billing(doing[h]))
        /\ UNCHANGED tenant
  /\ UNCHANGED <<logs, payments, provider, cycles, month, made, ghosts>>

\* WhatsApp refuses, and nothing is charged; or takes it, and the text is saved as sent.
Send(h) ==
  /\ doing[h] # Idle /\ doing[h].at = "send"
  /\ \/ Done(h)
     \/ Go(h, IF doing[h].op = "text" THEN "reload" ELSE Billing(doing[h]))
  /\ UNCHANGED <<tenant, logs, payments, provider, cycles, month, made, ghosts>>

\* The goroutine after a text reads plan and price again.
Reload(h) ==
  /\ doing[h] # Idle /\ doing[h].at = "reload"
  /\ LET d == [doing[h] EXCEPT !.plan = tenant.plan, !.price = tenant.price]
     IN Begin(h, [d EXCEPT !.at = Billing(d)])
  /\ UNCHANGED <<tenant, logs, payments, provider, cycles, month, made, ghosts>>

\* One UPDATE that subtracts in the database.
DeductWalletBalance(h) ==
  /\ doing[h] # Idle /\ doing[h].at = "debit"
  /\ tenant' = [tenant EXCEPT !.balance = @ - doing[h].price]
  /\ Go(h, "log")
  /\ UNCHANGED <<logs, payments, provider, cycles, month, made, ghosts>>

SaveLog(h) ==
  /\ doing[h] # Idle /\ doing[h].at = "log"
  /\ logs' = [logs EXCEPT ![month] = @ + 1]
  /\ Done(h)
  /\ UNCHANGED <<tenant, payments, provider, cycles, month, made, ghosts>>

---------------------------------------------------------------------------
(* Recharges *)

Concerns(h, r) == doing[h] # Idle /\ doing[h].op \in {"create", "notice", "poll"} /\ doing[h].of = r
Crossing(r) == \E h \in Hands : Concerns(h, r)
Disturb(if) == /\ disturbed' = (disturbed \/ if)
               /\ faithful' = IF if THEN {} ELSE faithful
               /\ UNCHANGED <<start, unbooked>>
AsPayment(p) == CASE p = "approved" -> "CONFIRMED" [] p = "rejected" -> "FAILED" [] OTHER -> "PENDING"

\* The page asks for a PIX: the row, then the call.
CreatePixPayment(h, r) ==
  /\ doing[h] = Idle /\ payments[r].status = "none"
  /\ payments' = [payments EXCEPT ![r].status = "PENDING"]
  /\ Begin(h, [op |-> "create", at |-> "call", of |-> r, answer |-> "none"])
  /\ UNCHANGED <<tenant, logs, provider, cycles, month, made, ghosts>>

\* The provider has it, refuses it, or has it and the answer is lost.
CallProvider(h) ==
  /\ doing[h] # Idle /\ doing[h].at = "call"
  /\ LET r == doing[h].of
     IN \/ \E s \in {"pending", "rejected"} :
             /\ provider' = [provider EXCEPT ![r] = s]
             /\ doing' = [doing EXCEPT ![h].at = "attempt", ![h].answer = s]
        \/ provider' = [provider EXCEPT ![r] = "pending"] /\ Done(h)
        \/ UNCHANGED provider /\ Done(h)
  /\ UNCHANGED <<tenant, logs, payments, cycles, month, made, ghosts>>

\* The answer goes to the attempt (from then on webhooks find it) and to the payment.
ApplyAttempt(h) ==
  /\ doing[h] # Idle /\ doing[h].at = "attempt"
  /\ payments' = [payments EXCEPT ![doing[h].of].found = "attempt"]
  /\ Go(h, "apply")
  /\ UNCHANGED <<tenant, logs, provider, cycles, month, made, ghosts>>
ApplyPayment(h) ==
  /\ doing[h] # Idle /\ doing[h].at = "apply"
  /\ payments' = [payments EXCEPT ![doing[h].of] =
                    [status |-> AsPayment(doing[h].answer), paid |-> 0, found |-> "payment"]]
  /\ Done(h)
  /\ UNCHANGED <<tenant, logs, provider, cycles, month, made, ghosts>>

ProviderDecides(r) ==
  /\ provider[r] = "pending"
  /\ \E s \in {"approved", "rejected"} : provider' = [provider EXCEPT ![r] = s]
  /\ UNCHANGED <<tenant, logs, payments, cycles, month, doing, made, ghosts>>

\* A webhook says only that something happened to a payment. It may come early and twice.
HandleWebhook(h, r) ==
  /\ doing[h] = Idle /\ provider[r] # "none" /\ payments[r].found # "no"
  /\ Counted("notices", MaxNotices)
  /\ Begin(h, [op |-> "notice", of |-> r, seen |-> payments[r],
               at |-> IF payments[r].found = "attempt" THEN "name" ELSE "confirm"])
  /\ Disturb(Crossing(r))
  /\ UNCHANGED <<tenant, logs, payments, provider, cycles, month>>

\* The whole row is saved, with the provider's number.
NamePayment(h) ==
  /\ doing[h] # Idle /\ doing[h].at = "name"
  /\ payments' = [payments EXCEPT ![doing[h].of] = [doing[h].seen EXCEPT !.found = "payment"]]
  /\ Go(h, "confirm")
  /\ UNCHANGED <<tenant, logs, provider, cycles, month, made, ghosts>>

\* The first webhook confirms and credits a recharge, whatever the provider's state.
ConfirmRecharge(h) ==
  /\ doing[h] # Idle /\ doing[h].at = "confirm"
  /\ IF doing[h].seen.status = "CONFIRMED" THEN Done(h) /\ UNCHANGED payments
     ELSE /\ payments' = [payments EXCEPT ![doing[h].of] =
                            [status |-> "CONFIRMED", paid |-> month, found |-> "payment"]]
          /\ Go(h, "credit")
  /\ UNCHANGED <<tenant, logs, provider, cycles, month, made, ghosts>>
Credit(h) ==
  /\ doing[h] # Idle /\ doing[h].at = "credit"
  /\ tenant' = [tenant EXCEPT !.balance = @ + Amount]
  /\ Done(h)
  /\ UNCHANGED <<logs, payments, provider, cycles, month, made, ghosts>>

\* The panel polls a payment: read, ask, attempt, payment. A poll writes the provider's
\* state over the row and credits nothing.
GetPaymentStatus(h, r) ==
  /\ doing[h] = Idle /\ payments[r].status # "none"
  /\ Counted("polls", MaxPolls)
  /\ Begin(h, [op |-> "poll", at |-> "ask", of |-> r, seen |-> payments[r], answer |-> "none"])
  /\ Disturb(Crossing(r))
  /\ UNCHANGED <<tenant, logs, payments, provider, cycles, month>>
Ask(h) ==
  /\ doing[h] # Idle /\ doing[h].at = "ask"
  /\ \/ Done(h)
     \/ /\ provider[doing[h].of] # "none"
        /\ doing' = [doing EXCEPT ![h].at = "polled", ![h].answer = provider[doing[h].of]]
  /\ UNCHANGED <<tenant, logs, payments, provider, cycles, month, made, ghosts>>
RefreshPaymentStatus(h) ==
  /\ doing[h] # Idle /\ doing[h].at = "polled"
  /\ LET r == doing[h].of
         s == AsPayment(doing[h].answer)
         paid == doing[h].seen.paid
     IN /\ payments' = [payments EXCEPT ![r] =
             [status |-> s, paid |-> IF s = "CONFIRMED" /\ paid = 0 THEN month ELSE paid, found |-> "payment"]]
        /\ Disturb((s = "CONFIRMED") # (payments[r].status = "CONFIRMED"))
  /\ Done(h)
  /\ UNCHANGED <<tenant, logs, provider, cycles, month, made>>

---------------------------------------------------------------------------
(* Support and settings: the row is read and later saved as a whole *)

LoadTenant(h) ==
  /\ doing[h] = Idle
  /\ Counted("saves", MaxSaves)
  /\ Begin(h, [op |-> "save", at |-> "save", row |-> tenant])
  /\ UNCHANGED <<tenant, logs, payments, provider, cycles, month, ghosts>>

SaveTenant(h, row, grant) ==
  /\ doing[h] # Idle /\ doing[h].at = "save"
  /\ tenant' = row
  /\ unbooked' = unbooked + grant
  /\ LET upset == \/ doing[h].row.balance # tenant.balance
                  \/ row.plan # tenant.plan
                  \/ row.price # tenant.price
     IN /\ disturbed' = (disturbed \/ upset)
        /\ faithful' = IF upset \/ grant # 0 THEN {} ELSE faithful
  /\ Done(h)
  /\ UNCHANGED <<logs, payments, provider, cycles, month, made, start>>

\* The support adds credits or changes the plan.
UpdateWallet(h) ==
  /\ doing[h] # Idle /\ doing[h].at = "save"
  /\ \E grant \in {0, 1}, plan \in {"pre_paid", "post_paid"} :
       SaveTenant(h, [doing[h].row EXCEPT !.balance = @ + grant, !.plan = plan], grant)
\* It edits the restaurant, with the price of a message.
UpdateTenant(h) ==
  /\ doing[h] # Idle /\ doing[h].at = "save"
  /\ \E p \in {1, 2} : SaveTenant(h, [doing[h].row EXCEPT !.price = p], 0)
\* Opening hours, messages, gateway, pause: other columns, the same save.
SaveSettings(h) ==
  /\ doing[h] # Idle /\ doing[h].at = "save"
  /\ SaveTenant(h, doing[h].row, 0)

---------------------------------------------------------------------------
(* The wallet page *)

ReferenceMonths(now) == {m \in Months : m <= now /\ m > now - Window}
\* Confirmed payments without tab and order, by the month they were paid in.
ReceivedIn(pays, m) == Amount * Cardinality({r \in Recharges : pays[r].status = "CONFIRMED" /\ pays[r].paid = m})

PrePaidStatus(charged, received, covered, outstanding) ==
  IF outstanding > 0 THEN "attention"
  ELSE IF charged <= 0 /\ received <= 0 THEN "idle"
  ELSE IF covered > 0 THEN "covered_by_balance" ELSE "received"
PostPaidStatus(charged, received, outstanding) ==
  IF charged <= 0 /\ received <= 0 THEN "idle"
  ELSE IF outstanding <= 0 /\ charged > 0 THEN "received"
  ELSE IF received > 0 THEN "partial" ELSE "open"

\* The row of a month that opened with a balance. After payment there is no balance to tell.
PrePaidCycle(opening, charged, received) ==
  LET settled == Smaller(charged, Larger(0, opening) + received)
      covered == Larger(0, settled - Smaller(charged, received))
  IN [opening |-> opening, closing |-> opening + received - charged,
      charged |-> charged, received |-> received, outstanding |-> charged - settled,
      status |-> PrePaidStatus(charged, received, covered, charged - settled)]
PostPaidCycle(charged, received) ==
  LET outstanding == Larger(0, charged - received)
  IN [opening |-> 0, closing |-> 0, charged |-> charged, received |-> received, outstanding |-> outstanding,
      status |-> PostPaidStatus(charged, received, outstanding)]
Cycle(p, opening, charged, received) ==
  IF p = "pre_paid" THEN PrePaidCycle(opening, charged, received) ELSE PostPaidCycle(charged, received)

\* What a page that read balance, plan and price b, p, c makes of the tables: it goes back
\* from the balance through the months.
NetOf(c, lg, pays) == [k \in Months |-> ReceivedIn(pays, k) - lg[k] * c]
buildForgetsRunningMonth(b, p, c, lg, pays, now) ==
  [m \in ReferenceMonths(now) |->
     Cycle(p, b - SumFunctionOnSet(NetOf(c, lg, pays), {k \in ReferenceMonths(now) : k >= m /\ k < now}),
           lg[m] * c, ReceivedIn(pays, m))]

buildWalletBillingCycles(b, p, c, lg, pays, now) ==
  [m \in ReferenceMonths(now) |->
     Cycle(p, b - SumFunctionOnSet(NetOf(c, lg, pays), {k \in ReferenceMonths(now) : k >= m}),
           lg[m] * c, ReceivedIn(pays, m))]

\* What the messages of the running month come to.
currentMonthSummary(c, lg, now) == lg[now] * c

\* The running month at the top of the page.
FinancialOverview(b, c, lg, pays, now) ==
  LET charged == currentMonthSummary(c, lg, now)
      received == ReceivedIn(pays, now)
  IN [opening |-> b + charged - received,
      fromRecharge |-> Smaller(charged, received),
      fromBefore |-> Larger(0, charged - received),
      added |-> Larger(0, received - charged)]

CyclesNow == buildWalletBillingCycles(tenant.balance, tenant.plan, tenant.price, logs, payments, month)
Quiet == \A h \in Hands : doing[h].op \in {"none", "page"}

\* getBalance asks the core for balance and plan, reads the price, then logs and payments.
GetBalance(h) ==
  /\ doing[h] = Idle
  /\ Counted("pages", MaxPages)
  /\ Begin(h, [op |-> "page", at |-> "price", balance |-> tenant.balance, plan |-> tenant.plan])
  /\ UNCHANGED <<tenant, logs, payments, provider, cycles, month, ghosts>>
ReadTables(h) ==
  /\ doing[h] # Idle /\ doing[h].at = "price"
  /\ Begin(h, [op |-> "page", at |-> "store",
               rows |-> buildWalletBillingCycles(doing[h].balance, doing[h].plan, tenant.price, logs, payments, month)])
  /\ UNCHANGED <<tenant, logs, payments, provider, cycles, month, made, ghosts>>
\* The rows of the months are written over the stored ones.
syncWalletBillingCycles(h) ==
  /\ doing[h] # Idle /\ doing[h].at = "store"
  /\ LET rows == doing[h].rows
         kept == Quiet /\ ~disturbed /\ rows = CyclesNow
     IN /\ cycles' = [m \in Months |-> IF m \in DOMAIN rows THEN rows[m] ELSE cycles[m]]
        /\ faithful' = IF kept THEN faithful \cup {m \in DOMAIN rows : m < month}
                       ELSE faithful \ DOMAIN rows
  /\ Done(h)
  /\ UNCHANGED <<tenant, logs, payments, provider, month, made, start, unbooked, disturbed>>

---------------------------------------------------------------------------
(* Failures *)

IsMessage(d) == d.op \in {"text", "interactive", "inbound"}
\* What an operation has done on one side only: charged and not logged yet, confirmed and
\* not credited yet.
UnsettledOf(d) == IF IsMessage(d) /\ d.at = "log" /\ d.plan = "pre_paid" THEN d.price
                  ELSE IF d.op = "notice" /\ d.at = "credit" THEN Amount ELSE 0

\* The operation goes on as d without its next statement.
Skips(h, d) ==
  /\ Begin(h, d)
  /\ LET x == UnsettledOf(d) - UnsettledOf(doing[h])
     IN /\ unbooked' = unbooked + x
        /\ faithful' = IF x # 0 THEN {} ELSE faithful
  /\ UNCHANGED <<tenant, logs, payments, provider, cycles, month, made, start, disturbed>>

\* The statement fails and the operation ends, or the process that runs it does.
Fails(h) == doing[h] # Idle /\ Skips(h, Idle)

\* The statement fails and nobody looks at the error: the message is logged without a debit,
\* the recharge credited without being confirmed, the next webhook will credit it again.
Overlooks(h) ==
  /\ doing[h] # Idle
  /\ \/ /\ doing[h].at \in {"reload", "debit"} /\ doing[h].op # "interactive"
        /\ Skips(h, [doing[h] EXCEPT !.at = "log"])
     \/ doing[h].at = "attempt" /\ Skips(h, [doing[h] EXCEPT !.at = "apply"])
     \/ doing[h].at = "name" /\ Skips(h, [doing[h] EXCEPT !.at = "confirm"])
     \/ /\ doing[h].at = "confirm" /\ doing[h].seen.status # "CONFIRMED"
        /\ Skips(h, [doing[h] EXCEPT !.at = "credit"])

MonthEnds ==
  /\ month < MaxMonth
  /\ month' = month + 1
  /\ UNCHANGED <<tenant, logs, payments, provider, cycles, doing, made, ghosts>>

Hand(h) == \/ StartText(h) \/ StartInteractive(h) \/ Inbound(h)
           \/ Send(h) \/ Reload(h) \/ DeductWalletBalance(h) \/ SaveLog(h)
           \/ \E r \in Recharges : CreatePixPayment(h, r) \/ HandleWebhook(h, r) \/ GetPaymentStatus(h, r)
           \/ CallProvider(h) \/ ApplyAttempt(h) \/ ApplyPayment(h)
           \/ NamePayment(h) \/ ConfirmRecharge(h) \/ Credit(h)
           \/ Ask(h) \/ RefreshPaymentStatus(h)
           \/ LoadTenant(h) \/ UpdateWallet(h) \/ UpdateTenant(h) \/ SaveSettings(h)
           \/ GetBalance(h) \/ ReadTables(h) \/ syncWalletBillingCycles(h)
           \/ Fails(h) \/ Overlooks(h)

WalletNext == (\E h \in Hands : Hand(h)) \/ (\E r \in Recharges : ProviderDecides(r)) \/ MonthEnds
WalletSpec == WalletInit /\ [][WalletNext]_walletVars

---------------------------------------------------------------------------
(* Types *)

Plans == {"pre_paid", "post_paid"}
TenantRows == [balance : Int, plan : Plans, price : Int]
PaymentRows == [status : {"none", "PENDING", "CONFIRMED", "FAILED"}, paid : 0..MaxMonth,
                found : {"no", "attempt", "payment"}]
CycleRows == [opening : Int, closing : Int, charged : Int, received : Int, outstanding : Int,
              status : {"none", "attention", "idle", "covered_by_balance", "received", "partial", "open"}]
MessageHands == [op : {"text", "interactive", "inbound"}, at : {"send", "reload", "debit", "log"},
                 plan : Plans, price : Int]
CreateHands == [op : {"create"}, at : {"call", "attempt", "apply"}, of : Recharges,
                answer : {"none", "pending", "rejected"}]
NoticeHands == [op : {"notice"}, at : {"name", "confirm", "credit"}, of : Recharges, seen : PaymentRows]
PollHands == [op : {"poll"}, at : {"ask", "polled"}, of : Recharges, seen : PaymentRows,
              answer : {"none", "pending", "approved", "rejected"}]
SaveHands == [op : {"save"}, at : {"save"}, row : TenantRows]
ReadHands == [op : {"page"}, at : {"price"}, balance : Int, plan : Plans]
StoreHands(S) == [op : {"page"}, at : {"store"}, rows : [S -> CycleRows]]
HandTypeOK(d) ==
  \/ d \in {Idle} \cup MessageHands \cup CreateHands \cup NoticeHands \cup PollHands \cup SaveHands \cup ReadHands
  \/ \E S \in SUBSET Months : d \in StoreHands(S)

WalletTypeOK ==
  /\ tenant \in TenantRows
  /\ logs \in [Months -> Nat]
  /\ payments \in [Recharges -> PaymentRows]
  /\ provider \in [Recharges -> {"none", "pending", "approved", "rejected"}]
  /\ cycles \in [Months -> CycleRows]
  /\ month \in Months
  /\ doing = [h \in Hands |-> doing[h]] /\ \A h \in Hands : HandTypeOK(doing[h])
  /\ made \in [Counters -> Nat]
  /\ start \in Int /\ unbooked \in Int
  /\ disturbed \in BOOLEAN
  /\ faithful \subseteq Months

---------------------------------------------------------------------------

\* What a month adds to the balance of a restaurant t; messages count before payment only.
Nets(t, lg, pays) == [k \in Months |-> ReceivedIn(pays, k) - (IF Prepaid(t) THEN lg[k] * t.price ELSE 0)]
LedgerBefore(m) == start + unbooked + SumFunctionOnSet(Nets(tenant, logs, payments), {k \in Months : k < m})

(* Whatever messages, webhooks, saves and months cross, whichever statements fail and      *)
(* wherever a process dies: when nothing is under way, the balance is what the log, the    *)
(* confirmed recharges, the support's adjustments and the statements skipped add up to (a  *)
(* logged message that was not debited, a debit that was not logged, a confirmed recharge  *)
(* not credited, a credited one not confirmed), and the page's estimate of this month's    *)
(* opening balance agrees. Excepted is a history in which requests for one payment         *)
(* crossed, a poll confirmed or unconfirmed one, a save brought an old balance back, or    *)
(* plan or price changed.                                                                  *)
BalanceIsTheLedger ==
  Quiet /\ ~disturbed =>
    /\ tenant.balance = LedgerBefore(month + 1)
    /\ Prepaid(tenant) =>
         FinancialOverview(tenant.balance, tenant.price, logs, payments, month).opening = LedgerBefore(month)

(* The months' balances, which the page derives backwards from the present one, are those  *)
(* the restaurant had (adjustments and skipped statements count from the beginning, for    *)
(* no row tells their month), and the stored figures of a month that is over stand: pages  *)
(* that were computed while nothing else went on never change them, however pages and      *)
(* messages cross the ends of months (syncWalletBillingCycles rewrites six months each     *)
(* time).                                                                                  *)
ClosedMonthsStand ==
  [][/\ \A m \in faithful \cap faithful' : cycles'[m] = cycles[m]
     /\ Prepaid(tenant) => \A m \in faithful : cycles[m].opening = LedgerBefore(m)]_walletVars
===========================================================================
