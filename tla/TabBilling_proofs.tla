------------------------- MODULE TabBilling_proofs --------------------------
(***************************************************************************)
(* Theorems about TabBilling, for every number of orders, payments,        *)
(* guests, staff, conversations and workers.                               *)
(***************************************************************************)
EXTENDS TabBilling, FiniteSetTheorems, TLAPS

USE Numbered, BoundsAssumption

---------------------------------------------------------------------------
(* what is known of the operations under way *)

HoldsTab == {"ordering", "close"}     \* inside the tab's lock
HasAnswer == {"apply", "record", "reconcile"}
InChat == {"chatInsert", "chatSave"}

\* An operation about a payment has one; it is created at the provider once;
\* an approval in an actor's hands is the provider's, which never takes it back.
Sound(d) ==
  /\ d.pc \in HasAnswer \cup {"call", "ask"} \/ d.then = "ask" => d.pay \in Payments
  /\ d.pc = "call" => payments[d.pay].status # "NONE" /\ provider[d.pay] = "none"
  /\ d.pc \in HasAnswer /\ d.answer = "approved" => provider[d.pay] = "approved"
  /\ d.source = "PAYMENT_APPROVED" => d.pay \in Payments /\ provider[d.pay] = "approved"

OneCaller ==
  \A a, b \in Actors : doing[a].pc = "call" /\ doing[b].pc = "call" /\ doing[a].pay = doing[b].pay => a = b

PaymentInv ==
  /\ \A a \in Actors : Sound(doing[a])
  /\ OneCaller
  /\ \A p \in Payments : payments[p].status = "NONE" => provider[p] = "none"
  /\ \A p \in Payments : payments[p].status = "CONFIRMED" => provider[p] = "approved"
  /\ closedBy = "PAYMENT_APPROVED" => \E p \in Payments : provider[p] = "approved"

\* A message is told at most once: while it is claimed, one actor tells it or
\* it has been told.
ToldInv ==
  /\ told <= 1
  /\ ~claimed => told = 0
  /\ ~claimed \/ told = 1 => \A a \in Actors : doing[a].pc # "tell"
  /\ \A a, b \in Actors : doing[a].pc = "tell" /\ doing[b].pc = "tell" => a = b

Placed == Cardinality({o \in Orders : orders[o].status # "NONE"})

\* A total that was read counts orders that were placed; a closing knows the
\* tab as it is, and with what it is about to book by hand the locked orders are paid.
Rows(d) ==
  /\ d.row.total <= Placed
  /\ d.pc = "recounted" => d.sum <= Placed
  /\ d.pc = "chatSave" => d.row.total + 1 <= Placed
  /\ d.pc \in InChat => d.row.status = "OPEN"
  /\ d.pc = "close" => /\ d.row.status = tab.status
                       /\ d.source # "PAYMENT_APPROVED" => Billed <= d.sum + Received

OneHolder ==
  \A a, b \in Actors : doing[a].pc \in HoldsTab /\ doing[b].pc \in HoldsTab => a = b

BillInv ==
  /\ \A a \in Actors : Rows(doing[a])
  /\ OneHolder
  /\ tab.total <= Placed
  /\ \A o \in Orders : orders[o].status = "NONE" => ~orders[o].locked

BillingInv == TypeOK /\ PaymentInv /\ ToldInv /\ BillInv

---------------------------------------------------------------------------
(* the sums *)

LEMMA OrderSums ==
  ASSUME TypeOK
  PROVE  /\ Owed \in Amounts /\ Placed \in Amounts /\ Billed \in Amounts
         /\ Owed <= Placed /\ Billed <= Owed
<1>0. orders \in [Orders -> Order]
  BY DEF TypeOK
<1> DEFINE active == {o \in Orders : orders[o].status \in {"ACTIVE", "DELIVERED"}}
           placed == {o \in Orders : orders[o].status # "NONE"}
           billed == {o \in Orders : orders[o].locked /\ orders[o].status \in {"ACTIVE", "DELIVERED"}}
<1>1. active \in SUBSET placed /\ billed \in SUBSET active /\ placed \in SUBSET Orders
  OBVIOUS
<1>2. IsFiniteSet(placed) /\ Cardinality(placed) <= Cardinality(Orders)
  BY <1>1, FS_Subset
<1>3. IsFiniteSet(active) /\ Cardinality(active) <= Cardinality(placed)
  BY <1>1, <1>2, FS_Subset
<1>4. IsFiniteSet(billed) /\ Cardinality(billed) <= Cardinality(active)
  BY <1>1, <1>3, FS_Subset
<1>5. /\ Cardinality(Orders) \in Nat /\ Cardinality(placed) \in Nat
      /\ Cardinality(active) \in Nat /\ Cardinality(billed) \in Nat
  BY <1>2, <1>3, <1>4, FS_CardinalityType
<1>6. Placed = Cardinality(placed) /\ Owed = Cardinality(active) /\ Billed = Cardinality(billed)
  BY DEF Placed, Owed, Billed
<1> HIDE DEF active, placed, billed
<1> QED
  BY <1>2, <1>3, <1>4, <1>5, <1>6 DEF Amounts

LEMMA NextSums == TypeOK' => (Owed \in Amounts /\ Placed \in Amounts /\ Billed \in Amounts)'
<1>1. TypeOK => Owed \in Amounts /\ Placed \in Amounts /\ Billed \in Amounts
  BY OrderSums
<1> QED
  BY <1>1, PTL

\* More payments, or the same ones, do not come to less.
LEMMA AmountsAdd ==
  ASSUME NEW S \in SUBSET Payments, NEW T \in SUBSET S
  PROVE  /\ AmountOf(S) \in Nat /\ AmountOf(T) \in Nat
         /\ AmountOf(T) <= AmountOf(S)
<1> DEFINE N == 1..Cardinality(Orders)
           units(ps) == {unit \in ps \X N : unit[2] <= payments[unit[1]].amount}
<1>1. IsFiniteSet(N)
  BY FS_Interval, FS_CardinalityType
<1>2. IsFiniteSet(S)
  BY FS_Subset
<1>3. IsFiniteSet(S \X N)
  BY <1>1, <1>2, FS_Product
<1>4. units(S) \in SUBSET (S \X N)
  OBVIOUS
<1>5. units(T) \in SUBSET units(S)
  <2> HIDE DEF N
  <2> QED OBVIOUS
<1>6. IsFiniteSet(units(S))
  BY <1>3, <1>4, FS_Subset
<1>7. IsFiniteSet(units(T)) /\ Cardinality(units(T)) <= Cardinality(units(S))
  BY <1>5, <1>6, FS_Subset
<1>8. Cardinality(units(S)) \in Nat /\ Cardinality(units(T)) \in Nat
  BY <1>6, <1>7, FS_CardinalityType
<1>9. AmountOf(S) = Cardinality(units(S)) /\ AmountOf(T) = Cardinality(units(T))
  BY DEF AmountOf
<1> QED
  BY <1>7, <1>8, <1>9

LEMMA Sums ==
  ASSUME TypeOK, PaymentInv
  PROVE  Confirmed \in Nat /\ Received \in Nat /\ Confirmed <= Received
<1> DEFINE approved == {p \in Payments : provider[p] = "approved"}
           confirmed == {p \in Payments : payments[p].status = "CONFIRMED"}
<1>1. approved \in SUBSET Payments /\ confirmed \in SUBSET approved
  BY DEF PaymentInv
<1>2. /\ AmountOf(approved) \in Nat /\ AmountOf(confirmed) \in Nat
      /\ AmountOf(confirmed) <= AmountOf(approved)
  BY <1>1, AmountsAdd
<1>3. Confirmed = manual + AmountOf(confirmed) /\ Received = manual + AmountOf(approved)
  BY DEF Confirmed, ConfirmedOnline, Received
<1>4. manual \in Nat
  BY DEF TypeOK
<1> HIDE DEF approved, confirmed
<1> QED
  BY <1>2, <1>3, <1>4

\* What was received does not get less, as approvals stay.
LEMMA ReceivedStays ==
  ASSUME TypeOK, manual' = manual,
         \A p \in Payments : provider[p] = "approved" =>
           provider'[p] = "approved" /\ payments'[p].amount = payments[p].amount
  PROVE  Received' \in Nat /\ Received \in Nat /\ Received <= Received'
<1> DEFINE N == 1..Cardinality(Orders)
           approved == {p \in Payments : provider[p] = "approved"}
           later == {p \in Payments : provider'[p] = "approved"}
           units == {unit \in approved \X N : unit[2] <= payments[unit[1]].amount}
           more == {unit \in later \X N : unit[2] <= payments'[unit[1]].amount}
<1>1. IsFiniteSet(N)
  BY FS_Interval, FS_CardinalityType
<1>2. IsFiniteSet(later)
  BY FS_Subset
<1>3. IsFiniteSet(later \X N)
  BY <1>1, <1>2, FS_Product
<1>4. more \in SUBSET (later \X N)
  OBVIOUS
<1>5. units \in SUBSET more
  <2> HIDE DEF N
  <2>1. SUFFICES ASSUME NEW unit \in units PROVE unit \in more
    OBVIOUS
  <2>2. unit[1] \in approved /\ unit[2] \in N /\ unit = <<unit[1], unit[2]>>
    OBVIOUS
  <2>3. unit[1] \in later /\ payments'[unit[1]].amount = payments[unit[1]].amount
    BY <2>2
  <2> QED
    BY <2>2, <2>3
<1>6. IsFiniteSet(more)
  BY <1>3, <1>4, FS_Subset
<1>7. IsFiniteSet(units) /\ Cardinality(units) <= Cardinality(more)
  BY <1>5, <1>6, FS_Subset
<1>8. Cardinality(more) \in Nat /\ Cardinality(units) \in Nat
  BY <1>6, <1>7, FS_CardinalityType
<1>9. Received = manual + Cardinality(units) /\ Received' = manual + Cardinality(more)
  BY DEF Received, AmountOf
<1>10. manual \in Nat
  BY DEF TypeOK
<1> HIDE DEF units, more
<1> QED
  BY <1>7, <1>8, <1>9, <1>10

---------------------------------------------------------------------------
(* one actor goes on *)

Moves(a, d) == doing' = [doing EXCEPT ![a] = d]

LEMMA Moved ==
  ASSUME TypeOK, NEW a \in Actors, NEW d \in Operation, Moves(a, d)
  PROVE  /\ doing' \in [Actors -> Operation]
         /\ doing'[a] = d
         /\ \A b \in Actors \ {a} : doing'[b] = doing[b]
BY DEF TypeOK, Moves

LEMMA ToldKept ==
  ASSUME TypeOK, ToldInv, NEW a \in Actors, NEW d \in Operation, Moves(a, d),
         UNCHANGED notice, d.pc # "tell"
  PROVE  ToldInv'
<1>1. \A b \in Actors : doing'[b].pc = "tell" => doing[b].pc = "tell"
  BY Moved
<1>2. claimed' = claimed /\ told' = told
  BY DEF notice
<1> QED
  BY <1>1, <1>2 DEF ToldInv

\* Payments go on and the provider decides; who is about to call keeps a
\* payment that the provider does not know.
LEMMA PaymentKept ==
  ASSUME TypeOK, PaymentInv, NEW a \in Actors, NEW d \in Operation, Moves(a, d),
         Sound(d)',
         \A p \in Payments : provider[p] = "approved" => provider'[p] = "approved",
         \A p \in Payments : payments[p].status # "NONE" => payments'[p].status # "NONE",
         \A b \in Actors \ {a} : doing[b].pc = "call" => provider'[doing[b].pay] = provider[doing[b].pay],
         d.pc = "call" => \A b \in Actors \ {a} : doing[b].pc = "call" => doing[b].pay # d.pay,
         \A p \in Payments : payments'[p].status = "NONE" => provider'[p] = "none",
         \A p \in Payments : payments'[p].status = "CONFIRMED" => provider'[p] = "approved",
         closedBy' \in {closedBy, "SHIFT_CLOSE"} \/ (closedBy' = "PAYMENT_APPROVED" => \E p \in Payments : provider'[p] = "approved")
  PROVE  PaymentInv'
<1>0. doing \in [Actors -> Operation]
  BY DEF TypeOK
<1>1. doing'[a] = d /\ \A b \in Actors \ {a} : doing'[b] = doing[b]
  BY Moved
<1>2. \A b \in Actors : Sound(doing[b])'
  <2>1. SUFFICES ASSUME NEW b \in Actors \ {a} PROVE Sound(doing[b])'
    BY <1>1
  <2>2. Sound(doing[b]) /\ doing'[b] = doing[b]
    BY <1>1 DEF PaymentInv
  <2> QED
    BY <2>2 DEF Sound
<1>3. OneCaller'
  BY <1>1 DEF PaymentInv, OneCaller
<1>4. (closedBy = "PAYMENT_APPROVED" => \E p \in Payments : provider[p] = "approved")'
  BY DEF PaymentInv
<1> QED
  BY <1>2, <1>3, <1>4 DEF PaymentInv

\* Orders are placed and ended, the tab is written: under its lock only by the
\* one who holds it.
LEMMA BillKept ==
  ASSUME TypeOK, TypeOK', BillInv, NEW a \in Actors, NEW d \in Operation, Moves(a, d),
         Rows(d)',
         Placed <= Placed',
         tab'.total <= Placed',
         \A b \in Actors \ {a} : doing[b].pc = "close" =>
           tab'.status = tab.status /\ Billed' <= Billed /\ Received <= Received',
         d.pc \in HoldsTab => \A b \in Actors \ {a} : doing[b].pc \notin HoldsTab,
         \A o \in Orders : orders'[o].status = "NONE" => ~orders'[o].locked,
         Received \in Nat, Received' \in Nat
  PROVE  BillInv'
<1>0. doing \in [Actors -> Operation]
  BY DEF TypeOK
<1>1. doing'[a] = d /\ \A b \in Actors \ {a} : doing'[b] = doing[b]
  BY Moved
<1>2. \A b \in Actors : Rows(doing[b])'
  <2>1. SUFFICES ASSUME NEW b \in Actors \ {a} PROVE Rows(doing[b])'
    BY <1>1
  <2>2. Rows(doing[b]) /\ doing'[b] = doing[b]
    BY <1>1 DEF BillInv
  <2>3. doing[b].row.total \in Nat /\ doing[b].sum \in Nat
    <3>1. doing[b].row \in Tab /\ doing[b].sum \in Amounts
      BY <1>0 DEF Operation
    <3> QED
      BY <3>1, FS_CardinalityType DEF Tab, Amounts
  <2>4. Placed \in Nat /\ Placed' \in Nat /\ Billed \in Nat /\ Billed' \in Nat
    <3>1. Placed \in Amounts /\ Placed' \in Amounts /\ Billed \in Amounts /\ Billed' \in Amounts
      BY OrderSums, NextSums
    <3> QED
      BY <3>1, FS_CardinalityType DEF Amounts
  <2> QED
    BY <2>2, <2>3, <2>4 DEF Rows
<1>3. OneHolder'
  BY <1>1 DEF BillInv, OneHolder
<1> QED
  BY <1>2, <1>3 DEF BillInv

\* The same, when orders and payments stay as they are.
LEMMA MoveRest ==
  ASSUME BillingInv, NEW a \in Actors, NEW d \in Operation, Moves(a, d),
         UNCHANGED <<orders, manual, payments, provider>>,
         claimed' \in BOOLEAN, told' \in Nat,
         closedBy' \in {closedBy, "SHIFT_CLOSE"},
         tab' \in Tab, tab'.total <= Placed, tab' = tab \/ ~Locked,
         webhooks' \in Seq(Payments),
         polling' \in [Guests -> Payments \cup {NoPayment}], ops' \in 0..MaxOps,
         Sound(d), Rows(d), d.pc # "call",
         d.pc \in {"ordering", "close"} => ~Locked, d.pc = "close" => tab' = tab
  PROVE  TypeOK' /\ PaymentInv' /\ BillInv'
<1>0. TypeOK /\ PaymentInv /\ ToldInv /\ BillInv
  BY DEF BillingInv
<1>u. /\ orders' = orders /\ manual' = manual /\ payments' = payments /\ provider' = provider
  OBVIOUS
<1>1. TypeOK'
  <2>1. doing' \in [Actors -> Operation]
    BY <1>0, Moved
  <2>2. closedBy' \in Sources
    BY <1>0 DEF TypeOK, Sources
  <2> QED
    BY <1>0, <1>u, <2>1, <2>2 DEF TypeOK
<1>3. PaymentInv'
  <2>1. Sound(d)'
    BY <1>u DEF Sound
  <2>2. /\ \A p \in Payments : payments[p].status = "NONE" => provider[p] = "none"
        /\ \A p \in Payments : payments[p].status = "CONFIRMED" => provider[p] = "approved"
    BY <1>0 DEF PaymentInv
  <2> QED
    BY <1>0, <1>u, <2>1, <2>2, PaymentKept
<1>4. BillInv'
  <2>1. Placed' = Placed /\ Billed' = Billed /\ Received' = Received
    BY <1>u DEF Placed, Billed, Received, AmountOf
  <2>2. Received \in Nat /\ Placed \in Nat /\ Billed \in Nat
    BY <1>0, Sums, OrderSums, FS_CardinalityType DEF Amounts
  <2>3. \A b \in Actors : doing[b].pc = "close" => tab' = tab
    BY DEF Locked
  <2>4. Rows(d)'
    BY <2>1 DEF Rows, InChat
  <2>5. d.pc \in HoldsTab => \A b \in Actors \ {a} : doing[b].pc \notin HoldsTab
    BY DEF Locked, HoldsTab
  <2>6. \A o \in Orders : orders'[o].status = "NONE" => ~orders'[o].locked
    BY <1>0, <1>u DEF BillInv
  <2> QED
    BY <1>0, <1>1, <2>1, <2>2, <2>3, <2>4, <2>5, <2>6, BillKept
<1> QED
  BY <1>1, <1>3, <1>4

LEMMA Move ==
  ASSUME BillingInv, NEW a \in Actors, NEW d \in Operation, Moves(a, d),
         UNCHANGED <<orders, manual, notice, payments, provider>>,
         closedBy' \in {closedBy, "SHIFT_CLOSE"},
         tab' \in Tab, tab'.total <= Placed, tab' = tab \/ ~Locked,
         webhooks' \in Seq(Payments),
         polling' \in [Guests -> Payments \cup {NoPayment}], ops' \in 0..MaxOps,
         Sound(d), Rows(d), d.pc \notin {"call", "tell"},
         d.pc \in {"ordering", "close"} => ~Locked, d.pc = "close" => tab' = tab
  PROVE  BillingInv'
<1>1. claimed' = claimed /\ told' = told /\ claimed \in BOOLEAN /\ told \in Nat
  BY DEF notice, BillingInv, TypeOK
<1>2. ToldInv'
  BY ToldKept DEF BillingInv
<1>3. TypeOK' /\ PaymentInv' /\ BillInv'
  BY <1>1, MoveRest
<1> QED
  BY <1>2, <1>3 DEF BillingInv

\* The operations that carry no obligation but the total they read.
LEMMA Plain ==
  ASSUME NEW d \in Operation, d.row.total <= Placed,
         d.pc \notin HasAnswer \cup InChat \cup {"call", "ask", "recounted", "close"},
         d.then # "ask", d.source # "PAYMENT_APPROVED"
  PROVE  Sound(d) /\ Rows(d)
BY DEF Sound, Rows, HasAnswer, InChat

LEMMA IdleFields ==
  /\ Idle \in Operation
  /\ Idle.pc = "idle" /\ Idle.then = "idle" /\ Idle.pay = NoPayment /\ Idle.row = NewTab
  /\ Idle.sum = 0 /\ Idle.answer = "none" /\ Idle.source = "none" /\ ~Idle.settled
  /\ NewTab \in Tab /\ NewTab.total = 0 /\ NewTab.status = "OPEN"
<1>1. Cardinality(Orders) \in Nat
  BY FS_CardinalityType
<1>2. NewTab \in Tab /\ NewTab.total = 0 /\ NewTab.status = "OPEN"
  BY <1>1 DEF NewTab, Tab, Amounts
<1> QED
  BY <1>1, <1>2 DEF Idle, Operation, Amounts, Answers, Sources

LEMMA Counts == ASSUME BillingInv PROVE Placed \in Nat /\ Placed \in Amounts /\ Owed \in Amounts /\ Owed <= Placed
BY OrderSums, FS_CardinalityType DEF BillingInv, Amounts

\* An actor goes on, and nothing else changes but queue, page and count.
LEMMA Only ==
  ASSUME BillingInv, NEW a \in Actors, NEW d \in Operation, Moves(a, d),
         UNCHANGED <<tab, bill, notice, payments, provider>>,
         webhooks' \in Seq(Payments),
         polling' \in [Guests -> Payments \cup {NoPayment}], ops' \in 0..MaxOps,
         Sound(d), Rows(d), d.pc \notin {"call", "tell"},
         d.pc \in {"ordering", "close"} => ~Locked
  PROVE  BillingInv'
<1>1. tab' \in Tab /\ tab'.total <= Placed
  BY DEF BillingInv, TypeOK, BillInv
<1> QED
  BY <1>1, Move DEF bill

LEMMA Untouched ==
  ASSUME BillingInv
  PROVE  /\ UNCHANGED webhooks => webhooks' \in Seq(Payments)
         /\ UNCHANGED polling => polling' \in [Guests -> Payments \cup {NoPayment}]
         /\ UNCHANGED ops => ops' \in 0..MaxOps
         /\ ops < MaxOps /\ ops' = ops + 1 => ops' \in 0..MaxOps
         /\ \A a \in Actors : doing[a] \in Operation
         /\ \A a \in Actors, p \in Payments \cup {NoPayment} :
              PageGets(a, p) => polling' \in [Guests -> Payments \cup {NoPayment}]
<1>1. TypeOK
  BY DEF BillingInv
<1>2. UNCHANGED webhooks => webhooks' \in Seq(Payments)
  BY <1>1 DEF TypeOK
<1>3. /\ UNCHANGED polling => polling' \in [Guests -> Payments \cup {NoPayment}]
      /\ UNCHANGED ops => ops' \in 0..MaxOps
      /\ ops < MaxOps /\ ops' = ops + 1 => ops' \in 0..MaxOps
  BY <1>1 DEF TypeOK
<1>4. \A a \in Actors : doing[a] \in Operation
  BY <1>1 DEF TypeOK
<1>5. \A a \in Actors, p \in Payments \cup {NoPayment} :
              PageGets(a, p) => polling' \in [Guests -> Payments \cup {NoPayment}]
  BY <1>1 DEF TypeOK, PageGets
<1> QED
  BY <1>2, <1>3, <1>4, <1>5

\* What a page or the panel knows of the tab once it has loaded it.
LEMMA SnapshotFields ==
  ASSUME BillingInv
  PROVE  /\ Snapshot \in Tab /\ Snapshot.status = tab.status /\ Snapshot.total = Owed
         /\ tab \in Tab /\ tab.total <= Placed
<1>1. tab \in Tab /\ tab.total <= Placed
  BY DEF BillingInv, TypeOK, BillInv
<1>2. Owed \in Amounts /\ Confirmed \in Nat
  BY Counts, Sums DEF BillingInv
<1>3. Larger(tab.paid, Confirmed) \in Nat
  BY <1>1, <1>2 DEF Larger, Tab
<1> QED
  BY <1>1, <1>2, <1>3 DEF Snapshot, Tab

LEMMA Loads ==
  ASSUME BillingInv, NEW a \in Actors, NEW d \in Operation, LoadTab(a, d),
         d.pc = "idle", d.row = NewTab, d.source = "none", d.then = "ask" => d.pay \in Payments,
         UNCHANGED <<tab, bill, notice, outside, payments, polling>>, ops' \in 0..MaxOps
  PROVE  BillingInv'
<1> DEFINE changed == Snapshot.total # tab.total \/ Snapshot.paid # tab.paid
           e == [d EXCEPT !.pc = IF changed THEN "writeBack" ELSE d.then,
                          !.row = IF d.then = "idle" /\ ~changed THEN NewTab ELSE Snapshot]
<1>1. /\ e \in Operation /\ e.pc \in {"writeBack", d.then} /\ e.then = d.then /\ e.pay = d.pay
      /\ e.source = "none" /\ e.row \in {NewTab, Snapshot}
  BY SnapshotFields, IdleFields DEF Operation
<1>2. Moves(a, e)
  BY DEF LoadTab, Goto, Moves
<1>3. e.row.total <= Placed
  BY <1>1, SnapshotFields, IdleFields, Counts
<1>4. d.then \in {"idle", "create", "ask", "exit"}
  BY DEF Operation
<1> HIDE DEF e
<1>5. Sound(e) /\ Rows(e)
  BY <1>1, <1>3, <1>4 DEF Sound, Rows, HasAnswer, InChat
<1> QED
  BY <1>1, <1>2, <1>4, <1>5, Only, Untouched DEF outside

---------------------------------------------------------------------------
(* orders *)

\* An actor goes on with an operation that carries no obligation.
LEMMA GoesPlain ==
  ASSUME BillingInv, NEW a \in Actors, NEW d \in Operation, Goto(a, d),
         d.row.total <= Placed,
         d.pc \notin HasAnswer \cup InChat \cup {"call", "tell", "ask", "recounted", "close"},
         d.then # "ask", d.source # "PAYMENT_APPROVED", d.pc = "ordering" => ~Locked,
         UNCHANGED <<tab, bill, notice, outside, payments>>, ops' \in 0..MaxOps,
         polling' \in [Guests -> Payments \cup {NoPayment}]
  PROVE  BillingInv'
<1>1. Moves(a, d) /\ Sound(d) /\ Rows(d)
  BY Plain DEF Goto, Moves
<1> QED
  BY <1>1, Only, Untouched DEF outside

\* The operations that begin from nothing.
LEMMA Fresh ==
  ASSUME BillingInv, NEW pc \in {"ordering", "reload", "recount", "leave"}
  PROVE  /\ [Idle EXCEPT !.pc = pc] \in Operation
         /\ [Idle EXCEPT !.pc = pc].pc = pc
         /\ [Idle EXCEPT !.pc = pc].row.total <= Placed
         /\ [Idle EXCEPT !.pc = pc].then = "idle"
         /\ [Idle EXCEPT !.pc = pc].source = "none"
BY IdleFields, Counts DEF Operation

\* An actor ends its operation.
LEMMA Ends ==
  ASSUME BillingInv, NEW a \in Actors, Goto(a, Idle),
         UNCHANGED <<tab, bill, notice, outside, payments, ops>>,
         polling' \in [Guests -> Payments \cup {NoPayment}]
  PROVE  BillingInv'
<1>1. Idle \in Operation /\ Idle.row.total <= Placed /\ Idle.pc = "idle" /\ Idle.then = "idle" /\ Idle.source = "none"
  BY IdleFields, Counts
<1> QED
  BY <1>1, GoesPlain, Untouched DEF HasAnswer, InChat

LEMMA OrderLockStep == ASSUME BillingInv, NEW a \in Actors, OrderLock(a) PROVE BillingInv'
<1> DEFINE d == [Idle EXCEPT !.pc = "ordering"]
<1>1. d \in Operation /\ d.pc = "ordering" /\ d.row.total <= Placed /\ d.then = "idle" /\ d.source = "none"
  BY Fresh
<1>2. Goto(a, d) /\ ~Locked /\ ops' \in 0..MaxOps /\ UNCHANGED <<tab, bill, notice, outside, payments, polling>>
  BY Untouched DEF OrderLock, TabFree, Begins
<1> HIDE DEF d
<1> QED
  BY <1>1, <1>2, GoesPlain, Untouched DEF HasAnswer, InChat

LEMMA OrderRefusedStep == ASSUME BillingInv, NEW a \in Actors, OrderRefused(a) PROVE BillingInv'
BY Ends, Untouched DEF OrderRefused

LEMMA ReloadStep == ASSUME BillingInv, NEW a \in Actors, Reload(a) PROVE BillingInv'
<1>1. LoadTab(a, Idle) /\ UNCHANGED <<tab, bill, notice, outside, payments, polling>> /\ ops' \in 0..MaxOps
  BY Untouched DEF Reload
<1> QED
  BY <1>1, IdleFields, Loads

LEMMA WriteBackStep == ASSUME BillingInv, NEW a \in Actors, WriteBack(a) PROVE BillingInv'
<1> DEFINE old == doing[a]
           on == [doing[a] EXCEPT !.pc = doing[a].then]
           row == [tab EXCEPT !.total = doing[a].row.total, !.paid = doing[a].row.paid]
<1>0. /\ old \in Operation /\ Sound(old) /\ Rows(old) /\ old.row \in Tab
      /\ tab \in Tab /\ tab.total <= Placed /\ Placed \in Nat
  BY Counts DEF BillingInv, TypeOK, PaymentInv, BillInv, Operation
<1>1. row \in Tab /\ row.total <= Placed
  BY <1>0 DEF Rows, Tab
<1>2. tab' = row /\ ~Locked /\ UNCHANGED <<bill, notice, outside, payments, polling, ops>>
  BY DEF WriteBack
<1>3. /\ on \in Operation /\ on.pc = old.then /\ on.then = old.then /\ on.pay = old.pay
      /\ on.row = old.row /\ on.source = old.source
      /\ old.then \in {"idle", "create", "ask", "exit"}
  BY <1>0 DEF Operation
<1>4. Sound(on) /\ Rows(on)
  <2> HIDE DEF on
  <2> QED BY <1>0, <1>3 DEF Sound, Rows, HasAnswer, InChat
<1>5. Idle \in Operation /\ Sound(Idle) /\ Rows(Idle) /\ Idle.pc = "idle"
  BY IdleFields, Counts, Plain DEF HasAnswer, InChat
<1>6. PICK d \in {Idle, on} : Moves(a, d)
  BY DEF WriteBack, Goto, Moves
<1> HIDE DEF on, old, row
<1>7. d \in Operation /\ Sound(d) /\ Rows(d) /\ d.pc \in {"idle", "create", "ask", "exit"}
  BY <1>3, <1>4, <1>5
<1> QED
  BY <1>1, <1>2, <1>6, <1>7, Move, Untouched DEF bill, outside

LEMMA RecountStep == ASSUME BillingInv, NEW a \in Actors, Recount(a) PROVE BillingInv'
<1> DEFINE d == [Idle EXCEPT !.pc = "recounted", !.sum = Owed]
<1>1. d \in Operation /\ d.pc = "recounted" /\ d.sum = Owed /\ d.row = NewTab /\ d.then = "idle" /\ d.source = "none"
  BY IdleFields, Counts DEF Operation
<1>2. Moves(a, d) /\ UNCHANGED <<tab, bill, notice, outside, payments, polling, ops>>
  BY DEF Recount, Goto, Moves
<1> HIDE DEF d
<1>3. Sound(d) /\ Rows(d)
  BY <1>1, IdleFields, Counts DEF Sound, Rows, HasAnswer, InChat
<1> QED
  BY <1>1, <1>2, <1>3, Only, Untouched DEF outside

LEMMA RecountedStep == ASSUME BillingInv, NEW a \in Actors, Recounted(a) PROVE BillingInv'
<1> DEFINE row == [tab EXCEPT !.total = doing[a].sum]
<1>0. /\ doing[a] \in Operation /\ Rows(doing[a]) /\ doing[a].pc = "recounted" /\ tab \in Tab
  BY DEF BillingInv, TypeOK, BillInv, Recounted
<1>1. row \in Tab /\ row.total <= Placed
  BY <1>0 DEF Rows, Tab, Operation
<1>2. tab' = row /\ ~Locked /\ UNCHANGED <<bill, notice, outside, payments, polling, ops>> /\ Moves(a, Idle)
  BY DEF Recounted, Goto, Moves
<1>3. Idle \in Operation /\ Sound(Idle) /\ Rows(Idle) /\ Idle.pc = "idle"
  BY IdleFields, Counts, Plain DEF HasAnswer, InChat
<1> HIDE DEF row
<1> QED
  BY <1>1, <1>2, <1>3, Move, Untouched DEF bill, outside

LEMMA ChatReadStep == ASSUME BillingInv, NEW c \in Actors, ChatRead(c) PROVE BillingInv'
<1> DEFINE d == [Idle EXCEPT !.pc = "chatInsert", !.row = tab]
<1>0. tab \in Tab /\ tab.total <= Placed /\ tab.status = "OPEN"
  BY SnapshotFields DEF ChatRead
<1>1. d \in Operation /\ d.pc = "chatInsert" /\ d.row = tab /\ d.then = "idle" /\ d.source = "none"
  BY <1>0, IdleFields DEF Operation
<1>2. Moves(c, d) /\ UNCHANGED <<tab, bill, notice, outside, payments, polling>> /\ ops' \in 0..MaxOps
  BY Untouched DEF ChatRead, Goto, Moves, Begins
<1> HIDE DEF d
<1>3. Sound(d) /\ Rows(d)
  BY <1>0, <1>1 DEF Sound, Rows, HasAnswer, InChat
<1> QED
  BY <1>1, <1>2, <1>3, Only, Untouched DEF outside

LEMMA ChatSaveStep == ASSUME BillingInv, NEW c \in Actors, ChatSave(c) PROVE BillingInv'
<1> DEFINE row == [doing[c].row EXCEPT !.total = @ + 1]
<1>0. /\ doing[c] \in Operation /\ Rows(doing[c]) /\ doing[c].pc = "chatSave" /\ doing[c].row \in Tab
      /\ Placed \in Amounts /\ Placed \in Nat
  BY Counts DEF BillingInv, TypeOK, BillInv, ChatSave, Operation
<1>1. row \in Tab /\ row.total <= Placed
  <2>1. doing[c].row.total + 1 <= Placed
    BY <1>0 DEF Rows
  <2>2. doing[c].row.total + 1 \in Amounts
    <3>1. doing[c].row.total \in Amounts
      BY <1>0 DEF Tab
    <3> QED
      BY <1>0, <2>1, <3>1, FS_CardinalityType DEF Amounts
  <2> QED
    BY <1>0, <2>1, <2>2 DEF Tab
<1>2. tab' = row /\ ~Locked /\ UNCHANGED <<bill, notice, outside, payments, polling, ops>> /\ Moves(c, Idle)
  BY DEF ChatSave, Goto, Moves
<1>3. Idle \in Operation /\ Sound(Idle) /\ Rows(Idle) /\ Idle.pc = "idle"
  BY IdleFields, Counts, Plain DEF HasAnswer, InChat
<1> HIDE DEF row
<1> QED
  BY <1>1, <1>2, <1>3, Move, Untouched DEF bill, outside

\* An order changes: none is unplaced again, one that is not placed is not locked.
LEMMA OrdersGo ==
  ASSUME BillingInv, orders' \in [Orders -> Order],
         \A o \in Orders : orders[o].status # "NONE" => orders'[o].status # "NONE",
         \A o \in Orders : orders'[o].status = "NONE" => ~orders'[o].locked,
         UNCHANGED <<tab, manual, closedBy, notice, outside, payments, polling>>, ops' \in 0..MaxOps
  PROVE  /\ Placed <= Placed' /\ Placed' \in Nat
         /\ Received' = Received /\ Received \in Nat
         /\ doing' \in [Actors -> Operation] => TypeOK'
<1>1. doing' \in [Actors -> Operation] => TypeOK'
  BY Untouched DEF BillingInv, TypeOK, notice, outside
<1>2. Received' = Received
  BY DEF Received, AmountOf, outside
<1>3. Received \in Nat /\ Placed \in Nat
  BY Sums, Counts DEF BillingInv
<1> DEFINE placed == {o \in Orders : orders[o].status # "NONE"}
           later == {o \in Orders : orders'[o].status # "NONE"}
<1>4. placed \in SUBSET later /\ later \in SUBSET Orders
  OBVIOUS
<1>5. IsFiniteSet(later)
  BY <1>4, FS_Subset
<1>6. Cardinality(placed) <= Cardinality(later) /\ Cardinality(later) \in Nat
  BY <1>4, <1>5, FS_Subset, FS_CardinalityType
<1>7. Placed = Cardinality(placed) /\ Placed' = Cardinality(later)
  BY DEF Placed
<1> QED
  BY <1>1, <1>2, <1>3, <1>6, <1>7

LEMMA OrderTyped ==
  ASSUME BillingInv, NEW o \in Orders
  PROVE  /\ orders \in [Orders -> Order] /\ orders[o] \in Order
         /\ orders[o].status = "NONE" => ~orders[o].locked
         /\ \A q \in Orders : orders[q].status = "NONE" => ~orders[q].locked
BY DEF BillingInv, TypeOK, BillInv

\* What is left when orders go on and an actor with them: told and payments.
LEMMA OrdersLeave ==
  ASSUME BillingInv, NEW a \in Actors, NEW d \in Operation, Moves(a, d),
         orders' \in [Orders -> Order],
         \A o \in Orders : orders[o].status # "NONE" => orders'[o].status # "NONE",
         \A o \in Orders : orders'[o].status = "NONE" => ~orders'[o].locked,
         UNCHANGED <<tab, manual, closedBy, notice, outside, payments, polling, ops>>,
         d.pc \in {"reload", "recount", "chatSave"}, Sound(d), Rows(d)',
         \A b \in Actors \ {a} : doing[b].pc = "close" => Billed' <= Billed
  PROVE  BillingInv'
<1>1. /\ Placed <= Placed' /\ Placed' \in Nat /\ Placed \in Nat
      /\ Received' = Received /\ Received \in Nat /\ TypeOK'
  BY OrdersGo, Moved, Untouched, Counts DEF BillingInv
<1>2. ToldInv'
  BY ToldKept DEF BillingInv
<1>3. PaymentInv'
  <2>1. provider' = provider /\ payments' = payments /\ closedBy' = closedBy
    BY DEF outside
  <2>2. Sound(d)'
    BY <2>1 DEF Sound
  <2>3. /\ \A p \in Payments : payments[p].status = "NONE" => provider[p] = "none"
        /\ \A p \in Payments : payments[p].status = "CONFIRMED" => provider[p] = "approved"
    BY DEF BillingInv, PaymentInv
  <2> QED
    BY <2>1, <2>2, <2>3, PaymentKept DEF BillingInv
<1>4. BillInv'
  <2>1. tab' = tab /\ tab.total <= Placed /\ tab.total \in Nat
    BY FS_CardinalityType DEF BillingInv, BillInv, TypeOK, Tab, Amounts
  <2> QED
    BY <1>1, <2>1, BillKept DEF BillingInv, HoldsTab
<1> QED
  BY <1>1, <1>2, <1>3, <1>4 DEF BillingInv

LEMMA OrderCommitStep ==
  ASSUME BillingInv, NEW a \in Actors, NEW o \in Orders, OrderCommit(a, o) PROVE BillingInv'
<1> DEFINE d == [Idle EXCEPT !.pc = IF a \in Guests THEN "reload" ELSE "recount"]
<1>1. PICK pc \in {"reload", "recount"} : d = [Idle EXCEPT !.pc = pc]
  OBVIOUS
<1>2. d \in Operation /\ d.pc \in {"reload", "recount"} /\ d.row.total <= Placed /\ d.then = "idle" /\ d.source = "none"
  BY <1>1, Fresh
<1>3. /\ Moves(a, d) /\ doing[a].pc = "ordering"
      /\ orders' = [orders EXCEPT ![o] = [status |-> "ACTIVE", locked |-> TRUE]]
      /\ UNCHANGED <<tab, manual, closedBy, notice, outside, payments, polling, ops>>
  BY DEF OrderCommit, Goto, Moves
<1> HIDE DEF d
<1>4. /\ orders' \in [Orders -> Order]
      /\ \A q \in Orders : orders[q].status # "NONE" => orders'[q].status # "NONE"
      /\ \A q \in Orders : orders'[q].status = "NONE" => ~orders'[q].locked
  BY <1>3, OrderTyped DEF Order
<1>5. Sound(d)
  BY <1>2, Plain DEF HasAnswer, InChat
<1>6. Rows(d)'
  <2>1. d.row.total <= Placed'
    <3>1. d.row.total \in Nat
      BY <1>2, FS_CardinalityType DEF Operation, Tab, Amounts
    <3>2. Placed <= Placed' /\ Placed' \in Nat /\ Placed \in Nat
      BY <1>3, <1>4, OrdersGo, Counts, Untouched
    <3> QED
      BY <1>2, <3>1, <3>2
  <2> QED
    BY <1>2, <2>1 DEF Rows, InChat
<1>7. \A b \in Actors \ {a} : doing[b].pc # "close"
  BY <1>3 DEF BillingInv, BillInv, OneHolder, HoldsTab
<1> QED
  BY <1>2, <1>3, <1>4, <1>5, <1>6, <1>7, OrdersLeave

LEMMA ChatInsertStep ==
  ASSUME BillingInv, NEW c \in Actors, NEW o \in Orders, ChatInsert(c, o) PROVE BillingInv'
<1>1. doing[c] \in Operation /\ doing[c].pc = "chatInsert" /\ Sound(doing[c]) /\ Rows(doing[c])
  BY DEF ChatInsert, BillingInv, TypeOK, PaymentInv, BillInv
<1>d. PICK d : d = [doing[c] EXCEPT !.pc = "chatSave"]
  OBVIOUS
<1>2. /\ d \in Operation /\ d.pc = "chatSave" /\ d.row = doing[c].row /\ d.then = doing[c].then
      /\ d.source = doing[c].source /\ d.pay = doing[c].pay
  BY <1>d, <1>1 DEF Operation
<1>3. /\ Moves(c, d) /\ orders[o].status = "NONE"
      /\ orders' = [orders EXCEPT ![o].status = "ACTIVE"]
      /\ UNCHANGED <<tab, manual, closedBy, notice, outside, payments, polling, ops>>
  BY <1>d DEF ChatInsert, Goto, Moves, NewOrder
<1>4. /\ orders' \in [Orders -> Order]
      /\ \A q \in Orders : orders[q].status # "NONE" => orders'[q].status # "NONE"
      /\ \A q \in Orders : orders'[q].status = "NONE" => ~orders'[q].locked
      /\ \A q \in Orders \ {o} : orders'[q] = orders[q]
      /\ orders'[o].status = "ACTIVE" /\ orders'[o].locked = orders[o].locked /\ ~orders[o].locked
  <2>1. orders'[o] = [orders[o] EXCEPT !.status = "ACTIVE"]
    BY <1>3, OrderTyped
  <2>2. orders'[o] \in Order /\ orders'[o].status = "ACTIVE" /\ orders'[o].locked = orders[o].locked
    BY <2>1, OrderTyped DEF Order
  <2> QED
    BY <1>3, <2>2, OrderTyped
<1>5. Sound(d)
  BY <1>1, <1>2 DEF Sound, HasAnswer
<1>6. Placed' = Placed + 1
  <2> DEFINE placed == {q \in Orders : orders[q].status # "NONE"}
  <2>1. {q \in Orders : orders'[q].status # "NONE"} = placed \cup {o}
    BY <1>4
  <2>2. IsFiniteSet(placed) /\ o \notin placed
    <3>1. placed \in SUBSET Orders
      OBVIOUS
    <3> QED
      BY <1>3, <3>1, FS_Subset
  <2>3. Cardinality(placed \cup {o}) = Cardinality(placed) + 1
    <3> HIDE DEF placed
    <3> QED BY <2>2, FS_AddElement, Zenon
  <2> QED
    BY <2>1, <2>3 DEF Placed
<1>7. Rows(d)'
  <2>1. d.row.total <= Placed /\ d.row.status = "OPEN"
    BY <1>1, <1>2 DEF Rows, InChat
  <2>2. d.row.total \in Nat /\ Placed \in Nat
    BY <1>2, Counts, FS_CardinalityType DEF Operation, Tab, Amounts
  <2>3. d.row.total <= Placed' /\ d.row.total + 1 <= Placed'
    BY <1>6, <2>1, <2>2
  <2> QED
    BY <1>2, <2>1, <2>3 DEF Rows
<1>8. Billed' <= Billed
  <2>1. \A q \in Orders : orders'[q].locked /\ orders'[q].status \in {"ACTIVE", "DELIVERED"}
                          <=> orders[q].locked /\ orders[q].status \in {"ACTIVE", "DELIVERED"}
    BY <1>4
  <2>2. Billed' = Billed
    BY <2>1 DEF Billed
  <2>3. Billed \in Nat
    BY OrderSums, FS_CardinalityType DEF BillingInv, Amounts
  <2> QED
    BY <2>2, <2>3
<1> QED
  BY <1>2, <1>3, <1>4, <1>5, <1>7, <1>8, OrdersLeave

LEMMA OrderEndsStep == ASSUME BillingInv, NEW o \in Orders, OrderEnds(o) PROVE BillingInv'
<1>1. PICK status \in {"DELIVERED", "CANCELED"} : orders' = [orders EXCEPT ![o].status = status]
  BY DEF OrderEnds
<1>2. /\ orders[o].status = "ACTIVE" /\ ops' \in 0..MaxOps
      /\ UNCHANGED <<tab, manual, closedBy, notice, outside, payments, polling, doing>>
  BY Untouched DEF OrderEnds
<1>4. /\ orders' \in [Orders -> Order]
      /\ \A q \in Orders : orders[q].status # "NONE" => orders'[q].status # "NONE"
      /\ \A q \in Orders : orders'[q].status = "NONE" => ~orders'[q].locked
      /\ \A q \in Orders \ {o} : orders'[q] = orders[q]
      /\ orders'[o].status = status /\ orders'[o].locked = orders[o].locked
  <2>1. orders'[o] = [orders[o] EXCEPT !.status = status]
    BY <1>1, OrderTyped
  <2>2. orders'[o] \in Order /\ orders'[o].status = status /\ orders'[o].locked = orders[o].locked
    BY <2>1, OrderTyped DEF Order
  <2> QED
    BY <1>1, <2>2, OrderTyped
<1>5. doing \in [Actors -> Operation] /\ TypeOK /\ BillInv
  BY DEF BillingInv, TypeOK
<1>6. /\ Placed <= Placed' /\ Placed' \in Nat /\ Placed \in Nat
      /\ Received' = Received /\ Received \in Nat /\ TypeOK'
  BY <1>2, <1>4, <1>5, OrdersGo, Counts
<1>7. Billed' <= Billed /\ Billed \in Nat /\ Billed' \in Nat
  <2> DEFINE billed == {q \in Orders : orders[q].locked /\ orders[q].status \in {"ACTIVE", "DELIVERED"}}
             later == {q \in Orders : orders'[q].locked /\ orders'[q].status \in {"ACTIVE", "DELIVERED"}}
  <2>1. later \in SUBSET billed /\ billed \in SUBSET Orders
    BY <1>2, <1>4
  <2>2. IsFiniteSet(billed)
    BY <2>1, FS_Subset
  <2>3. IsFiniteSet(later) /\ Cardinality(later) <= Cardinality(billed)
    BY <2>1, <2>2, FS_Subset
  <2>4. Cardinality(billed) \in Nat /\ Cardinality(later) \in Nat
    BY <2>2, <2>3, FS_CardinalityType
  <2>5. Billed = Cardinality(billed) /\ Billed' = Cardinality(later)
    BY DEF Billed
  <2> QED
    BY <2>3, <2>4, <2>5
<1>8. ToldInv' /\ PaymentInv'
  <2>1. /\ claimed' = claimed /\ told' = told /\ doing' = doing
        /\ payments' = payments /\ provider' = provider /\ closedBy' = closedBy
    BY <1>2 DEF notice, outside
  <2> QED
    BY <2>1 DEF BillingInv, ToldInv, PaymentInv, Sound, OneCaller
<1>9. BillInv'
  <2>1. \A a \in Actors : Rows(doing[a])'
    <3> SUFFICES ASSUME NEW a \in Actors PROVE Rows(doing[a])'
      OBVIOUS
    <3>1. doing[a] \in Operation /\ Rows(doing[a]) /\ doing' = doing /\ tab' = tab
      BY <1>2, <1>5 DEF BillInv
    <3>2. doing[a].row.total \in Nat /\ doing[a].sum \in Nat
      BY <3>1, FS_CardinalityType DEF Operation, Tab, Amounts
    <3> QED
      BY <1>6, <1>7, <3>1, <3>2 DEF Rows
  <2>2. (tab.total <= Placed)'
    <3>1. tab.total \in Nat /\ tab.total <= Placed /\ tab' = tab
      BY <1>2, <1>5, FS_CardinalityType DEF TypeOK, BillInv, Tab, Amounts
    <3> QED
      BY <1>6, <3>1
  <2>3. OneHolder'
    BY <1>2, <1>5 DEF BillInv, OneHolder
  <2> QED
    BY <1>4, <2>1, <2>2, <2>3 DEF BillInv
<1> QED
  BY <1>6, <1>8, <1>9 DEF BillingInv

---------------------------------------------------------------------------
(* payments *)

LEMMA Known ==
  ASSUME BillingInv, NEW a \in Actors
  PROVE  /\ doing[a] \in Operation /\ Sound(doing[a]) /\ Rows(doing[a])
         /\ doing[a].row \in Tab /\ doing[a].row.total <= Placed
         /\ doing[a].answer \in Answers /\ doing[a].settled \in BOOLEAN
         /\ doing[a].pay \in Payments \cup {NoPayment}
         /\ doing[a].then \in {"idle", "create", "ask", "exit"}
BY DEF BillingInv, TypeOK, PaymentInv, BillInv, Operation, Rows

LEMMA PaymentTyped ==
  ASSUME BillingInv
  PROVE  /\ payments \in [Payments -> Payment] /\ provider \in [Payments -> Answers]
         /\ \A p \in Payments : payments[p] \in Payment
         /\ \A p \in Payments : payments[p].status = "NONE" => provider[p] = "none"
         /\ \A p \in Payments : payments[p].status = "CONFIRMED" => provider[p] = "approved"
BY DEF BillingInv, TypeOK, PaymentInv

\* A statement of a payment or an answer of the provider.
LEMMA PaymentsGo ==
  ASSUME BillingInv, NEW a \in Actors, NEW d \in Operation, Moves(a, d),
         UNCHANGED <<tab, bill, notice, webhooks, ops>>,
         polling' \in [Guests -> Payments \cup {NoPayment}],
         payments' \in [Payments -> Payment], provider' \in [Payments -> Answers],
         Sound(d)', Rows(d), d.pc \notin {"tell", "ordering", "close"},
         \A p \in Payments : provider[p] = "approved" =>
           provider'[p] = "approved" /\ payments'[p].amount = payments[p].amount,
         \A p \in Payments : payments[p].status # "NONE" => payments'[p].status # "NONE",
         \A b \in Actors \ {a} : doing[b].pc = "call" => provider'[doing[b].pay] = provider[doing[b].pay],
         d.pc = "call" => \A b \in Actors \ {a} : doing[b].pc = "call" => doing[b].pay # d.pay,
         \A p \in Payments : payments'[p].status = "NONE" => provider'[p] = "none",
         \A p \in Payments : payments'[p].status = "CONFIRMED" => provider'[p] = "approved"
  PROVE  BillingInv'
<1>0. TypeOK /\ PaymentInv /\ ToldInv /\ BillInv
  BY DEF BillingInv
<1>u. tab' = tab /\ orders' = orders /\ manual' = manual /\ closedBy' = closedBy
  BY DEF bill
<1>1. TypeOK'
  BY <1>0, <1>u, Moved DEF TypeOK, notice
<1>2. ToldInv'
  BY <1>0, ToldKept
<1>3. PaymentInv'
  BY <1>0, <1>u, PaymentKept
<1>4. BillInv'
  <2>1. Placed' = Placed /\ Billed' = Billed /\ Placed \in Nat
    BY <1>u, Counts DEF Placed, Billed
  <2>2. Received \in Nat /\ Received' \in Nat /\ Received <= Received'
    BY <1>0, <1>u, ReceivedStays
  <2>3. Billed \in Nat
    BY <1>0, OrderSums, FS_CardinalityType DEF Amounts
  <2>4. Rows(d)'
    BY <1>u, <2>1 DEF Rows, InChat
  <2>5. tab.total <= Placed /\ \A o \in Orders : orders[o].status = "NONE" => ~orders[o].locked
    BY <1>0 DEF BillInv
  <2> QED
    BY <1>0, <1>1, <1>u, <2>1, <2>2, <2>3, <2>4, <2>5, BillKept DEF HoldsTab
<1> QED
  BY <1>1, <1>2, <1>3, <1>4 DEF BillingInv

LEMMA PayPageStep == ASSUME BillingInv, NEW g \in Actors, Pay(g) PROVE BillingInv'
<1> DEFINE d == [Idle EXCEPT !.then = "create"]
<1>1. d \in Operation /\ d.pc = "idle" /\ d.row = NewTab /\ d.source = "none" /\ d.then = "create"
  BY IdleFields DEF Operation
<1>2. LoadTab(g, d) /\ UNCHANGED <<tab, bill, notice, outside, payments, polling>> /\ ops' \in 0..MaxOps
  BY Untouched DEF Pay, Begins
<1> HIDE DEF d
<1> QED
  BY <1>1, <1>2, Loads

LEMMA ExitStep == ASSUME BillingInv, NEW g \in Actors, Exit(g) PROVE BillingInv'
<1> DEFINE d == [Idle EXCEPT !.then = "exit"]
<1>1. d \in Operation /\ d.pc = "idle" /\ d.row = NewTab /\ d.source = "none" /\ d.then = "exit"
  BY IdleFields DEF Operation
<1>2. LoadTab(g, d) /\ UNCHANGED <<tab, bill, notice, outside, payments, polling>> /\ ops' \in 0..MaxOps
  BY Untouched DEF Exit, Begins
<1> HIDE DEF d
<1> QED
  BY <1>1, <1>2, Loads

LEMMA PollStep == ASSUME BillingInv, NEW g \in Guests, Poll(g) PROVE BillingInv'
<1> DEFINE d == [Idle EXCEPT !.then = "ask", !.pay = polling[g]]
<1>0. polling[g] \in Payments /\ g \in Actors
  BY DEF Poll, BillingInv, TypeOK, Actors
<1>1. d \in Operation /\ d.pc = "idle" /\ d.row = NewTab /\ d.source = "none" /\ d.then = "ask" /\ d.pay = polling[g]
  BY <1>0, IdleFields DEF Operation
<1>2. LoadTab(g, d) /\ UNCHANGED <<tab, bill, notice, outside, payments, polling>> /\ ops' \in 0..MaxOps
  BY Untouched DEF Poll
<1> HIDE DEF d
<1> QED
  BY <1>0, <1>1, <1>2, Loads

LEMMA RetryStep == ASSUME BillingInv, NEW s \in Actors, NEW p \in Payments, Retry(s, p) PROVE BillingInv'
<1> DEFINE d == [Idle EXCEPT !.pc = "create", !.row = tab]
<1>1. d \in Operation /\ d.pc = "create" /\ d.row.total <= Placed /\ d.then = "idle" /\ d.source = "none"
  BY IdleFields, SnapshotFields DEF Operation
<1>2. Goto(s, d) /\ ops' \in 0..MaxOps /\ UNCHANGED <<tab, bill, notice, outside, payments, polling>>
  BY Untouched DEF Retry, Begins
<1> HIDE DEF d
<1> QED
  BY <1>1, <1>2, GoesPlain, Untouched DEF HasAnswer, InChat

LEMMA RefreshStep == ASSUME BillingInv, NEW s \in Actors, NEW p \in Payments, Refresh(s, p) PROVE BillingInv'
<1> DEFINE d == [Idle EXCEPT !.pc = "ask", !.pay = p]
<1>1. d \in Operation /\ d.pc = "ask" /\ d.row = NewTab /\ d.pay = p /\ d.then = "idle" /\ d.source = "none"
  BY IdleFields DEF Operation
<1>2. Moves(s, d) /\ ops' \in 0..MaxOps /\ UNCHANGED <<tab, bill, notice, outside, payments, polling>>
  BY Untouched DEF Refresh, Begins, Goto, Moves
<1> HIDE DEF d
<1>3. Sound(d) /\ Rows(d)
  BY <1>1, IdleFields, Counts DEF Sound, Rows, HasAnswer, InChat
<1> QED
  BY <1>1, <1>2, <1>3, Only, Untouched DEF outside

LEMMA AskNothingStep == ASSUME BillingInv, NEW a \in Actors, AskNothing(a) PROVE BillingInv'
BY Ends, Untouched DEF AskNothing

LEMMA AskAnsweredStep == ASSUME BillingInv, NEW a \in Actors, AskAnswered(a) PROVE BillingInv'
<1> DEFINE d == [doing[a] EXCEPT !.pc = "record", !.answer = provider[doing[a].pay],
                                 !.settled = payments[doing[a].pay].settled]
<1>0. doing[a] \in Operation /\ doing[a].pc = "ask" /\ doing[a].pay \in Payments
      /\ Sound(doing[a]) /\ Rows(doing[a])
  BY Known DEF AskAnswered, Sound
<1>1. provider[doing[a].pay] \in Answers /\ payments[doing[a].pay].settled \in BOOLEAN
  BY <1>0, PaymentTyped DEF Payment
<1>2. /\ d \in Operation /\ d.pc = "record" /\ d.answer = provider[doing[a].pay] /\ d.pay = doing[a].pay
      /\ d.row = doing[a].row /\ d.source = doing[a].source /\ d.then = doing[a].then
  BY <1>0, <1>1 DEF Operation
<1>3. Moves(a, d) /\ UNCHANGED <<tab, bill, notice, outside, payments, polling, ops>>
  BY DEF AskAnswered, Goto, Moves
<1> HIDE DEF d
<1>4. Sound(d) /\ Rows(d)
  BY <1>0, <1>2 DEF Sound, Rows, InChat
<1> QED
  BY <1>2, <1>3, <1>4, Only, Untouched DEF outside

\* A closing that is not about an approved payment carries no obligation.
LEMMA ClosingFields ==
  ASSUME NEW p \in Payments \cup {NoPayment}, NEW source \in Sources
  PROVE  /\ Closing(p, source) \in Operation /\ Closing(p, source).pc = "lock"
         /\ Closing(p, source).pay = p /\ Closing(p, source).source = source
         /\ Closing(p, source).then = "idle" /\ Closing(p, source).row = NewTab
BY IdleFields DEF Closing, Operation

LEMMA GoesClosing ==
  ASSUME BillingInv, NEW a \in Actors, NEW source \in {"MANUAL_SETTLEMENT", "EXIT_QR"},
         Goto(a, Closing(NoPayment, source)),
         UNCHANGED <<tab, bill, notice, outside, payments>>, ops' \in 0..MaxOps,
         polling' \in [Guests -> Payments \cup {NoPayment}]
  PROVE  BillingInv'
<1>d. PICK d : d = Closing(NoPayment, source)
  OBVIOUS
<1>1. /\ d \in Operation /\ d.pc = "lock" /\ d.row = NewTab /\ d.then = "idle" /\ d.source = source
  BY <1>d, IdleFields DEF Closing, Operation, Sources
<1>2. d.row.total <= Placed /\ Goto(a, d)
  BY <1>1, <1>d, IdleFields, Counts
<1> QED
  BY <1>1, <1>2, GoesPlain DEF HasAnswer, InChat

LEMMA AskFailsStep == ASSUME BillingInv, NEW a \in Actors, AskFails(a) PROVE BillingInv'
<1>1. CASE Goto(a, Idle)
  BY <1>1, Ends, Untouched DEF AskFails
<1>2. CASE Goto(a, Closing(NoPayment, "MANUAL_SETTLEMENT"))
  BY <1>2, GoesClosing, Untouched DEF AskFails
<1> QED
  BY <1>1, <1>2 DEF AskFails

LEMMA SettleByHandStep == ASSUME BillingInv, NEW s \in Actors, SettleByHand(s) PROVE BillingInv'
BY GoesClosing, Untouched DEF SettleByHand, Begins

LEMMA ExitCheckStep == ASSUME BillingInv, NEW g \in Actors, ExitCheck(g) PROVE BillingInv'
<1>0. UNCHANGED <<tab, bill, notice, outside, payments, polling, ops>>
  BY DEF ExitCheck
<1>1. CASE Goto(g, Idle)
  BY <1>0, <1>1, Ends, Untouched
<1>2. CASE Goto(g, Closing(NoPayment, "EXIT_QR"))
  BY <1>0, <1>2, GoesClosing, Untouched
<1>3. CASE Goto(g, [Idle EXCEPT !.pc = "leave"])
  <2> DEFINE d == [Idle EXCEPT !.pc = "leave"]
  <2>1. d \in Operation /\ d.pc = "leave" /\ d.row.total <= Placed /\ d.then = "idle" /\ d.source = "none"
    BY Fresh
  <2> HIDE DEF d
  <2>2. Goto(g, d)
    BY <1>3 DEF d
  <2> QED
    BY <1>0, <2>1, <2>2, GoesPlain, Untouched DEF HasAnswer, InChat
<1> QED
  BY <1>1, <1>2, <1>3 DEF ExitCheck

LEMMA CreatePaymentStep == ASSUME BillingInv, NEW a \in Actors, CreatePayment(a) PROVE BillingInv'
<1>0. UNCHANGED <<tab, bill, notice, outside, polling, ops>>
  BY DEF CreatePayment
<1>1. CASE Goto(a, Idle) /\ UNCHANGED payments
  BY <1>0, <1>1, Ends, Untouched
<1>2. ASSUME NEW p \in Payments, NewPayment(p),
             payments' = [payments EXCEPT ![p].amount = Due(doing[a].row), ![p].status = "PENDING"],
             Goto(a, [Idle EXCEPT !.pc = "call", !.pay = p])
      PROVE  BillingInv'
  <2>d. PICK d : d = [Idle EXCEPT !.pc = "call", !.pay = p]
    OBVIOUS
  <2>1. /\ d \in Operation /\ d.pc = "call" /\ d.pay = p /\ d.row = NewTab /\ d.then = "idle"
        /\ d.source = "none"
    BY <2>d, IdleFields DEF Operation
  <2>2. Due(doing[a].row) \in Amounts
    <3>1. doing[a].row.total \in Amounts /\ doing[a].row.paid \in Nat /\ Cardinality(Orders) \in Nat
      BY Known, FS_CardinalityType DEF Tab
    <3> QED
      BY <3>1 DEF Due, Least0, Amounts
  <2>3. payments[p].status = "NONE" /\ provider[p] = "none"
    BY <1>2, PaymentTyped DEF NewPayment
  <2>4. /\ payments' \in [Payments -> Payment] /\ payments'[p].status = "PENDING"
        /\ \A q \in Payments \ {p} : payments'[q] = payments[q]
    <3>1. payments' = [payments EXCEPT ![p] = [payments[p] EXCEPT !.amount = Due(doing[a].row), !.status = "PENDING"]]
      BY <1>2
    <3>2. ASSUME NEW n \in Amounts
          PROVE  /\ [payments[p] EXCEPT !.amount = n, !.status = "PENDING"] \in Payment
                 /\ [payments[p] EXCEPT !.amount = n, !.status = "PENDING"].status = "PENDING"
      BY PaymentTyped DEF Payment
    <3> QED
      BY <2>2, <3>1, <3>2, PaymentTyped
  <2>5. provider' = provider /\ webhooks' = webhooks /\ Moves(a, d)
    BY <1>0, <1>2, <2>d DEF outside, Goto, Moves
  <2>6. Sound(d)' /\ Rows(d)
    BY <2>1, <2>3, <2>4, <2>5, IdleFields, Counts DEF Sound, Rows, HasAnswer, InChat
  <2>7. \A b \in Actors \ {a} : doing[b].pc = "call" => doing[b].pay # p
    BY <2>3, Known DEF Sound
  <2>8. \A q \in Payments : provider[q] = "approved" => provider'[q] = "approved" /\ payments'[q].amount = payments[q].amount
    BY <2>3, <2>4, <2>5
  <2>9. /\ \A q \in Payments : payments[q].status # "NONE" => payments'[q].status # "NONE"
        /\ \A q \in Payments : payments'[q].status = "NONE" => provider'[q] = "none"
        /\ \A q \in Payments : payments'[q].status = "CONFIRMED" => provider'[q] = "approved"
    BY <2>3, <2>4, <2>5, PaymentTyped
  <2> QED
    BY <1>0, <2>1, <2>4, <2>5, <2>6, <2>7, <2>8, <2>9, PaymentsGo, PaymentTyped, Untouched
<1> QED
  BY <1>1, <1>2 DEF CreatePayment

\* What is known of a payment whose creation is under way.
LEMMA Calling ==
  ASSUME BillingInv, NEW a \in Actors, doing[a].pc = "call"
  PROVE  /\ doing[a].pay \in Payments /\ payments[doing[a].pay].status # "NONE"
         /\ provider[doing[a].pay] = "none" /\ payments[doing[a].pay].status # "CONFIRMED"
         /\ \A b \in Actors \ {a} : doing[b].pc = "call" => doing[b].pay # doing[a].pay
<1>1. Sound(doing[a])
  BY Known
<1>2. \A b \in Actors \ {a} : doing[b].pc = "call" => doing[b].pay # doing[a].pay
  BY DEF BillingInv, PaymentInv, OneCaller
<1> QED
  BY <1>1, <1>2, PaymentTyped DEF Sound

LEMMA CallAnsweredStep == ASSUME BillingInv, NEW a \in Actors, CallAnswered(a) PROVE BillingInv'
<1>1. PICK answer \in Answers \ {"none"} :
        /\ provider' = [provider EXCEPT ![doing[a].pay] = answer]
        /\ Goto(a, [doing[a] EXCEPT !.pc = "apply", !.answer = answer])
  BY DEF CallAnswered
<1>p. PICK p \in Payments : p = doing[a].pay
  BY Calling DEF CallAnswered
<1>d. PICK d : d = [doing[a] EXCEPT !.pc = "apply", !.answer = answer]
  OBVIOUS
<1>0. /\ UNCHANGED <<tab, bill, notice, webhooks, payments, polling, ops>> /\ doing[a].pc = "call"
      /\ doing[a] \in Operation /\ Sound(doing[a]) /\ Rows(doing[a])
  BY Known DEF CallAnswered
<1>2. /\ d \in Operation /\ d.pc = "apply" /\ d.pay = p /\ d.row = doing[a].row /\ d.then = doing[a].then
      /\ d.source = doing[a].source /\ d.answer = answer
  BY <1>0, <1>d, <1>p DEF Operation
<1>3. provider' \in [Payments -> Answers] /\ provider'[p] = answer /\ \A q \in Payments \ {p} : provider'[q] = provider[q]
  BY <1>1, <1>p, PaymentTyped
<1>4. /\ payments[p].status # "NONE" /\ provider[p] = "none" /\ payments[p].status # "CONFIRMED"
      /\ \A b \in Actors \ {a} : doing[b].pc = "call" => doing[b].pay # p
  BY <1>0, <1>p, Calling
<1>5. Sound(d)'
  <2>1. d.source = "PAYMENT_APPROVED" => d.pay \in Payments /\ provider[d.pay] = "approved"
    BY <1>0, <1>p, <1>2 DEF Sound
  <2> QED
    BY <1>2, <1>3, <1>4, <2>1 DEF Sound, HasAnswer
<1>6. Rows(d)
  BY <1>0, <1>2 DEF Rows, InChat
<1>7. \A b \in Actors \ {a} : doing[b].pc = "call" => provider'[doing[b].pay] = provider[doing[b].pay]
  <2> SUFFICES ASSUME NEW b \in Actors \ {a}, doing[b].pc = "call"
               PROVE  provider'[doing[b].pay] = provider[doing[b].pay]
    OBVIOUS
  <2>1. doing[b].pay \in Payments /\ doing[b].pay # p
    BY <1>4, Calling
  <2> QED
    BY <1>3, <2>1
<1>8. /\ Moves(a, d) /\ polling' \in [Guests -> Payments \cup {NoPayment}]
      /\ payments' = payments
  BY <1>0, <1>1, <1>d, Untouched DEF Goto, Moves
<1>9. /\ \A q \in Payments : provider[q] = "approved" => provider'[q] = "approved" /\ payments'[q].amount = payments[q].amount
      /\ \A q \in Payments : payments[q].status # "NONE" => payments'[q].status # "NONE"
      /\ \A q \in Payments : payments'[q].status = "NONE" => provider'[q] = "none"
      /\ \A q \in Payments : payments'[q].status = "CONFIRMED" => provider'[q] = "approved"
  BY <1>3, <1>4, <1>8, PaymentTyped
<1> QED
  BY <1>0, <1>2, <1>3, <1>5, <1>6, <1>7, <1>8, <1>9, PaymentTyped, PaymentsGo

\* An attempt is saved as it ended, and the payment kept.
LEMMA AttemptSaved ==
  ASSUME BillingInv, NEW x,
         NEW attempt \in {"CREATED", "UNKNOWN", "ERROR", "PENDING", "APPROVED", "REJECTED"}, NEW settled \in BOOLEAN,
         \/ payments' = [payments EXCEPT ![x].attempt = attempt]
         \/ payments' = [payments EXCEPT ![x].attempt = attempt, ![x].settled = settled]
  PROVE  /\ payments' \in [Payments -> Payment]
         /\ \A p \in Payments : payments'[p].status = payments[p].status /\ payments'[p].amount = payments[p].amount
<1>0. payments \in [Payments -> Payment]
  BY PaymentTyped
<1>1. ASSUME NEW r \in Payment
      PROVE  /\ [r EXCEPT !.attempt = attempt] \in Payment
             /\ [r EXCEPT !.attempt = attempt].status = r.status
             /\ [r EXCEPT !.attempt = attempt].amount = r.amount
             /\ [r EXCEPT !.attempt = attempt, !.settled = settled] \in Payment
             /\ [r EXCEPT !.attempt = attempt, !.settled = settled].status = r.status
             /\ [r EXCEPT !.attempt = attempt, !.settled = settled].amount = r.amount
  BY DEF Payment
<1>2. \/ payments' = [payments EXCEPT ![x] = [payments[x] EXCEPT !.attempt = attempt]]
      \/ payments' = [payments EXCEPT ![x] = [payments[x] EXCEPT !.attempt = attempt, !.settled = settled]]
  OBVIOUS
<1>3. PICK r : /\ payments' = [payments EXCEPT ![x] = r]
               /\ \/ r = [payments[x] EXCEPT !.attempt = attempt]
                  \/ r = [payments[x] EXCEPT !.attempt = attempt, !.settled = settled]
  BY <1>2
<1>4. CASE x \in Payments
  <2>1. payments[x] \in Payment
    BY <1>0, <1>4
  <2>2. r \in Payment /\ r.status = payments[x].status /\ r.amount = payments[x].amount
    BY <1>1, <1>3, <2>1
  <2> QED
    BY <1>0, <1>3, <1>4, <2>2
<1>5. CASE x \notin Payments
  BY <1>0, <1>3, <1>5
<1> QED
  BY <1>4, <1>5

\* An attempt ends without an approval.
LEMMA AttemptsGo ==
  ASSUME BillingInv, NEW a \in Actors, Goto(a, Idle),
         payments' \in [Payments -> Payment],
         \A p \in Payments : payments'[p].status = payments[p].status /\ payments'[p].amount = payments[p].amount,
         provider' \in [Payments -> Answers],
         \A p \in Payments : provider[p] = "approved" => provider'[p] = "approved",
         \A p \in Payments : payments[p].status = "NONE" => provider'[p] = "none",
         \A b \in Actors \ {a} : doing[b].pc = "call" => provider'[doing[b].pay] = provider[doing[b].pay],
         UNCHANGED <<tab, bill, notice, webhooks, ops>>,
         polling' \in [Guests -> Payments \cup {NoPayment}]
  PROVE  BillingInv'
<1>1. Idle \in Operation /\ Sound(Idle)' /\ Rows(Idle) /\ Idle.pc = "idle"
  BY IdleFields, Counts DEF Sound, Rows, HasAnswer, InChat
<1>2. Moves(a, Idle)
  BY DEF Goto, Moves
<1>3. \A p \in Payments : payments'[p].status = "CONFIRMED" => provider'[p] = "approved"
  BY PaymentTyped
<1> QED
  BY <1>1, <1>2, <1>3, PaymentsGo

LEMMA CallTimesOutStep == ASSUME BillingInv, NEW a \in Actors, CallTimesOut(a) PROVE BillingInv'
<1>1. PICK answer \in {"none", "pending"} : provider' = [provider EXCEPT ![doing[a].pay] = answer]
  BY DEF CallTimesOut
<1>p. PICK p \in Payments : p = doing[a].pay
  BY Calling DEF CallTimesOut
<1>0. UNCHANGED <<tab, bill, notice, webhooks, ops>> /\ doing[a].pc = "call" /\ Goto(a, Idle) /\ PageGets(a, p)
  BY <1>p DEF CallTimesOut
<1>2. /\ payments' \in [Payments -> Payment]
      /\ \A q \in Payments : payments'[q].status = payments[q].status /\ payments'[q].amount = payments[q].amount
  <2>1. payments' = [payments EXCEPT ![p].attempt = "UNKNOWN"]
    BY <1>p DEF CallTimesOut
  <2> QED
    BY <2>1, AttemptSaved
<1>3. /\ payments[p].status # "NONE" /\ provider[p] = "none"
      /\ \A b \in Actors \ {a} : doing[b].pc = "call" => doing[b].pay # p /\ doing[b].pay \in Payments
  BY <1>0, <1>p, Calling
<1>4. provider' \in [Payments -> Answers] /\ \A q \in Payments \ {p} : provider'[q] = provider[q]
  BY <1>1, <1>p, PaymentTyped DEF Answers
<1>5. /\ \A q \in Payments : provider[q] = "approved" => provider'[q] = "approved"
      /\ \A q \in Payments : payments[q].status = "NONE" => provider'[q] = "none"
      /\ \A b \in Actors \ {a} : doing[b].pc = "call" => provider'[doing[b].pay] = provider[doing[b].pay]
  BY <1>3, <1>4, PaymentTyped
<1>6. polling' \in [Guests -> Payments \cup {NoPayment}]
  BY <1>0, Untouched
<1> QED
  BY <1>0, <1>2, <1>4, <1>5, <1>6, AttemptsGo

LEMMA AttemptsEnd ==
  ASSUME BillingInv, NEW a \in Actors, Goto(a, Idle), NEW x,
         NEW attempt \in {"CREATED", "UNKNOWN", "ERROR", "PENDING", "APPROVED", "REJECTED"}, NEW settled \in BOOLEAN,
         \/ payments' = [payments EXCEPT ![x].attempt = attempt]
         \/ payments' = [payments EXCEPT ![x].attempt = attempt, ![x].settled = settled],
         UNCHANGED <<tab, bill, notice, outside, polling, ops>>
  PROVE  BillingInv'
<1>1. /\ payments' \in [Payments -> Payment]
      /\ \A q \in Payments : payments'[q].status = payments[q].status /\ payments'[q].amount = payments[q].amount
  BY AttemptSaved
<1>2. provider' = provider /\ webhooks' = webhooks
  BY DEF outside
<1>3. provider' \in [Payments -> Answers] /\ \A p \in Payments : payments[p].status = "NONE" => provider'[p] = "none"
  BY <1>2, PaymentTyped
<1>4. polling' \in [Guests -> Payments \cup {NoPayment}]
  BY Untouched
<1> QED
  BY <1>1, <1>2, <1>3, <1>4, AttemptsGo

LEMMA CallFailsStep == ASSUME BillingInv, NEW a \in Actors, CallFails(a) PROVE BillingInv'
BY AttemptsEnd DEF CallFails

LEMMA SettlementFailsStep == ASSUME BillingInv, NEW w \in Workers, SettlementFails(w) PROVE BillingInv'
<1>1. AsAttempt(doing[w].answer) \in {"CREATED", "UNKNOWN", "ERROR", "PENDING", "APPROVED", "REJECTED"}
  BY DEF AsAttempt
<1>2. w \in Actors
  BY DEF Actors
<1> QED
  BY <1>1, <1>2, AttemptsEnd DEF SettlementFails

LEMMA SettledStep == ASSUME BillingInv, NEW w \in Workers, Settled(w) PROVE BillingInv'
<1>1. AsAttempt(doing[w].answer) \in {"CREATED", "UNKNOWN", "ERROR", "PENDING", "APPROVED", "REJECTED"}
  BY DEF AsAttempt
<1>2. w \in Actors
  BY DEF Actors
<1> QED
  BY <1>1, <1>2, AttemptsEnd DEF Settled

\* The answer of the provider is written: CONFIRMED when it is an approval.
LEMMA AnswerSaved ==
  ASSUME BillingInv, NEW p \in Payments, NEW answer \in Answers, NEW settled \in BOOLEAN,
         payments' = Saved(p, answer, settled), answer = "approved" => provider[p] = "approved"
  PROVE  /\ payments' \in [Payments -> Payment]
         /\ \A q \in Payments : payments'[q].amount = payments[q].amount
         /\ \A q \in Payments : payments[q].status # "NONE" => payments'[q].status # "NONE"
         /\ \A q \in Payments : payments'[q].status = "NONE" => provider[q] = "none"
         /\ \A q \in Payments : payments'[q].status = "CONFIRMED" => provider[q] = "approved"
<1>0. payments \in [Payments -> Payment] /\ payments[p] \in Payment
  BY PaymentTyped
<1>1. /\ AsPayment(answer) \in {"PENDING", "CONFIRMED", "CANCELED"}
      /\ AsPayment(answer) = "CONFIRMED" => answer = "approved"
      /\ AsAttempt(answer) \in {"PENDING", "APPROVED", "REJECTED"}
  BY DEF AsPayment, AsAttempt
<1>s. payments' = [payments EXCEPT ![p] = [payments[p] EXCEPT !.status = AsPayment(answer),
                     !.attempt = AsAttempt(answer), !.known = TRUE, !.settled = settled]]
  BY DEF Saved
<1>e. PICK e : e = [payments[p] EXCEPT !.status = AsPayment(answer),
                     !.attempt = AsAttempt(answer), !.known = TRUE, !.settled = settled]
  OBVIOUS
<1>3. /\ e \in Payment /\ payments' = [payments EXCEPT ![p] = e]
      /\ e.status = AsPayment(answer) /\ e.amount = payments[p].amount
  BY <1>0, <1>1, <1>s, <1>e DEF Payment
<1>4. payments' \in [Payments -> Payment] /\ payments'[p] = e /\ \A q \in Payments \ {p} : payments'[q] = payments[q]
  BY <1>0, <1>3
<1> QED
  BY <1>1, <1>3, <1>4, PaymentTyped

LEMMA AnswersGo ==
  ASSUME BillingInv, NEW a \in Actors, NEW d \in Operation, Moves(a, d),
         NEW p \in Payments, NEW answer \in Answers, NEW settled \in BOOLEAN,
         payments' = Saved(p, answer, settled), answer = "approved" => provider[p] = "approved",
         UNCHANGED <<tab, bill, notice, outside, ops>>,
         polling' \in [Guests -> Payments \cup {NoPayment}],
         Sound(d), Rows(d), d.pc \in {"idle", "lock"}
  PROVE  BillingInv'
<1>1. provider' = provider /\ webhooks' = webhooks
  BY DEF outside
<1>2. Sound(d)'
  BY <1>1 DEF Sound, HasAnswer
<1>3. provider' \in [Payments -> Answers]
  BY <1>1, PaymentTyped
<1> QED
  BY <1>1, <1>2, <1>3, AnswerSaved, PaymentsGo

\* Whatever ends or closes by hand.
LEMMA AnswerThenPlain ==
  ASSUME BillingInv, NEW a \in Actors,
         Goto(a, Idle) \/ Goto(a, Closing(NoPayment, "MANUAL_SETTLEMENT")),
         NEW p \in Payments, NEW answer \in Answers, NEW settled \in BOOLEAN,
         payments' = Saved(p, answer, settled), answer = "approved" => provider[p] = "approved",
         UNCHANGED <<tab, bill, notice, outside, ops>>,
         polling' \in [Guests -> Payments \cup {NoPayment}]
  PROVE  BillingInv'
<1>1. PICK d \in {Idle, Closing(NoPayment, "MANUAL_SETTLEMENT")} : Moves(a, d)
  BY DEF Goto, Moves
<1>2. "MANUAL_SETTLEMENT" \in Sources
  BY DEF Sources
<1>3. /\ d \in Operation /\ d.pc \in {"idle", "lock"} /\ d.row.total <= Placed /\ d.then = "idle"
      /\ d.source # "PAYMENT_APPROVED"
  <2>1. /\ Idle \in Operation /\ Idle.pc = "idle" /\ Idle.row = NewTab /\ Idle.then = "idle"
        /\ Idle.source = "none" /\ NewTab.total = 0 /\ Placed \in Nat
    BY IdleFields, Counts
  <2>c. PICK c : c = Closing(NoPayment, "MANUAL_SETTLEMENT")
    OBVIOUS
  <2>2. /\ c \in Operation /\ c.pc = "lock" /\ c.row = NewTab /\ c.then = "idle"
        /\ c.source = "MANUAL_SETTLEMENT"
    BY <2>c, <1>2, IdleFields DEF Closing, Operation
  <2>3. d = Idle \/ d = c
    BY <2>c
  <2> QED
    BY <2>1, <2>2, <2>3
<1>4. Sound(d) /\ Rows(d)
  BY <1>3, Plain DEF HasAnswer, InChat
<1> QED
  BY <1>1, <1>3, <1>4, AnswersGo

LEMMA ApplyAnswerStep == ASSUME BillingInv, NEW a \in Actors, ApplyAnswer(a) PROVE BillingInv'
<1>1. /\ doing[a].pc = "apply" /\ doing[a].pay \in Payments /\ doing[a].answer \in Answers
      /\ doing[a].answer = "approved" => provider[doing[a].pay] = "approved"
  BY Known DEF ApplyAnswer, Sound, HasAnswer
<1>2. /\ payments' = Saved(doing[a].pay, doing[a].answer, FALSE)
      /\ UNCHANGED <<tab, bill, notice, outside, ops>>
      /\ Goto(a, Idle) \/ Goto(a, Closing(NoPayment, "MANUAL_SETTLEMENT"))
      /\ PageGets(a, doing[a].pay) \/ PageGets(a, NoPayment) \/ UNCHANGED polling
  BY DEF ApplyAnswer
<1>3. polling' \in [Guests -> Payments \cup {NoPayment}]
  BY <1>1, <1>2, Untouched
<1> QED
  BY <1>1, <1>2, <1>3, AnswerThenPlain

LEMMA RecordAnswerStep == ASSUME BillingInv, NEW a \in Actors, RecordAnswer(a) PROVE BillingInv'
<1>1. /\ doing[a].pc = "record" /\ doing[a].pay \in Payments /\ doing[a].answer \in Answers
      /\ doing[a].settled \in BOOLEAN
      /\ doing[a].answer = "approved" => provider[doing[a].pay] = "approved"
  BY Known DEF RecordAnswer, Sound, HasAnswer
<1>2. /\ payments' = Saved(doing[a].pay, doing[a].answer, doing[a].settled)
      /\ UNCHANGED <<tab, bill, notice, outside, ops>>
      /\ Goto(a, Idle) \/ Goto(a, Closing(NoPayment, "MANUAL_SETTLEMENT"))
      /\ PageGets(a, NoPayment) \/ UNCHANGED polling
  BY DEF RecordAnswer
<1>3. polling' \in [Guests -> Payments \cup {NoPayment}]
  BY <1>1, <1>2, Untouched
<1> QED
  BY <1>1, <1>2, <1>3, AnswerThenPlain

LEMMA ReconcileStep == ASSUME BillingInv, NEW w \in Workers, Reconcile(w) PROVE BillingInv'
<1>0. w \in Actors
  BY DEF Actors
<1>1. /\ doing[w].pc = "reconcile" /\ doing[w].pay \in Payments /\ doing[w].answer \in Answers
      /\ doing[w].settled \in BOOLEAN
      /\ doing[w].answer = "approved" => provider[doing[w].pay] = "approved"
  BY <1>0, Known DEF Reconcile, Sound, HasAnswer
<1>2. /\ payments' = Saved(doing[w].pay, doing[w].answer, doing[w].settled)
      /\ UNCHANGED <<tab, bill, notice, outside, polling, ops>>
  BY DEF Reconcile
<1>3. polling' \in [Guests -> Payments \cup {NoPayment}]
  BY <1>2, Untouched
<1>4. CASE Goto(w, Idle)
  BY <1>0, <1>1, <1>2, <1>3, <1>4, AnswerThenPlain
<1>5. CASE ~Goto(w, Idle)
  <2>d. PICK d : d = [Closing(doing[w].pay, "PAYMENT_APPROVED") EXCEPT !.answer = doing[w].answer]
    OBVIOUS
  <2>1. doing[w].answer = "approved" /\ Moves(w, d)
    BY <1>5, <2>d DEF Reconcile, Settles, Goto, Moves
  <2>2. "PAYMENT_APPROVED" \in Sources
    BY DEF Sources
  <2>3. /\ d \in Operation /\ d.pc = "lock" /\ d.row = NewTab /\ d.then = "idle" /\ d.pay = doing[w].pay
    BY <1>1, <2>2, <2>d, ClosingFields DEF Operation
  <2>4. Sound(d) /\ Rows(d)
    BY <1>1, <2>1, <2>3, IdleFields, Counts DEF Sound, Rows, HasAnswer, InChat
  <2> QED
    BY <1>0, <1>1, <1>2, <1>3, <2>1, <2>3, <2>4, AnswersGo
<1> QED
  BY <1>4, <1>5

---------------------------------------------------------------------------
(* closings *)

LEMMA LeaveStep == ASSUME BillingInv, NEW g \in Actors, Leave(g) PROVE BillingInv'
<1>d. PICK row : row = [tab EXCEPT !.exit = TRUE]
  OBVIOUS
<1>1. row \in Tab /\ row.total <= Placed
  BY <1>d, SnapshotFields DEF Tab
<1>2. tab' = row /\ ~Locked /\ UNCHANGED <<bill, notice, outside, payments, polling, ops>> /\ Moves(g, Idle)
  BY <1>d DEF Leave, Goto, Moves
<1>3. Idle \in Operation /\ Sound(Idle) /\ Rows(Idle) /\ Idle.pc = "idle"
  BY IdleFields, Counts, Plain DEF HasAnswer, InChat
<1> QED
  BY <1>1, <1>2, <1>3, Move, Untouched DEF bill, outside

\* A statement of the panel that changes the tab's status alone.
LEMMA StatusWritten ==
  ASSUME BillingInv, NEW s \in Actors, doing[s] = Idle, UNCHANGED doing, ~Locked,
         NEW status \in {"OPEN", "CLOSED"}, tab' = [tab EXCEPT !.status = status],
         UNCHANGED <<orders, manual, notice, outside, payments, polling>>,
         closedBy' \in {closedBy, "SHIFT_CLOSE"}, ops' \in 0..MaxOps
  PROVE  BillingInv'
<1>d. PICK row : row = [tab EXCEPT !.status = status]
  OBVIOUS
<1>1. row \in Tab /\ row.total <= Placed
  BY <1>d, SnapshotFields DEF Tab
<1>2. Moves(s, Idle)
  BY DEF Moves, BillingInv, TypeOK
<1>3. Idle \in Operation /\ Sound(Idle) /\ Rows(Idle) /\ Idle.pc = "idle"
  BY IdleFields, Counts, Plain DEF HasAnswer, InChat
<1> QED
  BY <1>d, <1>1, <1>2, <1>3, Move, Untouched DEF outside

LEMMA ReopenStep == ASSUME BillingInv, NEW s \in Actors, Reopen(s) PROVE BillingInv'
BY StatusWritten, Untouched DEF Reopen, bill

LEMMA ShiftCloseStep == ASSUME BillingInv, NEW s \in Actors, ShiftClose(s) PROVE BillingInv'
BY StatusWritten, Untouched DEF ShiftClose

\* What is booked by hand, with what was received, pays for the locked orders.
LEMMA CloseLockStep == ASSUME BillingInv, NEW a \in Actors, CloseLock(a) PROVE BillingInv'
<1>s. PICK sum : sum = IF doing[a].source = "PAYMENT_APPROVED" THEN 0 ELSE Least0(Owed, Confirmed)
  OBVIOUS
<1>d. PICK d : d = [doing[a] EXCEPT !.pc = "close", !.row = Snapshot, !.sum = sum]
  OBVIOUS
<1>0. doing[a] \in Operation /\ Sound(doing[a]) /\ doing[a].pc = "lock" /\ ~Locked
  BY Known DEF CloseLock
<1>1. /\ Owed \in Amounts /\ Owed \in Nat /\ Placed \in Nat /\ Owed <= Placed
      /\ Billed \in Nat /\ Billed <= Owed
      /\ Confirmed \in Nat /\ Received \in Nat /\ Confirmed <= Received
  BY OrderSums, Sums, FS_CardinalityType DEF BillingInv, Amounts
<1>2. sum \in Amounts /\ (doing[a].source # "PAYMENT_APPROVED" => Billed <= sum + Received)
  BY <1>s, <1>1, FS_CardinalityType DEF Least0, Amounts
<1>3. /\ d \in Operation /\ d.pc = "close" /\ d.row = Snapshot /\ d.sum = sum
      /\ d.source = doing[a].source /\ d.pay = doing[a].pay /\ d.then = doing[a].then
  BY <1>d, <1>0, <1>2, SnapshotFields DEF Operation
<1>4. Moves(a, d) /\ UNCHANGED <<tab, bill, notice, outside, payments, polling, ops>>
  BY <1>s, <1>d DEF CloseLock, Goto, Moves
<1>5. Sound(d)
  BY <1>0, <1>3 DEF Sound, HasAnswer
<1>6. Rows(d)
  BY <1>1, <1>2, <1>3, SnapshotFields DEF Rows, InChat
<1> QED
  BY <1>0, <1>3, <1>4, <1>5, <1>6, Only, Untouched DEF outside

LEMMA NextReceived == TypeOK' /\ PaymentInv' => (Received \in Nat)'
<1>1. TypeOK /\ PaymentInv => Received \in Nat
  BY Sums
<1> QED
  BY <1>1, PTL

LEMMA CloseCommitStep == ASSUME BillingInv, NEW a \in Actors, CloseCommit(a) PROVE BillingInv'
<1>d. PICK d : d = [doing[a] EXCEPT !.pc = "claim", !.row = NewTab, !.sum = 0]
  OBVIOUS
<1>r. PICK row : row = doing[a].row
  OBVIOUS
<1>0. /\ doing[a] \in Operation /\ Sound(doing[a]) /\ row \in Tab /\ row.total <= Placed
      /\ doing[a].pc = "close" /\ doing[a].sum \in Nat /\ doing[a].source \in Sources
      /\ doing[a].row \in Tab /\ doing[a].row.total \in Nat
  BY <1>r, Known, FS_CardinalityType DEF CloseCommit, Operation, Tab, Amounts
<1>1. /\ d \in Operation /\ d.pc = "claim" /\ d.row = NewTab /\ d.sum = 0
      /\ d.source = doing[a].source /\ d.pay = doing[a].pay /\ d.then = doing[a].then
  BY <1>d, <1>0, IdleFields, FS_CardinalityType DEF Operation, Amounts
<1>2. /\ Moves(a, d) /\ orders' = orders
      /\ UNCHANGED notice /\ UNCHANGED <<claimed, told, webhooks, payments, provider, polling, ops>>
  BY <1>d DEF CloseCommit, Goto, Moves, bill, notice, outside
<1>3. /\ tab' \in Tab /\ tab'.total <= Placed
      /\ manual' \in Nat /\ closedBy' \in Sources /\ closedBy' \in {closedBy, doing[a].source}
  <2>0. manual \in Nat /\ closedBy \in Sources
    BY DEF BillingInv, TypeOK
  <2>1. CASE row.status = "CLOSED"
    BY <2>0, <2>1, <1>r, <1>0 DEF CloseCommit, bill
  <2>2. CASE row.status # "CLOSED"
    <3>1. row.total \in Nat /\ row.paid \in Nat
      BY <1>0, <1>r DEF Tab
    <3>2. Larger(row.total, row.paid) \in Nat
      BY <3>1 DEF Larger
    <3>3. ASSUME NEW paid \in Nat
          PROVE  [row EXCEPT !.status = "CLOSED", !.paid = paid] \in Tab
                 /\ [row EXCEPT !.status = "CLOSED", !.paid = paid].total = row.total
      BY <1>0 DEF Tab
    <3>4. /\ tab' = [row EXCEPT !.status = "CLOSED", !.paid = Larger(row.total, row.paid)]
          /\ manual' = manual + doing[a].sum /\ closedBy' = doing[a].source
      BY <2>2, <1>r DEF CloseCommit
    <3>p. PICK paid \in Nat : paid = Larger(row.total, row.paid)
      BY <3>2
    <3>5. tab' \in Tab /\ tab'.total = row.total
      BY <3>3, <3>4, <3>p
    <3> QED
      BY <2>0, <1>0, <3>4, <3>5
  <2> QED
    BY <2>1, <2>2
<1>4. TypeOK'
  BY <1>1, <1>2, <1>3, Moved DEF BillingInv, TypeOK
<1>5. ToldInv'
  BY <1>1, <1>2, ToldKept DEF BillingInv
<1>6. PaymentInv'
  <2>1. Sound(d)'
    BY <1>0, <1>1, <1>2 DEF Sound, HasAnswer
  <2>2. closedBy' = "PAYMENT_APPROVED" => \E p \in Payments : provider'[p] = "approved"
    BY <1>0, <1>2, <1>3 DEF Sound, BillingInv, PaymentInv
  <2> QED
    BY <1>1, <1>2, <2>1, <2>2, PaymentTyped, PaymentKept DEF BillingInv
<1>7. BillInv'
  <2>1. Placed' = Placed /\ Billed' = Billed /\ Placed \in Nat
    BY <1>2, Counts DEF Placed, Billed
  <2>2. Received \in Nat /\ Received' \in Nat
    BY <1>4, <1>6, Sums, NextReceived DEF BillingInv
  <2>3. Rows(d)'
    BY <1>1, <2>1, IdleFields DEF Rows, InChat
  <2>4. \A b \in Actors \ {a} : doing[b].pc # "close"
    BY <1>0 DEF BillingInv, BillInv, OneHolder, HoldsTab
  <2>5. \A o \in Orders : orders'[o].status = "NONE" => ~orders'[o].locked
    BY <1>2, OrderTyped
  <2> QED
    BY <1>1, <1>2, <1>3, <1>4, <2>1, <2>2, <2>3, <2>4, <2>5, BillKept DEF BillingInv, HoldsTab
<1> QED
  BY <1>4, <1>5, <1>6, <1>7 DEF BillingInv

\* What follows a closing carries no obligation.
LEMMA AfterFields ==
  ASSUME BillingInv, NEW a \in Actors, doing[a].pc \in {"claim", "tell"}
  PROVE  /\ AfterClosing(a) \in Operation /\ AfterClosing(a).pc \in {"settled", "leave", "idle"}
         /\ Sound(AfterClosing(a)) /\ Rows(AfterClosing(a))
<1>0. doing[a] \in Operation /\ Sound(doing[a]) /\ Rows(doing[a])
  BY Known
<1>1. CASE a \in Workers
  <2>d. PICK d : d = [doing[a] EXCEPT !.pc = "settled"]
    OBVIOUS
  <2>1. /\ d \in Operation /\ d.pc = "settled" /\ d.row = doing[a].row
        /\ d.source = doing[a].source /\ d.pay = doing[a].pay /\ d.then = doing[a].then
    BY <2>d, <1>0 DEF Operation
  <2>2. Sound(d) /\ Rows(d)
    BY <1>0, <2>1 DEF Sound, Rows, HasAnswer, InChat
  <2>3. AfterClosing(a) = d
    BY <1>1, <2>d DEF AfterClosing
  <2> QED
    BY <2>1, <2>2, <2>3
<1>2. CASE a \notin Workers
  <2>d. PICK leave : leave = [Idle EXCEPT !.pc = "leave"]
    OBVIOUS
  <2>1. /\ leave \in Operation /\ leave.pc = "leave" /\ leave.row.total <= Placed
        /\ leave.then = "idle" /\ leave.source = "none"
    BY <2>d, Fresh
  <2>2. Idle \in Operation /\ Sound(Idle) /\ Rows(Idle) /\ Idle.pc = "idle"
    BY IdleFields, Counts, Plain DEF HasAnswer, InChat
  <2>3. Sound(leave) /\ Rows(leave)
    BY <2>1, Plain DEF HasAnswer, InChat
  <2>4. AfterClosing(a) \in {leave, Idle}
    BY <1>2, <2>d DEF AfterClosing
  <2> QED
    BY <2>1, <2>2, <2>3, <2>4
<1> QED
  BY <1>1, <1>2

LEMMA ClaimStep == ASSUME BillingInv, NEW a \in Actors, Claim(a) PROVE BillingInv'
<1>0. /\ doing[a] \in Operation /\ Sound(doing[a]) /\ Rows(doing[a]) /\ doing[a].pc = "claim"
      /\ claimed' = TRUE /\ told' = told /\ told \in Nat /\ claimed \in BOOLEAN
      /\ UNCHANGED <<tab, bill, outside, payments, polling, ops>>
  BY Known DEF Claim, BillingInv, TypeOK
<1>d. PICK d : d = IF Unclaimed THEN [doing[a] EXCEPT !.pc = "tell"] ELSE AfterClosing(a)
  OBVIOUS
<1>1. Moves(a, d)
  BY <1>d DEF Claim, Goto, Moves
<1>2. CASE ~claimed
  <2>e. d = [doing[a] EXCEPT !.pc = "tell"]
    BY <1>2, <1>d DEF Unclaimed
  <2>1. /\ d \in Operation /\ d.pc = "tell" /\ d.row = doing[a].row
        /\ d.source = doing[a].source /\ d.pay = doing[a].pay /\ d.then = doing[a].then
    BY <2>e, <1>0 DEF Operation
  <2>2. Sound(d) /\ Rows(d)
    BY <1>0, <2>1 DEF Sound, Rows, HasAnswer, InChat
  <2>3. TypeOK' /\ PaymentInv' /\ BillInv'
    BY <1>0, <1>1, <2>1, <2>2, MoveRest, Untouched, SnapshotFields DEF bill, outside
  <2>4. ToldInv'
    <3>1. told = 0 /\ \A b \in Actors : doing[b].pc # "tell"
      BY <1>2 DEF BillingInv, ToldInv
    <3>2. doing'[a].pc = "tell" /\ \A b \in Actors \ {a} : doing'[b].pc # "tell"
      BY <1>1, <2>1, <3>1, Moved DEF BillingInv
    <3> QED
      BY <1>0, <3>1, <3>2 DEF ToldInv
  <2> QED
    BY <2>3, <2>4 DEF BillingInv
<1>3. CASE claimed
  <2>1. d = AfterClosing(a)
    BY <1>3, <1>d DEF Unclaimed
  <2>2. d \in Operation /\ d.pc \in {"settled", "leave", "idle"} /\ Sound(d) /\ Rows(d)
    BY <1>0, <2>1, AfterFields
  <2>3. UNCHANGED notice
    BY <1>0, <1>3 DEF notice
  <2> QED
    BY <1>0, <1>1, <2>2, <2>3, Only, Untouched DEF outside
<1> QED
  BY <1>0, <1>2, <1>3

LEMMA TellStep == ASSUME BillingInv, NEW a \in Actors, Tell(a) PROVE BillingInv'
<1>0. /\ doing[a].pc = "tell" /\ UNCHANGED <<tab, bill, outside, payments, polling, ops>>
      /\ Moves(a, AfterClosing(a)) /\ told \in Nat /\ claimed \in BOOLEAN
  BY DEF Tell, Goto, Moves, BillingInv, TypeOK
<1>1. /\ claimed /\ told = 0 /\ \A b \in Actors \ {a} : doing[b].pc # "tell"
  BY <1>0 DEF BillingInv, ToldInv, TypeOK
<1>w. (claimed' = claimed /\ told' = told + 1) \/ (claimed' = FALSE /\ told' = told)
  BY DEF Tell
<1>c. claimed = TRUE
  BY <1>0, <1>1
<1>2. (claimed' = TRUE /\ told' = 1) \/ (claimed' = FALSE /\ told' = 0)
  <2>1. told' = told + 1 => told' = 1
    BY <1>1
  <2>2. told' = told => told' = 0
    BY <1>1
  <2>3. claimed' = claimed => claimed' = TRUE
    BY <1>c, Zenon
  <2> QED
    BY <1>w, <2>1, <2>2, <2>3, Zenon
<1>n. 0 \in Nat /\ 1 \in Nat
  OBVIOUS
<1>3. /\ AfterClosing(a) \in Operation /\ AfterClosing(a).pc \in {"settled", "leave", "idle"}
      /\ Sound(AfterClosing(a)) /\ Rows(AfterClosing(a))
  BY <1>0, AfterFields
<1>4. TypeOK' /\ PaymentInv' /\ BillInv'
  <2>1. claimed' \in BOOLEAN /\ told' \in Nat
    BY <1>2, Zenon, <1>n
  <2>2. /\ UNCHANGED <<orders, manual, payments, provider>> /\ closedBy' = closedBy /\ tab' = tab
        /\ webhooks' \in Seq(Payments) /\ polling' \in [Guests -> Payments \cup {NoPayment}]
        /\ ops' \in 0..MaxOps
    BY <1>0, Untouched DEF bill, outside
  <2>3. PICK d : d = AfterClosing(a)
    OBVIOUS
  <2>4. d \in Operation /\ d.pc \in {"settled", "leave", "idle"} /\ Sound(d) /\ Rows(d) /\ Moves(a, d)
    BY <1>0, <1>3, <2>3
  <2> QED
    BY <2>1, <2>2, <2>4, MoveRest, SnapshotFields
<1>5. ToldInv'
  <2>1. \A b \in Actors : doing'[b].pc # "tell"
    BY <1>0, <1>1, <1>3, Moved DEF BillingInv
  <2> QED
    BY <1>2, <2>1 DEF ToldInv
<1> QED
  BY <1>4, <1>5 DEF BillingInv

---------------------------------------------------------------------------
(* the provider and the workers *)

\* Who is about to call is not known to the provider, and an approval only adds
\* to what was received.
LEMMA DecideStep == ASSUME BillingInv, NEW p \in Payments, Decide(p) PROVE BillingInv'
<1>1. PICK answer \in {"approved", "rejected"} : provider' = [provider EXCEPT ![p] = answer]
  BY DEF Decide
<1>2. /\ provider[p] = "pending" /\ UNCHANGED <<tab, bill, notice, webhooks, payments, polling, doing, ops>>
      /\ UNCHANGED <<orders, manual, closedBy, claimed, told>>
  BY DEF Decide, bill, notice
<1>3. /\ provider' \in [Payments -> Answers] /\ provider'[p] = answer
      /\ \A q \in Payments \ {p} : provider'[q] = provider[q]
  BY <1>1, PaymentTyped DEF Answers
<1>4. TypeOK'
  BY <1>2, <1>3 DEF BillingInv, TypeOK
<1>5. ToldInv'
  BY <1>2 DEF BillingInv, ToldInv
<1>6. PaymentInv'
  <2>1. \A a \in Actors : Sound(doing[a])'
    <3> SUFFICES ASSUME NEW a \in Actors PROVE Sound(doing[a])'
      OBVIOUS
    <3>1. Sound(doing[a]) /\ doing'[a] = doing[a] /\ doing[a].pay \in Payments \cup {NoPayment}
      BY <1>2, Known
    <3>2. doing[a].pay \in Payments =>
            /\ provider[doing[a].pay] = "approved" => provider'[doing[a].pay] = "approved"
            /\ provider[doing[a].pay] = "none" => provider'[doing[a].pay] = "none"
      BY <1>2, <1>3
    <3>3. payments' = payments
      BY <1>2
    <3> QED
      BY <3>1, <3>2, <3>3 DEF Sound, HasAnswer
  <2>2. OneCaller'
    BY <1>2 DEF BillingInv, PaymentInv, OneCaller
  <2>3. closedBy' = "PAYMENT_APPROVED" => \E q \in Payments : provider'[q] = "approved"
    BY <1>2, <1>3 DEF BillingInv, PaymentInv
  <2>4. /\ \A q \in Payments : payments'[q].status = "NONE" => provider'[q] = "none"
        /\ \A q \in Payments : payments'[q].status = "CONFIRMED" => provider'[q] = "approved"
    BY <1>2, <1>3, PaymentTyped
  <2> QED
    BY <2>1, <2>2, <2>3, <2>4 DEF PaymentInv
<1>7. BillInv'
  <2>1. Placed' = Placed /\ Billed' = Billed /\ Placed \in Nat /\ Billed \in Nat
    BY <1>2, OrderSums, FS_CardinalityType DEF Placed, Billed, BillingInv, Amounts
  <2>2. Received \in Nat /\ Received' \in Nat /\ Received <= Received'
    BY <1>2, <1>3, ReceivedStays DEF BillingInv
  <2>3. \A a \in Actors : Rows(doing[a])'
    <3> SUFFICES ASSUME NEW a \in Actors PROVE Rows(doing[a])'
      OBVIOUS
    <3>1. Rows(doing[a]) /\ doing'[a] = doing[a] /\ doing[a] \in Operation /\ tab' = tab
      BY <1>2, Known
    <3>2. doing[a].sum \in Nat
      BY <3>1, FS_CardinalityType DEF Operation, Amounts
    <3> QED
      BY <2>1, <2>2, <3>1, <3>2 DEF Rows, InChat
  <2>4. OneHolder'
    BY <1>2 DEF BillingInv, BillInv, OneHolder
  <2>5. (tab.total <= Placed)' /\ \A o \in Orders : orders'[o].status = "NONE" => ~orders'[o].locked
    BY <1>2, <2>1 DEF BillingInv, BillInv
  <2> QED
    BY <2>3, <2>4, <2>5 DEF BillInv
<1> QED
  BY <1>4, <1>5, <1>6, <1>7 DEF BillingInv

LEMMA HandleWebhookStep == ASSUME BillingInv, NEW p \in Payments, HandleWebhook(p) PROVE BillingInv'
<1>1. webhooks' \in Seq(Payments)
  BY DEF HandleWebhook, BillingInv, TypeOK
<1>2. UNCHANGED <<tab, orders, manual, closedBy, claimed, told, provider, payments, polling, doing, ops>>
  BY DEF HandleWebhook, bill, notice
<1>3. TypeOK'
  BY <1>1, <1>2 DEF BillingInv, TypeOK
<1>4. ToldInv' /\ PaymentInv'
  BY <1>2 DEF BillingInv, ToldInv, PaymentInv, Sound, OneCaller
<1>5. BillInv'
  BY <1>2 DEF BillingInv, BillInv, Rows, OneHolder, Placed, Billed, Received, AmountOf
<1> QED
  BY <1>3, <1>4, <1>5 DEF BillingInv

LEMMA TakeStep == ASSUME BillingInv, NEW w \in Workers, Take(w) PROVE BillingInv'
<1>0. w \in Actors /\ webhooks \in Seq(Payments) /\ doing \in [Actors -> Operation]
  BY DEF Actors, BillingInv, TypeOK
<1>1. /\ doing[w] = Idle /\ webhooks # <<>> /\ webhooks' = Tail(webhooks)
      /\ UNCHANGED <<tab, bill, notice, provider, payments, polling, ops>>
  BY DEF Take
<1>2. Head(webhooks) \in Payments /\ webhooks' \in Seq(Payments)
  BY <1>0, <1>1
<1>p. PICK p \in Payments : p = Head(webhooks)
  BY <1>2
<1>d. PICK d : d = [Idle EXCEPT !.pc = "reconcile", !.pay = p, !.answer = provider[p],
                                !.settled = payments[p].settled]
  OBVIOUS
<1>3. Moves(w, d) \/ Moves(w, Idle)
  <2>1. CASE UNCHANGED doing
    BY <1>0, <1>1, <2>1 DEF Moves
  <2>2. CASE ~UNCHANGED doing
    BY <2>2, <1>p, <1>d DEF Take, Goto, Moves
  <2> QED
    BY <2>1, <2>2
<1>4. Idle \in Operation /\ Sound(Idle) /\ Rows(Idle) /\ Idle.pc = "idle"
  BY IdleFields, Counts, Plain DEF HasAnswer, InChat
<1>5. /\ d \in Operation /\ d.pc = "reconcile" /\ d.pay = p /\ d.answer = provider[p]
      /\ d.row = NewTab /\ d.then = "idle" /\ d.source = "none"
  <2>1. provider[p] \in Answers /\ payments[p].settled \in BOOLEAN
    BY PaymentTyped DEF Payment
  <2> QED
    BY <1>d, <2>1, IdleFields DEF Operation
<1>6. Sound(d) /\ Rows(d)
  BY <1>5, IdleFields, Counts DEF Sound, Rows, InChat
<1>7. PICK e \in {d, Idle} : Moves(w, e)
  BY <1>3
<1>8. e \in Operation /\ Sound(e) /\ Rows(e) /\ e.pc \in {"idle", "reconcile"}
  BY <1>4, <1>5, <1>6
<1> QED
  BY <1>0, <1>1, <1>2, <1>7, <1>8, Only, Untouched

---------------------------------------------------------------------------
(* the invariant *)

LEMMA InitInv == ASSUME Init PROVE BillingInv
<1>1. Cardinality(Orders) \in Nat
  BY FS_CardinalityType
<1>2. /\ payments = [p \in Payments |-> [amount |-> 0, status |-> "NONE", attempt |-> "CREATED",
                                         known |-> FALSE, settled |-> FALSE]]
      /\ provider = [p \in Payments |-> "none"]
      /\ manual = 0 /\ closedBy = "none" /\ claimed = FALSE /\ told = 0
      /\ webhooks = <<>> /\ polling = [g \in Guests |-> NoPayment]
      /\ doing = [a \in Actors |-> Idle] /\ ops = 0 /\ tab = [NewTab EXCEPT !.total = Owed]
  BY DEF Init
<1>3. /\ orders \in [Orders -> Order]
      /\ \A o \in Orders : orders[o].status = "NONE" => ~orders[o].locked
  BY DEF Init, Order
<1>4. Owed \in Amounts /\ Placed \in Nat /\ Owed <= Placed
  <2> DEFINE active == {o \in Orders : orders[o].status \in {"ACTIVE", "DELIVERED"}}
             placed == {o \in Orders : orders[o].status # "NONE"}
  <2>1. active \in SUBSET placed /\ placed \in SUBSET Orders
    OBVIOUS
  <2>2. IsFiniteSet(placed) /\ Cardinality(placed) <= Cardinality(Orders)
    BY <2>1, FS_Subset
  <2>3. IsFiniteSet(active) /\ Cardinality(active) <= Cardinality(placed)
    BY <2>1, <2>2, FS_Subset
  <2>4. Cardinality(placed) \in Nat /\ Cardinality(active) \in Nat
    BY <2>2, <2>3, FS_CardinalityType
  <2>5. Owed = Cardinality(active) /\ Placed = Cardinality(placed)
    BY DEF Owed, Placed
  <2> HIDE DEF active, placed
  <2> QED
    BY <1>1, <2>2, <2>3, <2>4, <2>5 DEF Amounts
<1>5. tab \in Tab /\ tab.total = Owed
  BY <1>2, <1>4, IdleFields DEF Tab
<1>6. \A a \in Actors : doing[a] = Idle
  BY <1>2
<1>7. TypeOK
  <2>1. payments \in [Payments -> Payment] /\ provider \in [Payments -> Answers]
    BY <1>1, <1>2 DEF Payment, Amounts, Answers
  <2>2. doing \in [Actors -> Operation] /\ webhooks \in Seq(Payments)
    BY <1>2, IdleFields
  <2>3. /\ polling \in [Guests -> Payments \cup {NoPayment}] /\ closedBy \in Sources
        /\ manual \in Nat /\ told \in Nat /\ ops \in 0..MaxOps
    BY <1>2 DEF Sources
  <2>4. claimed \in BOOLEAN
    BY <1>2, Zenon
  <2> QED
    BY <1>3, <1>5, <2>1, <2>2, <2>3, <2>4 DEF TypeOK
<1>8. PaymentInv
  BY <1>2, <1>6, IdleFields DEF PaymentInv, Sound, OneCaller, HasAnswer
<1>9. ToldInv
  BY <1>2, <1>6, IdleFields DEF ToldInv
<1>10. BillInv
  BY <1>3, <1>4, <1>5, <1>6, IdleFields DEF BillInv, Rows, OneHolder, InChat, HoldsTab
<1> QED
  BY <1>7, <1>8, <1>9, <1>10 DEF BillingInv

LEMMA GuestsStep == ASSUME BillingInv, NEW g \in Guests, GuestStep(g) PROVE BillingInv'
<1>1. g \in Actors
  BY DEF Actors
<1> QED
  BY <1>1, PayPageStep, ExitStep, PollStep, ReloadStep, ExitCheckStep, LeaveStep DEF GuestStep

LEMMA StaffsStep == ASSUME BillingInv, NEW s \in Staff, StaffStep(s) PROVE BillingInv'
<1>1. s \in Actors
  BY DEF Actors
<1> QED
  BY <1>1, RetryStep, RefreshStep, SettleByHandStep, ReopenStep, ShiftCloseStep, RecountStep, RecountedStep
     DEF StaffStep

LEMMA ChatsStep == ASSUME BillingInv, NEW c \in Chats, ChatStep(c) PROVE BillingInv'
<1>1. c \in Actors
  BY DEF Actors
<1> QED
  BY <1>1, ChatReadStep, OrderRefusedStep, ChatInsertStep, ChatSaveStep DEF ChatStep

LEMMA WorkersStep == ASSUME BillingInv, NEW w \in Workers, WorkerStep(w) PROVE BillingInv'
BY TakeStep, ReconcileStep, SettlementFailsStep, SettledStep DEF WorkerStep

LEMMA OrdersStep == ASSUME BillingInv, NEW a \in Actors, OrderStep(a) PROVE BillingInv'
BY OrderLockStep, OrderRefusedStep, OrderCommitStep DEF OrderStep

LEMMA PaymentsStep == ASSUME BillingInv, NEW a \in Actors, PaymentStep(a) PROVE BillingInv'
BY CreatePaymentStep, CallAnsweredStep, CallTimesOutStep, CallFailsStep, ApplyAnswerStep,
   AskNothingStep, AskAnsweredStep, AskFailsStep, RecordAnswerStep DEF PaymentStep

LEMMA ClosesStep == ASSUME BillingInv, NEW a \in Actors, CloseStep(a) PROVE BillingInv'
BY CloseLockStep, CloseCommitStep, ClaimStep, TellStep DEF CloseStep

LEMMA Unmoved == ASSUME BillingInv, UNCHANGED vars PROVE BillingInv'
<1>1. UNCHANGED <<tab, orders, payments, provider, manual, closedBy, claimed, told, webhooks, polling, doing, ops>>
  BY DEF vars
<1>2. TypeOK' /\ ToldInv' /\ PaymentInv'
  BY <1>1 DEF BillingInv, TypeOK, ToldInv, PaymentInv, Sound, OneCaller
<1>3. BillInv'
  BY <1>1 DEF BillingInv, BillInv, Rows, OneHolder, Placed, Billed, Received, AmountOf
<1> QED
  BY <1>2, <1>3 DEF BillingInv

LEMMA Step == BillingInv /\ [Next]_vars => BillingInv'
<1> SUFFICES ASSUME BillingInv, [Next]_vars PROVE BillingInv'
  OBVIOUS
<1>1. CASE \E g \in Guests : GuestStep(g)
  BY <1>1, GuestsStep
<1>2. CASE \E s \in Staff : StaffStep(s)
  BY <1>2, StaffsStep
<1>3. CASE \E c \in Chats : ChatStep(c)
  BY <1>3, ChatsStep
<1>4. CASE \E w \in Workers : WorkerStep(w)
  BY <1>4, WorkersStep
<1>5. CASE \E a \in Guests \cup Staff : OrderStep(a) \/ PaymentStep(a)
  BY <1>5, OrdersStep, PaymentsStep DEF Actors
<1>6. CASE \E a \in Actors : CloseStep(a) \/ WriteBack(a)
  BY <1>6, ClosesStep, WriteBackStep
<1>7. CASE \E o \in Orders : OrderEnds(o)
  BY <1>7, OrderEndsStep
<1>8. CASE \E p \in Payments : Decide(p) \/ HandleWebhook(p)
  BY <1>8, DecideStep, HandleWebhookStep
<1>9. CASE UNCHANGED vars
  BY <1>9, Unmoved
<1> QED
  BY <1>1, <1>2, <1>3, <1>4, <1>5, <1>6, <1>7, <1>8, <1>9 DEF Next

LEMMA Invariant == Spec => []BillingInv
<1>1. Init => BillingInv
  BY InitInv
<1> QED
  BY <1>1, Step, PTL DEF Spec

\* Rows of the tab, of orders and of payments, what the provider knows, the
\* closing and each operation keep their types, whatever number of guests,
\* staff, conversations and workers act.
THEOREM TypeCorrect == Spec => []TypeOK
<1>1. BillingInv => TypeOK
  BY DEF BillingInv
<1> QED
  BY <1>1, Invariant, PTL

\* A payment counts as confirmed only when the provider approved it, a tab is
\* closed as paid online only after an approval, and the guest is told of the
\* closing at most once (Execute, refreshPaymentStatus, notifyTabClosed).
THEOREM ApprovedHolds == Spec => []ConfirmedWasApproved
<1>1. BillingInv => ConfirmedWasApproved
  BY DEF BillingInv, PaymentInv, ToldInv, ConfirmedWasApproved
<1> QED
  BY <1>1, Invariant, PTL

---------------------------------------------------------------------------
(* closings bill *)

ClosesNow == tab.status = "OPEN" /\ tab'.status = "CLOSED" /\ closedBy' \in {"MANUAL_SETTLEMENT", "EXIT_QR"}

\* Only the commit of a closing closes an open tab at the counter or the exit.
LEMMA WhoCloses ==
  ASSUME BillingInv, Next, ClosesNow
  PROVE  \E a \in Actors : CloseCommit(a)
<1>0. tab \in Tab /\ tab' # tab /\ tab'.status # tab.status
  BY DEF BillingInv, TypeOK, ClosesNow
<1>1. CASE \E g \in Guests : GuestStep(g)
  <2> PICK g \in Guests : GuestStep(g)
    BY <1>1
  <2>1. Leave(g)
    BY <1>0 DEF GuestStep, Pay, Exit, Poll, Reload, ExitCheck
  <2>2. tab'.status = tab.status
    BY <1>0, <2>1 DEF Leave, Tab
  <2> QED
    BY <1>0, <2>2
<1>2. CASE \E s \in Staff : StaffStep(s)
  <2> PICK s \in Staff : StaffStep(s)
    BY <1>2
  <2>1. Reopen(s) \/ ShiftClose(s) \/ Recounted(s)
    BY <1>0 DEF StaffStep, Retry, Refresh, SettleByHand, Recount
  <2>2. ~Reopen(s) /\ ~ShiftClose(s)
    BY DEF Reopen, ShiftClose, ClosesNow
  <2>3. tab'.status = tab.status
    BY <1>0, <2>1, <2>2 DEF Recounted, Tab
  <2> QED
    BY <1>0, <2>3
<1>3. CASE \E c \in Chats : ChatStep(c)
  <2> PICK c \in Chats : ChatStep(c)
    BY <1>3
  <2>0. c \in Actors
    BY DEF Actors
  <2>1. ChatSave(c)
    BY <1>0 DEF ChatStep, ChatRead, OrderRefused, ChatInsert
  <2>2. doing[c].row \in Tab /\ doing[c].row.status = "OPEN"
    BY <2>0, <2>1, Known DEF ChatSave, Rows, InChat
  <2>3. tab'.status = "OPEN"
    BY <2>1, <2>2 DEF ChatSave, Tab
  <2> QED
    BY <2>3 DEF ClosesNow
<1>4. CASE \E w \in Workers : WorkerStep(w)
  BY <1>0, <1>4 DEF WorkerStep, Take, Reconcile, SettlementFails, Settled
<1>5. CASE \E a \in Guests \cup Staff : OrderStep(a) \/ PaymentStep(a)
  <2> PICK a \in Guests \cup Staff : OrderStep(a) \/ PaymentStep(a)
    BY <1>5
  <2>1. ~OrderStep(a)
    BY <1>0 DEF OrderStep, OrderLock, OrderRefused, OrderCommit
  <2>2. ~PaymentStep(a)
    BY <1>0 DEF PaymentStep, CreatePayment, CallAnswered, CallTimesOut, CallFails, ApplyAnswer,
                AskNothing, AskAnswered, AskFails, RecordAnswer
  <2> QED
    BY <2>1, <2>2
<1>6. CASE \E a \in Actors : CloseStep(a) \/ WriteBack(a)
  <2> PICK a \in Actors : CloseStep(a) \/ WriteBack(a)
    BY <1>6
  <2>1. ~WriteBack(a)
    BY <1>0 DEF WriteBack, Tab
  <2>2. CloseCommit(a)
    BY <1>0, <2>1 DEF CloseStep, CloseLock, Claim, Tell
  <2> QED
    BY <2>2
<1>7. CASE \E o \in Orders : OrderEnds(o)
  BY <1>0, <1>7 DEF OrderEnds
<1>8. CASE \E p \in Payments : Decide(p) \/ HandleWebhook(p)
  BY <1>0, <1>8 DEF Decide, HandleWebhook
<1> QED
  BY <1>1, <1>2, <1>3, <1>4, <1>5, <1>6, <1>7, <1>8 DEF Next

\* The commit books what the lock found missing, and since then no locked order
\* was added and no approval taken back.
LEMMA CloseBills ==
  ASSUME BillingInv, NEW a \in Actors, CloseCommit(a), ClosesNow
  PROVE  Received' >= Billed'
<1>0. /\ doing[a].pc = "close" /\ doing[a] \in Operation /\ Rows(doing[a])
  BY Known DEF CloseCommit
<1>1. doing[a].row.status = tab.status
  BY <1>0 DEF Rows
<1>2. manual' = manual + doing[a].sum /\ closedBy' = doing[a].source /\ orders' = orders
  BY <1>1 DEF CloseCommit, ClosesNow
<1>3. payments' = payments /\ provider' = provider
  BY DEF CloseCommit, outside
<1>4. Billed <= doing[a].sum + Received
  BY <1>0, <1>2 DEF Rows, ClosesNow
<1> DEFINE approved == {p \in Payments : provider[p] = "approved"}
<1>5. AmountOf(approved) \in Nat
  BY AmountsAdd
<1>6. Received = manual + AmountOf(approved) /\ Received' = manual' + AmountOf(approved)
  BY <1>3 DEF Received, AmountOf
<1>7. Billed' = Billed
  BY <1>2 DEF Billed
<1>8. manual \in Nat /\ doing[a].sum \in Nat /\ Billed \in Nat
  BY <1>0, OrderSums, FS_CardinalityType DEF BillingInv, TypeOK, Operation, Amounts
<1> HIDE DEF approved
<1> QED
  BY <1>2, <1>4, <1>5, <1>6, <1>7, <1>8

\* A closing at the counter or at the exit leaves no locked order unbilled,
\* although orders are placed and ended, payments decided and other closings
\* run between its steps (finalizeTabInternal).
THEOREM ClosesBilledHolds == Spec => ClosesBilled
<1>1. BillingInv /\ [Next]_vars =>
        [tab.status = "OPEN" /\ tab'.status = "CLOSED" /\ closedBy' \in {"MANUAL_SETTLEMENT", "EXIT_QR"}
           => Received' >= Billed']_vars
  <2> SUFFICES ASSUME BillingInv, Next, ClosesNow PROVE Received' >= Billed'
    BY DEF ClosesNow
  <2> QED
    BY WhoCloses, CloseBills
<1> QED
  BY <1>1, Invariant, PTL DEF Spec, ClosesBilled

=============================================================================
