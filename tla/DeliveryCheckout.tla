-------------------------- MODULE DeliveryCheckout --------------------------
(***************************************************************************)
(* From checkout to payment: delivery-checkout.service.ts, which reserves  *)
(* an own courier through delivery-capacity.service.ts (OwnCapacity) or    *)
(* uses an external quote of delivery-quote.service.ts.                    *)
(*                                                                         *)
(* Requests of three kinds interleave, each a sequence of transactions:    *)
(*   - a creator reads, holds a slot in the capacity service's own         *)
(*     transaction, and inserts the checkout;                              *)
(*   - a payer locks the checkout's row, confirms the slot or uses the     *)
(*     quote in a second, separate transaction, and commits PAID;          *)
(*   - the maintenance job reads the due checkouts, then for each of them  *)
(*     writes EXPIRED and releases the slot, in two transactions.          *)
(* Any of them may die between two steps.                                  *)
(***************************************************************************)
EXTENDS Naturals, FiniteSets

CONSTANTS Keys, Deliveries, NoDelivery, NoKey, HoldTime, MaxNow, Capacities,
          Creators,      \* concurrent POST /checkout requests
          Payers,        \* payments: the reference a confirmation carries
          NoOne,         \* no creator, no payment
          Quotes,        \* ids of external quotes
          NoQuote,       \* quote_id IS NULL
          Modes,         \* fulfillment modes offered: a subset of OWN, EXTERNAL
          CheckoutTime,  \* checkoutMinutes
          QuoteTime,     \* validity the provider gives a quote
          RequestTime,   \* bound: ticks one request lives
          SaveMayFail,   \* may the INSERT fail for another reason than its key
          ExpirerMayDie  \* may maintenance die between its two transactions

ASSUME CheckoutTimeAssumption ==
  /\ CheckoutTime \in Nat \ {0} /\ QuoteTime \in Nat \ {0} /\ RequestTime \in Nat
ASSUME NobodyAssumption == NoKey \notin Keys /\ NoQuote \notin Quotes
ASSUME SlotAssumption == HoldTime \in Nat \ {0} /\ MaxNow \in Nat /\ Capacities \subseteq Nat
ASSUME FaultsAssumption == SaveMayFail \in BOOLEAN /\ ExpirerMayDie \in BOOLEAN
ASSUME ModesAssumption == Modes \subseteq {"OWN", "EXTERNAL"}

VARIABLES now, capacity, rows, hold,   \* see OwnCapacity
          holder,      \* the creator whose hold transaction is open
          checkouts,   \* committed checkout of each key
          quotes,      \* committed external quotes
          creators, payers, expirer

Cap == INSTANCE OwnCapacity

capVars == <<now, capacity, rows, hold>>
requests == <<creators, payers, expirer>>
vars == <<capVars, holder, checkouts, quotes, requests>>

Checkout == [status : {"NONE", "PENDING_PAYMENT", "PAID", "EXPIRED"},
             mode : {"OWN", "EXTERNAL"}, quote : Quotes \cup {NoQuote},
             expiresAt : Nat, payment : Payers \cup {NoOne}]
NoCheckout == [status |-> "NONE", mode |-> "OWN", quote |-> NoQuote,
               expiresAt |-> 0, payment |-> NoOne]
Quote == [status : {"NONE", "VALID", "USED", "EXPIRED"}, expiresAt : Nat,
          delivery : Deliveries \cup {NoDelivery}]
Creator == [pc : {"idle", "hold", "save", "undo"}, key : Keys \cup {NoKey},
            mode : {"OWN", "EXTERNAL"}, quote : Quotes \cup {NoQuote}, since : Nat]
\* until: the end of the slot's window, in the answer of capacityService.confirm.
Payer == [pc : {"idle", "reserve", "commit"}, key : Keys \cup {NoKey},
          delivery : Deliveries \cup {NoDelivery}, since : Nat, until : Nat]
Expirer == [todo : SUBSET Keys, releasing : Keys \cup {NoKey}]

NoCreation == [pc |-> "idle", key |-> NoKey, mode |-> "OWN", quote |-> NoQuote, since |-> 0]
NoPayment == [pc |-> "idle", key |-> NoKey, delivery |-> NoDelivery, since |-> 0, until |-> 0]
NoExpiry == [todo |-> {}, releasing |-> NoKey]

TypeOK ==
  /\ Cap!TypeOK
  /\ holder \in Creators \cup {NoOne}
  /\ checkouts \in [Keys -> Checkout]
  /\ quotes \in [Quotes -> Quote]
  /\ creators \in [Creators -> Creator]
  /\ payers \in [Payers -> Payer]
  /\ expirer \in Expirer

Init ==
  /\ Cap!Init
  /\ holder = NoOne
  /\ checkouts = [k \in Keys |-> NoCheckout]
  /\ quotes = [q \in Quotes |-> [status |-> "NONE", expiresAt |-> 0, delivery |-> NoDelivery]]
  /\ creators = [c \in Creators |-> NoCreation]
  /\ payers = [p \in Payers |-> NoPayment]
  /\ expirer = NoExpiry

---------------------------------------------------------------------------
(* external quotes *)

Usable(q) == quotes[q].status = "VALID" /\ quotes[q].expiresAt > now

\* createExternalQuote: the provider quotes, and the quote is saved.
QuoteCreate(q) ==
  /\ quotes[q].status = "NONE"
  /\ now + QuoteTime <= MaxNow
  /\ quotes' = [quotes EXCEPT ![q] =
                  [status |-> "VALID", expiresAt |-> now + QuoteTime, delivery |-> NoDelivery]]
  /\ UNCHANGED <<capVars, holder, checkouts, requests>>

\* useQuote succeeds: a valid quote becomes USED; a used one is returned
\* again unless both deliveries are known and differ.
UseQuote(q, d) ==
  \/ /\ Usable(q)
     /\ quotes' = [quotes EXCEPT ![q].status = "USED", ![q].delivery = d]
  \/ /\ quotes[q].status = "USED"
     /\ ~(d # NoDelivery /\ quotes[q].delivery \notin {NoDelivery, d})
     /\ UNCHANGED quotes

\* quoteService.expire.
QuoteExpire ==
  /\ \E q \in Quotes : quotes[q].status = "VALID" /\ quotes[q].expiresAt <= now
  /\ quotes' = [q \in Quotes |->
                  IF quotes[q].status = "VALID" /\ quotes[q].expiresAt <= now
                  THEN [quotes[q] EXCEPT !.status = "EXPIRED"] ELSE quotes[q]]
  /\ UNCHANGED <<capVars, holder, checkouts, requests>>

---------------------------------------------------------------------------
(* create *)

\* No checkout has the key: an OWN one goes on to hold a slot, an EXTERNAL one
\* needs a valid quote.  (An existing checkout is returned as it is.)
CreateBegin(c, k, mode, q) ==
  /\ creators[c].pc = "idle"
  /\ checkouts[k].status = "NONE"
  /\ now + CheckoutTime + RequestTime <= MaxNow
  /\ mode = "OWN" => q = NoQuote
  /\ mode = "EXTERNAL" => q # NoQuote /\ Usable(q)
  /\ creators' = [creators EXCEPT ![c] =
       [pc |-> IF mode = "OWN" THEN "hold" ELSE "save",
        key |-> k, mode |-> mode, quote |-> q, since |-> now]]
  /\ UNCHANGED <<capVars, holder, checkouts, quotes, payers, expirer>>

CreateHold(c) ==
  /\ creators[c].pc = "hold"
  /\ Cap!HoldBegin(creators[c].key)
  /\ holder' = c
  /\ UNCHANGED <<checkouts, quotes, requests>>

HoldCount ==
  /\ Cap!HoldCount
  /\ UNCHANGED <<holder, checkouts, quotes, requests>>

\* The hold committed: the creator goes on to insert its checkout.
HoldGranted ==
  /\ Cap!HoldReuse \/ Cap!HoldGrant
  /\ creators' = [creators EXCEPT ![holder].pc = "save"]
  /\ holder' = NoOne
  /\ UNCHANGED <<checkouts, quotes, payers, expirer>>

\* It was refused, or the server died: the request is over.
HoldFailed ==
  /\ Cap!HoldRefuse \/ Cap!HoldAbort
  /\ creators' = [creators EXCEPT ![holder] = NoCreation]
  /\ holder' = NoOne
  /\ UNCHANGED <<checkouts, quotes, payers, expirer>>

\* INSERT; if another creator's row is there, that one is returned instead.
CreateSave(c) ==
  LET req == creators[c] IN
  /\ req.pc = "save"
  /\ checkouts' = IF checkouts[req.key].status # "NONE" THEN checkouts
                  ELSE [checkouts EXCEPT ![req.key] =
                          [status |-> "PENDING_PAYMENT", mode |-> req.mode, quote |-> req.quote,
                           expiresAt |-> now + CheckoutTime, payment |-> NoOne]]
  /\ creators' = [creators EXCEPT ![c] = NoCreation]
  /\ UNCHANGED <<capVars, holder, quotes, payers, expirer>>

\* The INSERT failed for another reason and no row is there: give the hold back.
CreateSaveFails(c) ==
  /\ SaveMayFail
  /\ creators[c].pc = "save"
  /\ checkouts[creators[c].key].status = "NONE"
  /\ creators' = [creators EXCEPT ![c] =
                    IF creators[c].mode = "OWN" THEN [creators[c] EXCEPT !.pc = "undo"]
                    ELSE NoCreation]
  /\ UNCHANGED <<capVars, holder, checkouts, quotes, payers, expirer>>

\* capacityService.release of the key: a no-op when its row is not active.
ReleaseSlot(k) ==
  /\ k \notin Cap!Locked
  /\ Cap!Release(k) \/ (~Cap!ActiveRow(rows[k]) /\ UNCHANGED capVars)

CreateUndo(c) ==
  /\ creators[c].pc = "undo"
  /\ ReleaseSlot(creators[c].key)
  /\ creators' = [creators EXCEPT ![c] = NoCreation]
  /\ UNCHANGED <<holder, checkouts, quotes, payers, expirer>>

CreateDies(c) ==
  /\ creators[c].pc # "idle" /\ holder # c
  /\ creators' = [creators EXCEPT ![c] = NoCreation]
  /\ UNCHANGED <<capVars, holder, checkouts, quotes, payers, expirer>>

---------------------------------------------------------------------------
(* confirm and confirmPaidInternally *)

PaymentLocked(k) == \E p \in Payers : payers[p].pc # "idle" /\ payers[p].key = k

\* SELECT the checkout FOR UPDATE: payable and not past its expiry.  (A PAID
\* one is returned to the same reference; everything else throws, and the
\* EXPIRED saved before the throw is rolled back.)
PayBegin(p, k, d) ==
  /\ payers[p].pc = "idle"
  /\ ~PaymentLocked(k)
  /\ checkouts[k].status = "PENDING_PAYMENT" /\ checkouts[k].expiresAt > now
  /\ payers' = [payers EXCEPT ![p] =
                  [NoPayment EXCEPT !.pc = "reserve", !.key = k, !.delivery = d, !.since = now]]
  /\ UNCHANGED <<capVars, holder, checkouts, quotes, creators, expirer>>

\* capacityService.confirm succeeds: the hold is confirmed, or it already was
\* and is not known to belong to another delivery.
ConfirmSlot(k, d) ==
  \/ Cap!Confirm(k, d)
  \/ /\ k \notin Cap!Locked
     /\ rows[k].status = "CONFIRMED"
     /\ ~(d # NoDelivery /\ rows[k].delivery \notin {NoDelivery, d})
     /\ UNCHANGED capVars

\* The slot or the quote, in a transaction that commits before the checkout's.
PayReserve(p) ==
  LET req == payers[p]
      checkout == checkouts[req.key]
  IN
  /\ req.pc = "reserve"
  /\ \/ checkout.mode = "OWN" /\ ConfirmSlot(req.key, req.delivery) /\ UNCHANGED quotes
     \/ checkout.mode = "EXTERNAL" /\ UseQuote(checkout.quote, req.delivery) /\ UNCHANGED capVars
  /\ payers' = [payers EXCEPT ![p].pc = "commit",
                              ![p].until = IF checkout.mode = "OWN" THEN rows[req.key].expiresAt ELSE 0]
  /\ UNCHANGED <<holder, checkouts, creators, expirer>>

PayCommit(p) ==
  /\ payers[p].pc = "commit"
  /\ checkouts' = [checkouts EXCEPT ![payers[p].key].status = "PAID",
                                    ![payers[p].key].payment = p]
  /\ payers' = [payers EXCEPT ![p] = NoPayment]
  /\ UNCHANGED <<capVars, holder, quotes, creators, expirer>>

\* The reservation was refused, or the server died: the checkout is unlocked
\* as it was; a slot confirmed or a quote used by then stays so.
PayRollback(p) ==
  /\ payers[p].pc # "idle"
  /\ payers' = [payers EXCEPT ![p] = NoPayment]
  /\ UNCHANGED <<capVars, holder, checkouts, quotes, creators, expirer>>

---------------------------------------------------------------------------
(* expire *)

DueCheckouts ==
  {k \in Keys : checkouts[k].status = "PENDING_PAYMENT" /\ checkouts[k].expiresAt <= now}

\* The list is read without locks; one job runs at a time.
ExpireScan ==
  /\ expirer = NoExpiry
  /\ DueCheckouts # {}
  /\ expirer' = [expirer EXCEPT !.todo = DueCheckouts]
  /\ UNCHANGED <<capVars, holder, checkouts, quotes, creators, payers>>

\* Mutants of ExpireWrite: payers read the checkout without locking its row;
\* the slot of an expired checkout is not released.
ExpireWriteUnlocked(k) ==
  /\ expirer.releasing = NoKey /\ k \in expirer.todo
  /\ checkouts' = [checkouts EXCEPT ![k].status = "EXPIRED"]
  /\ expirer' = [todo |-> expirer.todo \ {k},
                 releasing |-> IF checkouts[k].mode = "OWN" THEN k ELSE NoKey]
  /\ UNCHANGED <<capVars, holder, quotes, creators, payers>>
ExpireWriteOnly(k) ==
  /\ expirer.releasing = NoKey /\ k \in expirer.todo
  /\ ~PaymentLocked(k)
  /\ checkouts' = [checkouts EXCEPT ![k].status = "EXPIRED"]
  /\ expirer' = [expirer EXCEPT !.todo = @ \ {k}]
  /\ UNCHANGED <<capVars, holder, quotes, creators, payers>>

\* UPDATE by id, whatever the row has become; it waits for a payer's lock.
ExpireWrite(k) ==
  /\ expirer.releasing = NoKey /\ k \in expirer.todo
  /\ ~PaymentLocked(k)
  /\ checkouts' = [checkouts EXCEPT ![k].status = "EXPIRED"]
  /\ expirer' = [todo |-> expirer.todo \ {k},
                 releasing |-> IF checkouts[k].mode = "OWN" THEN k ELSE NoKey]
  /\ UNCHANGED <<capVars, holder, quotes, creators, payers>>

ExpireRelease ==
  /\ expirer.releasing # NoKey
  /\ ReleaseSlot(expirer.releasing)
  /\ expirer' = [expirer EXCEPT !.releasing = NoKey]
  /\ UNCHANGED <<holder, checkouts, quotes, creators, payers>>

ExpireDies ==
  /\ ExpirerMayDie
  /\ expirer # NoExpiry
  /\ expirer' = NoExpiry
  /\ UNCHANGED <<capVars, holder, checkouts, quotes, creators, payers>>

---------------------------------------------------------------------------
CapacityExpire == Cap!Expire /\ UNCHANGED <<holder, checkouts, quotes, requests>>

SetCapacity(c) == Cap!SetCapacity(c) /\ UNCHANGED <<holder, checkouts, quotes, requests>>

\* Time, as long as no request outlives RequestTime.
Tick ==
  /\ Cap!Tick
  /\ \A c \in Creators : creators[c].pc # "idle" => now < creators[c].since + RequestTime
  /\ \A p \in Payers : payers[p].pc # "idle" => now < payers[p].since + RequestTime
  /\ UNCHANGED <<holder, checkouts, quotes, requests>>

CreateStep(c) == CreateHold(c) \/ CreateSave(c) \/ CreateSaveFails(c) \/ CreateUndo(c)
HoldStep == HoldCount \/ HoldGranted \/ HoldFailed
PayStep(p) == PayReserve(p) \/ PayCommit(p) \/ PayRollback(p)
ExpireStep == ExpireScan \/ (\E k \in Keys : ExpireWrite(k)) \/ ExpireRelease

Next ==
  \/ \E q \in Quotes : QuoteCreate(q)
  \/ QuoteExpire
  \/ \E c \in Creators :
       \/ \E k \in Keys, mode \in Modes, q \in Quotes \cup {NoQuote} : CreateBegin(c, k, mode, q)
       \/ CreateHold(c) \/ CreateSave(c) \/ CreateSaveFails(c) \/ CreateUndo(c) \/ CreateDies(c)
  \/ HoldCount \/ HoldGranted \/ HoldFailed
  \/ \E p \in Payers :
       \/ \E k \in Keys, d \in Deliveries \cup {NoDelivery} : PayBegin(p, k, d)
       \/ PayReserve(p) \/ PayCommit(p) \/ PayRollback(p)
  \/ ExpireScan \/ (\E k \in Keys : ExpireWrite(k)) \/ ExpireRelease \/ ExpireDies
  \/ CapacityExpire
  \/ \E c \in Capacities : SetCapacity(c)
  \/ Tick

Spec == Init /\ [][Next]_vars

\* Requests end, the maintenance job keeps running, and its statements get the
\* row locks they queue for.
FairSpec ==
  /\ Spec
  /\ \A c \in Creators : SF_vars(CreateStep(c))
  /\ WF_vars(HoldStep)
  /\ \A p \in Payers : SF_vars(PayStep(p))
  /\ SF_vars(ExpireStep) /\ SF_vars(CapacityExpire)
  /\ WF_vars(Tick)

---------------------------------------------------------------------------
(* properties *)

\* A checkout becomes PAID only over a courier slot that is still confirmed
\* for it, or a quote that is used: while the slot's window lasts, no creator,
\* hold or maintenance run takes them away between the two transactions of the
\* payment.  (When the window ends in between, a second creator of the same key
\* turns the confirmed slot into a new hold.)  It needs that no insert fails
\* (SaveMayFail): the creator whose insert failed releases the hold of its
\* key, which another creator may have reused.
PaysOverReservation ==
  \A k \in Keys :
    checkouts[k].status # "PAID" /\ checkouts'[k].status = "PAID" =>
      IF checkouts[k].mode = "OWN"
      THEN \/ rows[k].status = "CONFIRMED"
           \/ \E p \in Payers : payers[p].pc = "commit" /\ payers[p].key = k /\ payers[p].until <= now
      ELSE quotes[checkouts[k].quote].status = "USED"

\* Every checkout is settled: paid, or expired with its courier slot given
\* back, even when payments die after they confirmed the slot.
CheckoutSettles ==
  \A k \in Keys :
    checkouts[k].status = "PENDING_PAYMENT" ~>
      \/ checkouts[k].status = "PAID"
      \/ checkouts[k].status = "EXPIRED" /\ ~Cap!ActiveRow(rows[k])

\* A slot is not kept by a checkout that cannot be paid any more, unless the
\* maintenance job dies between the two transactions (ExpirerMayDie).
SlotReturned ==
  \A k \in Keys :
    checkouts[k].status = "EXPIRED" /\ rows[k].status = "CONFIRMED"
      ~> rows[k].status # "CONFIRMED"
=============================================================================
