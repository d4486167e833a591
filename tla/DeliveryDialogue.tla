-------------------------- MODULE DeliveryDialogue --------------------------
(***************************************************************************)
(* A delivery asked for in the conversation: the address, its order, the   *)
(* checkout and the payment that confirms it (handle_whatsapp_delivery.go, *)
(* delivery_checkout_coordinator.go, delivery_payment_coordinator.go) with *)
(* the address book of a customer (delivery-customer.service.ts) and       *)
(* create and confirm of delivery-checkout.service.ts as they look from    *)
(* here (module DeliveryCheckout has their transactions, and the expiry).  *)
(*                                                                         *)
(* One customer; messages are handled one by one (module Conversation has  *)
(* what happens when they overlap), and the session is saved after the     *)
(* last call: a worker that dies, or a text that cannot be sent, leaves    *)
(* the calls made and the session as it was.  The clients repeat a call    *)
(* whose answer is lost.  The dialogue begins at StartDeliveryAddressFlow, *)
(* which has no caller but the tests yet; all the rest is reached from the *)
(* conversation's states.                                                  *)
(*                                                                         *)
(* A place stands for the text of an address; coordinates are the place    *)
(* they were computed from.  Not modelled: wording; the order of the list  *)
(* and which address is the default one; the mode of the checkout (never   *)
(* EXTERNAL here: the session only has a mode when it has a checkout too). *)
(***************************************************************************)
EXTENDS Naturals, FiniteSets

CONSTANTS
  Places, NoPlace,
  Carts, NoCart,     \* contents of the cart
  AddressLimit,      \* addresses one customer may have (5 in the code)
  MaxAddresses,      \* bound: addresses ever created
  MaxBatches,        \* bound: order batches
  Payments,          \* payments that may be made
  Unpaid,
  MaxEdits,          \* bound: changes the restaurant makes in the address book
  MaxFaults          \* bound: workers that die and answers that are lost

ASSUME DialogueAssumption ==
  /\ {AddressLimit, MaxAddresses, MaxBatches, MaxEdits, MaxFaults} \subseteq Nat
  /\ NoPlace \notin Places /\ NoCart \notin Carts /\ Unpaid \notin Payments

Ids == 1 .. MaxAddresses
BatchIds == 1 .. MaxBatches
Nothing == 0          \* no id, no batch

Required == {"neighborhood", "city", "state"}   \* fields the form may skip

\* What is found for a postal code: of a street, of a whole town, nothing.
Lookups == {Required, {"city", "state"}, {}}

\* What a checkout key is computed from.
CheckoutKeys == [address : Ids, at : Places, cart : Carts]
NoCheckoutKey == [address |-> Nothing, at |-> NoPlace, cart |-> NoCart]

\* text: the fields; shown: the formatted address, which a draft has only from
\* a saved address; at: coordinates; vague: geocoded with quality AMBIGUOUS.
NoDraft == [text |-> NoPlace, shown |-> NoPlace, at |-> NoPlace, vague |-> FALSE, known |-> {}]

NoAddress == [text |-> NoPlace, at |-> NoPlace, live |-> FALSE]
NoBatch == [at |-> NoPlace, cart |-> NoCart, vague |-> FALSE, delivery |-> FALSE]
NoCheckout == [status |-> "NONE", batch |-> Nothing, due |-> FALSE, payment |-> Unpaid]
NotPaid == [pc |-> "none", key |-> NoCheckoutKey, batch |-> Nothing]

\* The session outside of the delivery dialogue.
Clean(cart) ==
  [state |-> "MAIN_MENU", cart |-> cart, listed |-> {}, selected |-> Nothing, draft |-> NoDraft,
   deleting |-> Nothing, editing |-> FALSE, key |-> NoCheckoutKey, batch |-> Nothing]

VARIABLES
  chat,          \* the session
  book,          \* the customer's addresses
  batches,       \* orders of the delivery, by batch
  checkouts,     \* delivery_checkouts, by key
  payments,
  edits, faults,
  confirmed,     \* history: the address the customer said yes to, as it was shown
  story          \* history: what happened since the addresses were listed

serverVars == <<book, batches, checkouts, payments>>
historyVars == <<confirmed, story>>
dialogueVars == <<chat, serverVars, edits, faults, historyVars>>

DialogueInit ==
  /\ chat = Clean(NoCart)
  /\ book = [a \in Ids |-> NoAddress]
  /\ batches = [b \in BatchIds |-> NoBatch]
  /\ checkouts = [k \in CheckoutKeys |-> NoCheckout]
  /\ payments = [p \in Payments |-> NotPaid]
  /\ edits = 0 /\ faults = 0
  /\ confirmed = NoPlace /\ story = {}

---------------------------------------------------------------------------
(* the address book *)

Live(addresses) == {a \in Ids : addresses[a].live}
Unborn(addresses) == {a \in Ids : addresses[a] = NoAddress}

\* createAddress, under the customer's lock: up to the limit.
MayCreate(addresses) == Cardinality(Live(addresses)) < AddressLimit
Created(addresses, a, text, at) ==
  [addresses EXCEPT ![a] = [text |-> text, at |-> at, live |-> TRUE]]
NewId(addresses) == CHOOSE a \in Unborn(addresses) : \A other \in Unborn(addresses) : a <= other
Creates(addresses, text, at) == Created(addresses, NewId(addresses), text, at)

\* updateAddress: coordinates that are not sent stay as they are.
Updated(addresses, a, text, at) ==
  [addresses EXCEPT ![a].text = text, ![a].at = IF at = NoPlace THEN @ ELSE at]

Removed(addresses, a) == [addresses EXCEPT ![a].live = FALSE]

\* The restaurant's own page has the same operations, with or without
\* coordinates.
StaffEdits ==
  /\ edits < MaxEdits
  /\ edits' = edits + 1
  /\ \/ /\ MayCreate(book) /\ Unborn(book) # {}
        /\ \E text \in Places, at \in Places \cup {NoPlace} : at \in {text, NoPlace} /\ book' = Creates(book, text, at)
        /\ UNCHANGED story
     \/ /\ \E a \in Live(book), text \in Places, at \in Places \cup {NoPlace} :
             at \in {text, NoPlace} /\ book' = Updated(book, a, text, at)
        /\ story' = story \cup {"staff"}
     \/ /\ \E a \in Live(book) : book' = Removed(book, a)
        /\ UNCHANGED story
  /\ UNCHANGED <<chat, batches, checkouts, payments, faults, confirmed>>

---------------------------------------------------------------------------
(* answers, and what may go wrong with them *)

Fault == faults < MaxFaults /\ faults' = faults + 1

\* A handler that only writes the session: a worker that dies changes nothing.
Says(s) == chat' = s /\ UNCHANGED <<serverVars, edits, faults>>

\* After its calls: the session is saved, or it is not and the calls remain.
Saves(s) == (chat' = s /\ UNCHANGED faults) \/ (UNCHANGED chat /\ Fault)

\* Of the session's checkout the batch stays.
ClearKey(s) == [s EXCEPT !.key = NoCheckoutKey]
ClearCheckout(s) == [s EXCEPT !.key = NoCheckoutKey, !.batch = Nothing]
To(state) == [chat EXCEPT !.state = state]
In(state) == chat.state = state

\* The history is of one conversation about an address, but for what the
\* restaurant has changed.
Restarts == story' = story \cap {"staff"} /\ confirmed' = NoPlace

Form == {"DELIVERY_STREET", "DELIVERY_NEIGHBORHOOD", "DELIVERY_CITY", "DELIVERY_STATE",
         "DELIVERY_ADDRESS_NUMBER", "DELIVERY_ADDRESS_COMPLEMENT", "DELIVERY_ADDRESS_REFERENCE",
         "DELIVERY_ADDRESS_LABEL"}
Cancellable == Form \cup {"DELIVERY_ADDRESS_SELECTION", "DELIVERY_ADDRESS_DELETE", "DELIVERY_POSTAL_CODE",
                          "DELIVERY_ADDRESS_CONFIRMATION", "DELIVERY_ADDRESS_CONSENT", "DELIVERY_READY"}
Outside == {"MAIN_MENU", "ORDERING"}

\* "0", "cancelar" and, in every state, "menu" and "voltar".
Cancel ==
  /\ chat.state \in Cancellable
  /\ Says(Clean(chat.cart))
  /\ Restarts

\* Outside of the dialogue the cart is filled, emptied or changed; a session
\* that is not used for a day is gone.
ChangeCart ==
  /\ chat.state \in Outside
  /\ \E c \in Carts \cup {NoCart} : c # chat.cart /\ Says([To("MAIN_MENU") EXCEPT !.cart = c])
  /\ UNCHANGED historyVars

SessionExpires == chat # Clean(NoCart) /\ Says(Clean(NoCart)) /\ Restarts

---------------------------------------------------------------------------
(* choosing an address *)

Started(s, addresses) ==
  [ClearCheckout(s) EXCEPT
     !.selected = Nothing, !.draft = NoDraft, !.editing = FALSE, !.deleting = Nothing,
     !.listed = Live(addresses),
     !.state = IF Live(addresses) = {} THEN "DELIVERY_POSTAL_CODE" ELSE "DELIVERY_ADDRESS_SELECTION"]

StartDeliveryAddressFlow ==
  /\ chat.state \in Outside
  /\ Says(Started(chat, book))
  /\ Restarts

AskedNew == [chat EXCEPT !.draft = NoDraft, !.state = "DELIVERY_POSTAL_CODE"]

\* A number of the list, alone or after "editar" or "excluir".  The address is
\* read again; one that is gone only leaves its id selected.
Chosen(a) ==
  [chat EXCEPT !.selected = a,
     !.draft = [text |-> book[a].text, shown |-> book[a].text, at |-> book[a].at, vague |-> FALSE, known |-> Required],
     !.state = "DELIVERY_ADDRESS_CONFIRMATION"]

AddressSelection ==
  /\ In("DELIVERY_ADDRESS_SELECTION")
  /\ \/ /\ Says(AskedNew)
        /\ story' = story \cup (IF "chose" \in story THEN {"renewed"} ELSE {})
     \/ \E a \in chat.listed :
          /\ story' = story \cup {"chose"}
          /\ Says([chat EXCEPT !.selected = a, !.deleting = a, !.state = "DELIVERY_ADDRESS_DELETE"])
     \/ \E a \in chat.listed :
          /\ book[a].live
          /\ \/ Says(Chosen(a)) /\ story' = story \cup {"chose"}
             \/ /\ Says([Chosen(a) EXCEPT !.editing = TRUE, !.state = "DELIVERY_POSTAL_CODE"])
                /\ story' = story \cup {"chose", "edited"}
     \/ \E a \in chat.listed :
          /\ ~book[a].live
          /\ Says([chat EXCEPT !.selected = a])
          /\ story' = story \cup {"chose"}
  /\ UNCHANGED confirmed

AddressDeleteKept ==
  /\ In("DELIVERY_ADDRESS_DELETE")
  /\ Says([To("DELIVERY_ADDRESS_SELECTION") EXCEPT !.deleting = Nothing])
  /\ UNCHANGED historyVars

\* "sim": the address is removed and the list is read again.  When the answer
\* is lost, the repeated call finds no address, and the question stays; it also
\* stays when the worker dies.
AddressDelete ==
  /\ In("DELIVERY_ADDRESS_DELETE")
  /\ book[chat.deleting].live
  /\ book' = Removed(book, chat.deleting)
  /\ \/ chat' = Started(chat, book') /\ UNCHANGED faults /\ Restarts
     \/ Fault /\ UNCHANGED <<chat, historyVars>>
  /\ UNCHANGED <<batches, checkouts, payments, edits>>

---------------------------------------------------------------------------
(* typing an address *)

\* What is found for a postal code fills the draft; a lookup that fails finds
\* nothing.
PostalCode ==
  /\ In("DELIVERY_POSTAL_CODE")
  /\ \E text \in Places, found \in Lookups, street \in BOOLEAN :
       Says([chat EXCEPT
               !.draft.text = text, !.draft.known = @ \cup found,
               !.state = IF street THEN "DELIVERY_ADDRESS_NUMBER" ELSE "DELIVERY_STREET"])
  /\ UNCHANGED historyVars

\* After each field: the fields asked for when they are missing, and the state
\* when none is.
Follow ==
  [DELIVERY_STREET |-> [ask |-> {"neighborhood"}, then |-> "DELIVERY_ADDRESS_NUMBER"],
   DELIVERY_NEIGHBORHOOD |-> [ask |-> {"city", "state"}, then |-> "DELIVERY_ADDRESS_NUMBER"],
   DELIVERY_CITY |-> [ask |-> {"state"}, then |-> "DELIVERY_ADDRESS_NUMBER"],
   DELIVERY_STATE |-> [ask |-> {}, then |-> "DELIVERY_ADDRESS_NUMBER"],
   DELIVERY_ADDRESS_NUMBER |-> [ask |-> Required, then |-> "DELIVERY_ADDRESS_COMPLEMENT"],
   DELIVERY_ADDRESS_COMPLEMENT |-> [ask |-> {}, then |-> "DELIVERY_ADDRESS_REFERENCE"],
   DELIVERY_ADDRESS_REFERENCE |-> [ask |-> {}, then |-> "DELIVERY_ADDRESS_LABEL"]]

StateOf == [neighborhood |-> "DELIVERY_NEIGHBORHOOD", city |-> "DELIVERY_CITY", state |-> "DELIVERY_STATE"]
FieldOf(state) == {f \in Required : StateOf[f] = state}

\* The neighborhood is asked for before the city, the city before the state.
NextField(state, known) ==
  LET missing == Follow[state].ask \ known
  IN  CASE missing = {} -> Follow[state].then
        [] "neighborhood" \in missing -> "DELIVERY_NEIGHBORHOOD"
        [] "city" \in missing /\ "neighborhood" \notin missing -> "DELIVERY_CITY"
        [] missing = {"state"} -> "DELIVERY_STATE"

\* A street may be another one than before; the other fields belong to it.
DraftField ==
  /\ chat.state \in DOMAIN Follow
  /\ LET known == chat.draft.known \cup FieldOf(chat.state)
     IN  \E text \in IF In("DELIVERY_STREET") THEN Places ELSE {chat.draft.text} :
           Says([chat EXCEPT !.draft.text = text, !.draft.known = known, !.state = NextField(chat.state, known)])
  /\ UNCHANGED historyVars

\* The last field: the address is geocoded, whatever the quality.
AddressLabel ==
  /\ In("DELIVERY_ADDRESS_LABEL")
  /\ \E vague \in BOOLEAN :
       Says([chat EXCEPT !.draft.at = chat.draft.text, !.draft.vague = vague,
                         !.state = "DELIVERY_ADDRESS_CONFIRMATION"])
  /\ UNCHANGED historyVars

---------------------------------------------------------------------------
(* saying yes to it *)

\* formatDeliveryDraft: the formatted address, else the fields.
Displayed(draft) == IF draft.shown # NoPlace THEN draft.shown ELSE draft.text

AddressRefused ==
  /\ In("DELIVERY_ADDRESS_CONFIRMATION")
  /\ Says(To(IF chat.selected # Nothing THEN "DELIVERY_ADDRESS_SELECTION" ELSE "DELIVERY_STREET"))
  /\ UNCHANGED historyVars

\* A selected address that is not being edited needs no consent.
AddressConfirmed ==
  /\ In("DELIVERY_ADDRESS_CONFIRMATION")
  /\ Says(To(IF chat.selected # Nothing /\ ~chat.editing
             THEN "DELIVERY_READY" ELSE "DELIVERY_ADDRESS_CONSENT"))
  /\ confirmed' = Displayed(chat.draft)
  /\ UNCHANGED story

\* Consent to save: the edited address is updated, any other one is created.
\* The call that creates is repeated when its answer is lost.
SaveEdited ==
  /\ chat.editing /\ book[chat.selected].live
  /\ book' = Updated(book, chat.selected, chat.draft.text, chat.draft.at)
  /\ Saves(To("DELIVERY_READY"))

SaveNew ==
  /\ ~chat.editing /\ MayCreate(book) /\ Unborn(book) # {}
  /\ LET once == Creates(book, chat.draft.text, chat.draft.at)
     IN  \/ /\ book' = once
            /\ Saves([To("DELIVERY_READY") EXCEPT !.selected = NewId(book)])
         \/ /\ Fault
            /\ IF MayCreate(once)
               THEN /\ Unborn(once) # {}
                    /\ book' = Creates(once, chat.draft.text, chat.draft.at)
                    /\ chat' = [To("DELIVERY_READY") EXCEPT !.selected = NewId(once)]
               ELSE book' = once /\ UNCHANGED chat

AddressConsent ==
  /\ In("DELIVERY_ADDRESS_CONSENT")
  /\ SaveEdited \/ SaveNew
  /\ UNCHANGED <<batches, checkouts, payments, edits, historyVars>>

---------------------------------------------------------------------------
(* the checkout *)

KeyOf(s) == [address |-> s.selected, at |-> s.draft.at, cart |-> s.cart]

\* The batch with its orders, for the confirmed draft.
FreeBatches == {b \in BatchIds : batches[b] = NoBatch}
NewBatch == CHOOSE b \in FreeBatches : \A other \in FreeBatches : b <= other
BatchCreated(s) ==
  batches' = [batches EXCEPT ![NewBatch] =
                [at |-> s.draft.at, cart |-> s.cart, vague |-> s.draft.vague, delivery |-> FALSE]]

\* create: a checkout for a key that has none.
Creation(k, b) == [NoCheckout EXCEPT !.status = "PENDING_PAYMENT", !.batch = b]

\* An answer that can be reviewed: of a checkout that is new.  A key that is
\* known gives its checkout without the token, or a conflict when that is of
\* another batch; both are refused, like the errors of create.
AskCheckout(b) ==
  LET k == KeyOf(chat)
      s == [chat EXCEPT !.batch = b]
  IN  \/ /\ checkouts[k] = NoCheckout
         /\ checkouts' = [checkouts EXCEPT ![k] = Creation(k, b)]
         /\ \/ Saves([s EXCEPT !.key = k, !.state = "DELIVERY_CHECKOUT_REVIEW"])
            \/ Fault /\ chat' = s
      \/ Saves(s) /\ UNCHANGED <<checkouts>>

\* "continuar".  An order that cannot be created, for want of an open tab or
\* of an item, leaves everything as it is; one that fails halfway leaves its
\* batch.
StartDeliveryCheckout ==
  /\ In("DELIVERY_READY")
  /\ chat.draft.at # NoPlace /\ chat.cart # NoCart
  /\ \/ chat.batch # Nothing /\ AskCheckout(chat.batch) /\ UNCHANGED batches
     \/ /\ chat.batch = Nothing /\ FreeBatches # {}
        /\ BatchCreated(chat)
        /\ AskCheckout(NewBatch) \/ (Fault /\ UNCHANGED <<chat, checkouts>>)
  /\ UNCHANGED <<book, payments, edits, confirmed, story>>

NotReadyAfterAll ==
  /\ In("DELIVERY_READY")
  /\ \/ chat.draft.at = NoPlace /\ Says(To("DELIVERY_ADDRESS_CONFIRMATION"))
     \/ chat.draft.at # NoPlace /\ chat.cart = NoCart /\ Says(To("ORDERING"))
  /\ UNCHANGED historyVars

Expired(s) == s.key # NoCheckoutKey /\ checkouts[s.key].due

\* Any answer to an expired review; or a cancellation, which keeps the address.
CheckoutReview ==
  /\ In("DELIVERY_CHECKOUT_REVIEW")
  /\ Says([ClearCheckout(chat) EXCEPT !.state = IF Expired(chat) THEN "DELIVERY_READY" ELSE "MAIN_MENU"])
  /\ UNCHANGED historyVars

\* A quarter of an hour has passed.
Lapse ==
  /\ \E k \in CheckoutKeys :
       /\ checkouts[k].status = "PENDING_PAYMENT" /\ ~checkouts[k].due
       /\ checkouts' = [checkouts EXCEPT ![k].due = TRUE]
  /\ UNCHANGED <<chat, book, batches, payments, edits, faults, historyVars>>

---------------------------------------------------------------------------
(* the payment *)

Payable(k) == checkouts[k].status = "PENDING_PAYMENT" /\ ~checkouts[k].due

\* The page pays a checkout for an order of the tab; the provider approves.
Pay(p) ==
  /\ payments[p] = NotPaid
  /\ \E k \in CheckoutKeys, b \in BatchIds :
       /\ Payable(k) /\ batches[b] # NoBatch
       /\ payments' = [payments EXCEPT ![p] = [pc |-> "approved", key |-> k, batch |-> b]]
  /\ UNCHANGED <<chat, book, batches, checkouts, edits, faults, historyVars>>

\* The delivery of a batch is created once; not from an ambiguous address.
ReconcileOrderBatch(b) ==
  /\ ~batches[b].vague
  /\ batches' = [batches EXCEPT ![b].delivery = TRUE]

\* confirm and confirmPaidInternally: a payable checkout, or one that this
\* payment has paid.
Confirms(p, k) ==
  /\ Payable(k) \/ (checkouts[k].status = "PAID" /\ checkouts[k].payment = p)
  /\ checkouts' = [checkouts EXCEPT ![k].status = "PAID", ![k].payment = p]

\* The webhook of an approved payment, again until both calls have succeeded:
\* the delivery first, then the checkout, which must be of the same batch.
ProjectBatch(p) ==
  /\ payments[p].pc = "approved"
  /\ ReconcileOrderBatch(payments[p].batch)
  /\ payments' = [payments EXCEPT ![p].pc = "projected"]
  /\ UNCHANGED <<chat, book, checkouts, edits, faults, historyVars>>

ConfirmPaid(p) ==
  /\ payments[p].pc = "projected"
  /\ checkouts[payments[p].key].batch = payments[p].batch
  /\ Confirms(p, payments[p].key)
  /\ \/ payments' = [payments EXCEPT ![p].pc = "confirmed"] /\ UNCHANGED faults
     \/ Fault /\ payments' = [payments EXCEPT ![p].pc = "approved"]
  /\ UNCHANGED <<chat, book, batches, edits, historyVars>>

\* The same for the checkout of the session, with the token (no caller but the
\* tests yet).  An expired one is cleared.
ConfirmDeliveryPayment(p) ==
  /\ payments[p].pc = "approved" /\ chat.key # NoCheckoutKey /\ payments[p].key = chat.key
  /\ IF Expired(chat)
     THEN Says(ClearCheckout(chat))
     ELSE /\ ReconcileOrderBatch(chat.batch)
          /\ Confirms(p, chat.key)
          /\ payments' = [payments EXCEPT ![p].pc = "confirmed"]
          /\ UNCHANGED <<chat, book, edits, faults>>
  /\ UNCHANGED historyVars

---------------------------------------------------------------------------

Conversation ==
  \/ StartDeliveryAddressFlow \/ AddressSelection \/ AddressDeleteKept \/ AddressDelete
  \/ PostalCode \/ DraftField \/ AddressLabel
  \/ AddressRefused \/ AddressConfirmed \/ AddressConsent
  \/ StartDeliveryCheckout \/ NotReadyAfterAll \/ CheckoutReview
  \/ Cancel \/ ChangeCart \/ SessionExpires

DialogueNext ==
  \/ Conversation
  \/ StaffEdits \/ Lapse
  \/ \E p \in Payments : Pay(p) \/ ProjectBatch(p) \/ ConfirmPaid(p) \/ ConfirmDeliveryPayment(p)

DialogueSpec == DialogueInit /\ [][DialogueNext]_dialogueVars

---------------------------------------------------------------------------
(* properties *)

Paid == {k \in DOMAIN checkouts : checkouts[k].status = "PAID"}

\* A paid checkout has a delivery, of its own order: the one for the cart it
\* was charged for, to the place its freight was computed for; no order is paid
\* with two checkouts.  Whatever was cancelled, expired, repeated or lost in
\* between.
PaidGoesWhereCharged ==
  \A k \in Paid :
    LET b == batches[checkouts[k].batch]
    IN  /\ b.delivery /\ b.at = k.at /\ b.cart = k.cart
        /\ \A other \in Paid : checkouts[other].batch = checkouts[k].batch => other = k

\* The freight is computed for the address the customer was shown and said yes
\* to, under the id of that saved address, unless this conversation has asked
\* for a new address after a choice, or has edited one, or the restaurant has
\* changed one.
ChosenIsCharged ==
  In("DELIVERY_CHECKOUT_REVIEW") /\ chat.key # NoCheckoutKey /\ story \cap {"renewed", "edited", "staff"} = {} =>
    confirmed = chat.key.at /\ book[chat.key.address].text = chat.key.at

\* What is paid is delivered where the customer said.
GoesWhereConfirmed == PaidGoesWhereCharged /\ ChosenIsCharged
=============================================================================
