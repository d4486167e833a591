------------------------- MODULE Deliveries_proofs -------------------------
(***************************************************************************)
(* Theorems about two modules that share no name, from the address to the  *)
(* courier:                                                                *)
(*   DeliveryDialogue  for every number of addresses, carts, orders,       *)
(*     checkouts and payments, and every bound on edits and faults;        *)
(*   ExternalFulfillment  for every set of overlapping workers and         *)
(*     administrators, every number of cycles and attempts, every clock,   *)
(*     with deaths of servers and lost answers or without.                 *)
(***************************************************************************)
EXTENDS DeliveryDialogue, ExternalFulfillment, FiniteSetTheorems, SequenceTheorems,
        WellFoundedInduction, TLAPS

---------------------------------------------------------------------------
(* DeliveryDialogue: from an address to a paid delivery *)

DialogueStates == Outside \cup Cancellable \cup {"DELIVERY_CHECKOUT_REVIEW"}
Drafts ==
  [text : Places \cup {NoPlace}, shown : Places \cup {NoPlace}, at : Places \cup {NoPlace},
   vague : BOOLEAN, known : SUBSET Required]
Sessions ==
  [state : DialogueStates, cart : Carts \cup {NoCart}, listed : SUBSET Ids,
   selected : Ids \cup {Nothing}, draft : Drafts, deleting : Ids \cup {Nothing}, editing : BOOLEAN,
   key : CheckoutKeys \cup {NoCheckoutKey}, batch : BatchIds \cup {Nothing}]
Addresses == [text : Places \cup {NoPlace}, at : Places \cup {NoPlace}, live : BOOLEAN]
Batches == [at : Places \cup {NoPlace}, cart : Carts \cup {NoCart}, vague : BOOLEAN, delivery : BOOLEAN]
CheckoutRows ==
  [status : {"NONE", "PENDING_PAYMENT", "PAID"}, batch : BatchIds \cup {Nothing}, due : BOOLEAN,
   payment : Payments \cup {Unpaid}]
PaymentRows ==
  [pc : {"none", "approved", "projected", "confirmed"}, key : CheckoutKeys \cup {NoCheckoutKey},
   batch : BatchIds \cup {Nothing}]

DialogueTypeOK ==
  /\ chat \in Sessions
  /\ book \in [Ids -> Addresses]
  /\ batches \in [BatchIds -> Batches]
  /\ checkouts \in [CheckoutKeys -> CheckoutRows]
  /\ payments \in [Payments -> PaymentRows]
  /\ confirmed \in Places \cup {NoPlace}
  /\ story \subseteq {"chose", "renewed", "edited", "staff"}

\* Addresses that were saved have a place, and unless the restaurant wrote a
\* new one over it, their coordinates are its, if they have any.
GoodBook(addresses, past) ==
  \A a \in Ids :
    /\ addresses[a].live => addresses[a] # NoAddress
    /\ addresses[a] # NoAddress => addresses[a].text \in Places
    /\ "staff" \notin past => addresses[a].at \in {addresses[a].text, NoPlace}

BookSound == GoodBook(book, story)

Typing == {"DELIVERY_POSTAL_CODE"} \cup Form
Looking == {"DELIVERY_ADDRESS_SELECTION", "DELIVERY_ADDRESS_DELETE"}
Agreeing == {"DELIVERY_ADDRESS_CONFIRMATION", "DELIVERY_ADDRESS_CONSENT"}
Agreed == {"DELIVERY_READY", "DELIVERY_CHECKOUT_REVIEW"}

\* What the session refers to is there, and an address was chosen before it is
\* edited or left for another one.
Refers ==
  /\ chat.selected # Nothing => book[chat.selected] # NoAddress
  /\ \A a \in chat.listed : book[a] # NoAddress
  /\ In("DELIVERY_ADDRESS_DELETE") => chat.deleting # Nothing
  /\ chat.editing => chat.selected # Nothing /\ "edited" \in story
  /\ chat.draft.shown # NoPlace => chat.selected # Nothing
  /\ chat.state \in Typing \cup Looking \cup Agreeing /\ chat.selected # Nothing => "chose" \in story
  /\ In("DELIVERY_ADDRESS_CONSENT") => chat.editing \/ chat.selected = Nothing
  /\ chat.state \in Agreed => chat.selected # Nothing
  /\ In("DELIVERY_READY") => "chose" \in story \/ chat.draft.at # NoPlace

\* Once it is complete a draft has a place; its coordinates are that place's,
\* and it has none only when the saved address has none.
DraftSound ==
  /\ chat.state \in Form \cup Agreeing \cup Agreed => chat.draft.text \in Places
  /\ chat.state \in Agreeing \cup Agreed =>
       /\ chat.draft.at = NoPlace => chat.selected # Nothing
       /\ "staff" \notin story =>
            /\ chat.draft.at \in {chat.draft.text, NoPlace}
            /\ chat.draft.at = NoPlace => book[chat.selected].text = chat.draft.text

\* In a conversation without a change of mind the draft is the saved address
\* when one is selected, and the customer was shown the place of the draft.
DraftShown ==
  story \cap {"renewed", "edited", "staff"} = {} =>
    /\ chat.state \in Typing => chat.selected = Nothing
    /\ chat.state \in Agreeing \cup Agreed =>
         /\ chat.draft.shown \in {NoPlace, chat.draft.text}
         /\ chat.selected # Nothing => book[chat.selected].text = chat.draft.text
    /\ chat.state \in {"DELIVERY_ADDRESS_CONSENT"} \cup Agreed => confirmed = chat.draft.text

SessionInv == BookSound /\ Refers /\ DraftSound /\ DraftShown

Begun(k) == checkouts[k].status # "NONE"

\* A checkout is of a batch made for its key, and of no other checkout's; it
\* is paid when its delivery has been created.
CheckoutsSound ==
  /\ \A k \in CheckoutKeys : Begun(k) =>
       LET b == checkouts[k].batch
       IN  /\ b \in BatchIds /\ batches[b].at = k.at /\ batches[b].cart = k.cart
           /\ checkouts[k].status = "PAID" => batches[b].delivery
  /\ \A k, other \in CheckoutKeys :
       Begun(k) /\ Begun(other) /\ checkouts[k].batch = checkouts[other].batch => k = other

\* The batch of the session is that of its draft and cart, and nobody else's.
BatchSound ==
  chat.batch # Nothing =>
    /\ chat.state \in Agreed
    /\ KeyOf(chat) \in CheckoutKeys
    /\ batches[chat.batch].at = chat.draft.at /\ batches[chat.batch].cart = chat.cart
    /\ \A k \in CheckoutKeys : Begun(k) /\ checkouts[k].batch = chat.batch => k = KeyOf(chat)

KeySound ==
  chat.key # NoCheckoutKey =>
    /\ In("DELIVERY_CHECKOUT_REVIEW") /\ chat.batch # Nothing
    /\ chat.key = KeyOf(chat) /\ Begun(chat.key) /\ checkouts[chat.key].batch = chat.batch

\* A payment is of a checkout and of an order; the order's delivery comes first.
PaymentsSound ==
  \A p \in Payments : payments[p].pc \in {"approved", "projected"} =>
    /\ payments[p].key \in CheckoutKeys /\ payments[p].batch \in BatchIds
    /\ Begun(payments[p].key)
    /\ payments[p].pc = "projected" => batches[payments[p].batch].delivery

CheckoutInv == CheckoutsSound /\ BatchSound /\ KeySound /\ PaymentsSound

DialogueInv == DialogueTypeOK /\ SessionInv /\ CheckoutInv

LEMMA LeastIn ==
  ASSUME NEW S \in SUBSET Nat, S # {}
  PROVE  \E u \in S : \A w \in S : u <= w
<1>0. S \subseteq Nat
  OBVIOUS
<1>1. PICK v \in S : \A w \in S : ~(<<w, v>> \in OpToRel(<, Nat))
  BY NatLessThanWellFounded, WFMin
<1>2. \A w \in S : ~(w < v)
  BY <1>0, <1>1 DEF OpToRel
<1> QED BY <1>0, <1>2

LEMMA IdsAreNumbers == Ids \subseteq Nat /\ BatchIds \subseteq Nat /\ Nothing \notin Ids /\ Nothing \notin BatchIds
BY DialogueAssumption DEF Ids, BatchIds, Nothing

\* A new address gets an id that no address has; a new batch likewise.
LEMMA NewIdFree ==
  ASSUME NEW addresses, Unborn(addresses) # {}
  PROVE  NewId(addresses) \in Ids /\ addresses[NewId(addresses)] = NoAddress
<1>1. \E a \in Unborn(addresses) : \A other \in Unborn(addresses) : a <= other
  BY IdsAreNumbers, LeastIn DEF Unborn
<1> QED BY <1>1 DEF NewId, Unborn

LEMMA NewBatchFree ==
  ASSUME FreeBatches # {}
  PROVE  NewBatch \in BatchIds /\ batches[NewBatch] = NoBatch
<1>1. \E b \in FreeBatches : \A other \in FreeBatches : b <= other
  BY IdsAreNumbers, LeastIn DEF FreeBatches
<1> QED BY <1>1 DEF NewBatch, FreeBatches

\* What is not asked for a payment yet has no checkout.
LEMMA NotAgreed ==
  ASSUME DialogueInv, chat.state \notin Agreed
  PROVE  chat.batch = Nothing /\ chat.key = NoCheckoutKey
BY DEF DialogueInv, CheckoutInv, BatchSound, KeySound, Agreed, In

\* A session without a checkout leaves those there are alone.
LEMMA NoCheckoutSession ==
  ASSUME CheckoutInv, UNCHANGED <<batches, checkouts, payments>>,
         chat'.batch = Nothing, chat'.key = NoCheckoutKey
  PROVE  CheckoutInv'
BY DEF CheckoutInv, CheckoutsSound, BatchSound, KeySound, PaymentsSound, Begun

LEMMA CleanIsSession ==
  ASSUME NEW cart \in Carts \cup {NoCart}
  PROVE  Clean(cart) \in Sessions
BY DEF Clean, Sessions, DialogueStates, Outside, Drafts, NoDraft

LEMMA DialogueInitially == DialogueInit => DialogueInv
<1> SUFFICES ASSUME DialogueInit PROVE DialogueInv
  OBVIOUS
<1>1. chat \in Sessions
  BY CleanIsSession DEF DialogueInit
<1>2. /\ book \in [Ids -> Addresses] /\ batches \in [BatchIds -> Batches]
      /\ checkouts \in [CheckoutKeys -> CheckoutRows] /\ payments \in [Payments -> PaymentRows]
  BY DEF DialogueInit, NoAddress, NoBatch, NoCheckout, NotPaid, Addresses, Batches, CheckoutRows, PaymentRows
<1>3. DialogueTypeOK
  BY <1>1, <1>2 DEF DialogueTypeOK, DialogueInit
<1>4. SessionInv
  BY DEF DialogueInit, Clean, NoDraft, NoAddress, SessionInv, BookSound, GoodBook, Refers, DraftSound, DraftShown,
         In, Typing, Looking, Agreeing, Agreed, Form
<1>5. CheckoutInv
  BY DEF DialogueInit, Clean, NoCheckout, NotPaid, CheckoutInv, CheckoutsSound, BatchSound, KeySound,
         PaymentsSound, Begun
<1> QED BY <1>3, <1>4, <1>5 DEF DialogueInv

\* A step of the session alone.
LEMMA SessionStep ==
  ASSUME DialogueInv, UNCHANGED serverVars, chat' \in Sessions,
         confirmed' \in Places \cup {NoPlace}, story' \subseteq {"chose", "renewed", "edited", "staff"},
         "staff" \in story => "staff" \in story',
         chat'.batch = Nothing, chat'.key = NoCheckoutKey, Refers', DraftSound', DraftShown'
  PROVE  DialogueInv'
<1>1. DialogueTypeOK'
  BY DEF DialogueInv, DialogueTypeOK, serverVars
<1>2. BookSound'
  BY DEF DialogueInv, SessionInv, BookSound, GoodBook, serverVars
<1>3. CheckoutInv'
  BY NoCheckoutSession DEF DialogueInv, serverVars
<1> QED BY <1>1, <1>2, <1>3 DEF DialogueInv, SessionInv

LEMMA RestartedTypes ==
  ASSUME DialogueTypeOK, Restarts
  PROVE  /\ confirmed' \in Places \cup {NoPlace} /\ story' \subseteq {"chose", "renewed", "edited", "staff"}
         /\ "staff" \in story => "staff" \in story'
         /\ "edited" \notin story' /\ "chose" \notin story'
BY DEF DialogueTypeOK, Restarts

LEMMA CleanStep ==
  ASSUME DialogueInv, NEW cart \in Carts \cup {NoCart}, chat' = Clean(cart),
         UNCHANGED serverVars, Restarts
  PROVE  DialogueInv'
<1>1. chat' \in Sessions
  BY CleanIsSession
<1>2. Refers' /\ DraftSound' /\ DraftShown'
  BY DEF Clean, NoDraft, Refers, DraftSound, DraftShown, In, Typing, Looking, Agreeing, Agreed, Form
<1>3. chat'.batch = Nothing /\ chat'.key = NoCheckoutKey
  BY DEF Clean
<1> QED BY <1>1, <1>2, <1>3, SessionStep, RestartedTypes DEF DialogueInv

LEMMA CancelStep == ASSUME DialogueInv, Cancel PROVE DialogueInv'
<1>1. chat.cart \in Carts \cup {NoCart} /\ chat' = Clean(chat.cart) /\ UNCHANGED serverVars /\ Restarts
  BY DEF Cancel, Says, DialogueInv, DialogueTypeOK, Sessions
<1> QED BY <1>1, CleanStep

LEMMA ExpiryStep == ASSUME DialogueInv, SessionExpires PROVE DialogueInv'
<1>1. chat' = Clean(NoCart) /\ UNCHANGED serverVars /\ Restarts
  BY DEF SessionExpires, Says
<1> QED BY <1>1, CleanStep

LEMMA CartStep == ASSUME DialogueInv, ChangeCart PROVE DialogueInv'
<1>1. PICK c \in Carts \cup {NoCart} : Says([To("MAIN_MENU") EXCEPT !.cart = c])
  BY DEF ChangeCart
<1>2. /\ chat' = [chat EXCEPT !.state = "MAIN_MENU", !.cart = c]
      /\ UNCHANGED <<serverVars, confirmed, story>> /\ chat.state \in Outside
  BY <1>1 DEF ChangeCart, Says, To, historyVars, DialogueInv, DialogueTypeOK, Sessions
<1>3. chat \in Sessions /\ story \subseteq {"chose", "renewed", "edited", "staff"} /\ confirmed \in Places \cup {NoPlace}
  BY DEF DialogueInv, DialogueTypeOK
<1>4. /\ chat' \in Sessions /\ chat'.state = "MAIN_MENU" /\ chat'.batch = chat.batch /\ chat'.key = chat.key
      /\ chat'.selected = chat.selected /\ chat'.listed = chat.listed /\ chat'.editing = chat.editing
      /\ chat'.draft = chat.draft
  BY <1>2, <1>3 DEF Sessions, DialogueStates, Outside
<1>5. chat'.batch = Nothing /\ chat'.key = NoCheckoutKey
  BY <1>2, <1>4, NotAgreed DEF Outside, Agreed
<1>6. Refers' /\ DraftSound' /\ DraftShown'
  BY <1>2, <1>4 DEF DialogueInv, SessionInv, Refers, DraftSound, DraftShown, In, Typing, Looking, Agreeing, Agreed, Form,
     serverVars
<1> QED BY <1>2, <1>3, <1>4, <1>5, <1>6, SessionStep

\* The list is read: the session is as before an address was chosen.
LEMMA StartedSession ==
  ASSUME chat \in Sessions, NEW addresses \in [Ids -> Addresses]
  PROVE  LET s == Started(chat, addresses)
         IN  /\ s \in Sessions /\ s.selected = Nothing /\ s.draft = NoDraft /\ s.editing = FALSE
             /\ s.batch = Nothing /\ s.key = NoCheckoutKey /\ s.listed = Live(addresses)
             /\ s.state \in {"DELIVERY_POSTAL_CODE", "DELIVERY_ADDRESS_SELECTION"}
<1>1. ClearCheckout(chat) \in Sessions
  BY DEF ClearCheckout, Sessions
<1>2. NoDraft \in Drafts /\ Live(addresses) \in SUBSET Ids
  BY DEF NoDraft, Drafts, Live
<1> DEFINE state == IF Live(addresses) = {} THEN "DELIVERY_POSTAL_CODE" ELSE "DELIVERY_ADDRESS_SELECTION"
<1>3. state \in DialogueStates /\ state \in {"DELIVERY_POSTAL_CODE", "DELIVERY_ADDRESS_SELECTION"}
  BY DEF DialogueStates, Cancellable
<1>4. Started(chat, addresses) =
        [ClearCheckout(chat) EXCEPT
           !.selected = Nothing, !.draft = NoDraft, !.editing = FALSE, !.deleting = Nothing,
           !.listed = Live(addresses), !.state = state]
  BY DEF Started
<1>5. ClearCheckout(chat).batch = Nothing /\ ClearCheckout(chat).key = NoCheckoutKey
  BY DEF ClearCheckout, Sessions
<1> HIDE DEF state
<1> QED BY <1>1, <1>2, <1>3, <1>4, <1>5 DEF Sessions

LEMMA StartStep == ASSUME DialogueInv, StartDeliveryAddressFlow PROVE DialogueInv'
<1>1. chat' = Started(chat, book) /\ UNCHANGED serverVars /\ Restarts
  BY DEF StartDeliveryAddressFlow, Says
<1>2. chat \in Sessions /\ book \in [Ids -> Addresses]
  BY DEF DialogueInv, DialogueTypeOK
<1>3. /\ chat' \in Sessions /\ chat'.selected = Nothing /\ chat'.draft = NoDraft /\ chat'.editing = FALSE
      /\ chat'.batch = Nothing /\ chat'.key = NoCheckoutKey /\ chat'.listed = Live(book)
      /\ chat'.state \in {"DELIVERY_POSTAL_CODE", "DELIVERY_ADDRESS_SELECTION"}
  BY <1>1, <1>2, StartedSession
<1>4. Refers' /\ DraftSound' /\ DraftShown'
  BY <1>1, <1>3, RestartedTypes
  DEF DialogueInv, SessionInv, BookSound, GoodBook, Live, NoDraft, Refers, DraftSound, DraftShown, In, Typing, Looking, Agreeing,
      Agreed, Form, serverVars
<1> QED BY <1>1, <1>3, <1>4, SessionStep, RestartedTypes DEF DialogueInv

LEMMA AskedNewStep ==
  ASSUME DialogueInv, In("DELIVERY_ADDRESS_SELECTION"), Says(AskedNew), UNCHANGED confirmed,
         story' = story \cup (IF "chose" \in story THEN {"renewed"} ELSE {})
  PROVE  DialogueInv'
<1>1. chat \in Sessions /\ story \subseteq {"chose", "renewed", "edited", "staff"} /\ confirmed \in Places \cup {NoPlace}
  BY DEF DialogueInv, DialogueTypeOK
<1>2. NoDraft \in Drafts
  BY DEF NoDraft, Drafts
<1>3. /\ chat' \in Sessions /\ chat'.state = "DELIVERY_POSTAL_CODE" /\ chat'.draft = NoDraft
      /\ chat'.selected = chat.selected /\ chat'.listed = chat.listed /\ chat'.editing = chat.editing
      /\ chat'.batch = chat.batch /\ chat'.key = chat.key
  BY <1>1, <1>2 DEF Says, AskedNew, Sessions, DialogueStates, Cancellable
<1>4. chat'.batch = Nothing /\ chat'.key = NoCheckoutKey
  BY <1>3, NotAgreed DEF Agreed, In
<1>5. UNCHANGED serverVars
  BY DEF Says
<1>6. story' \subseteq {"chose", "renewed", "edited", "staff"} /\ story \subseteq story'
  BY <1>1
<1>7. Refers' /\ DraftSound' /\ DraftShown'
  BY <1>3, <1>5, <1>6
  DEF DialogueInv, SessionInv, NoDraft, Refers, DraftSound, DraftShown, In, Typing, Looking, Agreeing, Agreed, Form,
      serverVars
<1> QED BY <1>1, <1>3, <1>4, <1>5, <1>6, <1>7, SessionStep

LEMMA ToDeleteStep ==
  ASSUME DialogueInv, In("DELIVERY_ADDRESS_SELECTION"), NEW a \in chat.listed, UNCHANGED confirmed,
         story' = story \cup {"chose"},
         Says([chat EXCEPT !.selected = a, !.deleting = a, !.state = "DELIVERY_ADDRESS_DELETE"])
  PROVE  DialogueInv'
<1>1. /\ chat \in Sessions /\ story \subseteq {"chose", "renewed", "edited", "staff"} /\ confirmed \in Places \cup {NoPlace}
      /\ a \in Ids /\ book[a] # NoAddress /\ a # Nothing
  BY IdsAreNumbers DEF DialogueInv, DialogueTypeOK, Sessions, SessionInv, Refers
<1>2. /\ chat' \in Sessions /\ chat'.state = "DELIVERY_ADDRESS_DELETE" /\ chat'.draft = chat.draft
      /\ chat'.selected = a /\ chat'.deleting = a /\ chat'.listed = chat.listed /\ chat'.editing = chat.editing
      /\ chat'.batch = chat.batch /\ chat'.key = chat.key
  BY <1>1 DEF Says, Sessions, DialogueStates, Cancellable
<1>3. chat'.batch = Nothing /\ chat'.key = NoCheckoutKey
  BY <1>2, NotAgreed DEF Agreed, In
<1>4. UNCHANGED serverVars
  BY DEF Says
<1>5. Refers' /\ DraftSound' /\ DraftShown'
  BY <1>1, <1>2, <1>4
  DEF DialogueInv, SessionInv, Refers, DraftSound, DraftShown, In, Typing, Looking, Agreeing, Agreed, Form, serverVars
<1> QED BY <1>1, <1>2, <1>3, <1>4, <1>5, SessionStep

LEMMA GoneStep ==
  ASSUME DialogueInv, In("DELIVERY_ADDRESS_SELECTION"), NEW a \in chat.listed, UNCHANGED confirmed,
         story' = story \cup {"chose"}, Says([chat EXCEPT !.selected = a])
  PROVE  DialogueInv'
<1>1. /\ chat \in Sessions /\ story \subseteq {"chose", "renewed", "edited", "staff"} /\ confirmed \in Places \cup {NoPlace}
      /\ a \in Ids /\ book[a] # NoAddress /\ a # Nothing
  BY IdsAreNumbers DEF DialogueInv, DialogueTypeOK, Sessions, SessionInv, Refers
<1>2. /\ chat' \in Sessions /\ chat'.state = "DELIVERY_ADDRESS_SELECTION" /\ chat'.draft = chat.draft
      /\ chat'.selected = a /\ chat'.listed = chat.listed /\ chat'.editing = chat.editing
      /\ chat'.batch = chat.batch /\ chat'.key = chat.key
  BY <1>1 DEF Says, Sessions, In
<1>3. chat'.batch = Nothing /\ chat'.key = NoCheckoutKey
  BY <1>2, NotAgreed DEF Agreed, In
<1>4. UNCHANGED serverVars
  BY DEF Says
<1>5. Refers' /\ DraftSound' /\ DraftShown'
  BY <1>1, <1>2, <1>4
  DEF DialogueInv, SessionInv, Refers, DraftSound, DraftShown, In, Typing, Looking, Agreeing, Agreed, Form, serverVars
<1> QED BY <1>1, <1>2, <1>3, <1>4, <1>5, SessionStep

\* The draft of a chosen address is the saved one.
LEMMA ChosenSession ==
  ASSUME DialogueInv, NEW a \in chat.listed, book[a].live
  PROVE  /\ Chosen(a) \in Sessions /\ a \in Ids /\ a # Nothing /\ book[a] # NoAddress /\ book[a].text \in Places
         /\ Chosen(a).selected = a /\ Chosen(a).state = "DELIVERY_ADDRESS_CONFIRMATION"
         /\ Chosen(a).draft.text = book[a].text /\ Chosen(a).draft.shown = book[a].text
         /\ Chosen(a).draft.at = book[a].at /\ Chosen(a).listed = chat.listed
         /\ Chosen(a).editing = chat.editing /\ Chosen(a).batch = chat.batch /\ Chosen(a).key = chat.key
<1>1. chat \in Sessions /\ a \in Ids /\ a # Nothing /\ book[a] \in Addresses /\ book[a] # NoAddress
  BY IdsAreNumbers DEF DialogueInv, DialogueTypeOK, Sessions, SessionInv, Refers
<1>2. book[a].text \in Places
  BY <1>1 DEF DialogueInv, SessionInv, BookSound, GoodBook
<1> DEFINE draft == [text |-> book[a].text, shown |-> book[a].text, at |-> book[a].at, vague |-> FALSE, known |-> Required]
<1>3. /\ draft \in Drafts /\ draft.text = book[a].text /\ draft.shown = book[a].text /\ draft.at = book[a].at
  BY <1>1 DEF Addresses, Drafts
<1>4. Chosen(a) = [chat EXCEPT !.selected = a, !.draft = draft, !.state = "DELIVERY_ADDRESS_CONFIRMATION"]
  BY DEF Chosen
<1> HIDE DEF draft
<1> QED BY <1>1, <1>2, <1>3, <1>4 DEF Sessions, DialogueStates, Cancellable

LEMMA ChosenStep ==
  ASSUME DialogueInv, In("DELIVERY_ADDRESS_SELECTION"), NEW a \in chat.listed, book[a].live, UNCHANGED confirmed,
         \/ Says(Chosen(a)) /\ story' = story \cup {"chose"}
         \/ /\ Says([Chosen(a) EXCEPT !.editing = TRUE, !.state = "DELIVERY_POSTAL_CODE"])
            /\ story' = story \cup {"chose", "edited"}
  PROVE  DialogueInv'
<1>1. /\ story \subseteq {"chose", "renewed", "edited", "staff"} /\ confirmed \in Places \cup {NoPlace}
      /\ NoPlace \notin Places /\ UNCHANGED serverVars
      /\ "staff" \notin story => book[a].at \in {book[a].text, NoPlace}
  BY ChosenSession, DialogueAssumption DEF DialogueInv, DialogueTypeOK, Says, SessionInv, BookSound, GoodBook
<1>2. /\ chat' \in Sessions /\ chat'.selected = a /\ chat'.listed = chat.listed
      /\ chat'.draft.text = book[a].text /\ chat'.draft.shown = book[a].text /\ chat'.draft.at = book[a].at
      /\ chat'.batch = chat.batch /\ chat'.key = chat.key
      /\ \/ /\ chat'.state = "DELIVERY_ADDRESS_CONFIRMATION" /\ chat'.editing = chat.editing
            /\ story' = story \cup {"chose"}
         \/ chat'.state = "DELIVERY_POSTAL_CODE" /\ chat'.editing = TRUE /\ story' = story \cup {"chose", "edited"}
  <2>1. CASE Says(Chosen(a)) /\ story' = story \cup {"chose"}
    BY <2>1, ChosenSession DEF Says
  <2>2. CASE /\ Says([Chosen(a) EXCEPT !.editing = TRUE, !.state = "DELIVERY_POSTAL_CODE"])
             /\ story' = story \cup {"chose", "edited"}
    <3> DEFINE s == Chosen(a)
    <3>1. /\ s \in Sessions /\ s.selected = a /\ s.listed = chat.listed /\ s.batch = chat.batch /\ s.key = chat.key
          /\ s.draft.text = book[a].text /\ s.draft.shown = book[a].text /\ s.draft.at = book[a].at
      BY ChosenSession
    <3>2. chat' = [s EXCEPT !.editing = TRUE, !.state = "DELIVERY_POSTAL_CODE"]
      BY <2>2 DEF Says
    <3> HIDE DEF s
    <3> QED BY <2>2, <3>1, <3>2 DEF Sessions, DialogueStates, Cancellable
  <2> QED BY <2>1, <2>2
<1>3. chat'.batch = Nothing /\ chat'.key = NoCheckoutKey
  BY <1>2, NotAgreed DEF Agreed, In
<1>4. story' \subseteq {"chose", "renewed", "edited", "staff"} /\ story \subseteq story'
  BY <1>1, <1>2
<1>5. Refers' /\ DraftSound' /\ DraftShown'
  BY <1>1, <1>2, ChosenSession
  DEF DialogueInv, SessionInv, Refers, DraftSound, DraftShown, In, Typing, Looking, Agreeing, Agreed, Form, serverVars
<1> QED BY <1>1, <1>2, <1>3, <1>4, <1>5, SessionStep

LEMMA SelectionStep == ASSUME DialogueInv, AddressSelection PROVE DialogueInv'
BY AskedNewStep, ToDeleteStep, GoneStep, ChosenStep DEF AddressSelection

LEMMA KeptStep == ASSUME DialogueInv, AddressDeleteKept PROVE DialogueInv'
<1>1. /\ chat \in Sessions /\ story \subseteq {"chose", "renewed", "edited", "staff"} /\ confirmed \in Places \cup {NoPlace}
      /\ In("DELIVERY_ADDRESS_DELETE") /\ UNCHANGED <<serverVars, confirmed, story>>
  BY DEF DialogueInv, DialogueTypeOK, AddressDeleteKept, Says, historyVars
<1>2. /\ chat' \in Sessions /\ chat'.state = "DELIVERY_ADDRESS_SELECTION" /\ chat'.draft = chat.draft
      /\ chat'.selected = chat.selected /\ chat'.listed = chat.listed /\ chat'.editing = chat.editing
      /\ chat'.batch = chat.batch /\ chat'.key = chat.key
  BY <1>1 DEF AddressDeleteKept, Says, To, Sessions, DialogueStates, Cancellable
<1>3. chat'.batch = Nothing /\ chat'.key = NoCheckoutKey
  BY <1>1, <1>2, NotAgreed DEF Agreed, In
<1>4. Refers' /\ DraftSound' /\ DraftShown'
  BY <1>1, <1>2
  DEF DialogueInv, SessionInv, Refers, DraftSound, DraftShown, In, Typing, Looking, Agreeing, Agreed, Form, serverVars
<1> QED BY <1>1, <1>2, <1>3, <1>4, SessionStep

LEMMA RemovedSound ==
  ASSUME DialogueTypeOK, NEW a \in Ids
  PROVE  /\ Removed(book, a) \in [Ids -> Addresses]
         /\ \A other \in Ids : /\ Removed(book, a)[other].text = book[other].text
                               /\ Removed(book, a)[other].at = book[other].at
                               /\ Removed(book, a)[other].live => book[other].live
<1>1. book \in [Ids -> Addresses]
  BY DEF DialogueTypeOK
<1> DEFINE row == [book[a] EXCEPT !.live = FALSE]
<1>2. row \in Addresses /\ row.text = book[a].text /\ row.at = book[a].at /\ ~row.live
  BY <1>1 DEF Addresses
<1>3. Removed(book, a) = [book EXCEPT ![a] = row]
  BY DEF Removed
<1> HIDE DEF row
<1>4. Removed(book, a) \in [Ids -> Addresses]
  BY <1>1, <1>2, <1>3
<1>5. \A other \in Ids : Removed(book, a)[other] = IF other = a THEN row ELSE book[other]
  BY <1>1, <1>3
<1>6. ASSUME NEW other \in Ids
      PROVE  /\ Removed(book, a)[other].text = book[other].text
             /\ Removed(book, a)[other].at = book[other].at
             /\ Removed(book, a)[other].live => book[other].live
  <2>1. CASE other = a
    BY <1>2, <1>5, <2>1
  <2>2. CASE other # a
    BY <1>5, <2>2
  <2> QED BY <2>1, <2>2
<1> QED BY <1>4, <1>6

\* An address that has a place has been saved.
LEMMA SavedHasPlace ==
  ASSUME BookSound, NEW a \in Ids
  PROVE  book[a] # NoAddress <=> book[a].text \in Places
<1>1. NoAddress.text = NoPlace /\ NoPlace \notin Places
  BY DialogueAssumption DEF NoAddress
<1> QED BY <1>1 DEF BookSound, GoodBook

LEMMA RemovalSound ==
  ASSUME DialogueInv, NEW a \in Ids, book' = Removed(book, a), "staff" \in story => "staff" \in story'
  PROVE  /\ BookSound' /\ book' \in [Ids -> Addresses]
         /\ \A other \in Ids : (book[other] # NoAddress => book'[other] # NoAddress) /\ book'[other].text = book[other].text
<1>1. /\ book' \in [Ids -> Addresses]
      /\ \A other \in Ids : /\ book'[other].text = book[other].text /\ book'[other].at = book[other].at
                            /\ book'[other].live => book[other].live
  BY RemovedSound DEF DialogueInv
<1>2. \A other \in Ids : book[other] # NoAddress <=> book[other].text \in Places
  BY SavedHasPlace DEF DialogueInv, SessionInv
<1>3. \A other \in Ids : book'[other].text \in Places => book'[other] # NoAddress
  BY DialogueAssumption DEF NoAddress
<1>4. \A other \in Ids : book'[other] # NoAddress => book'[other].text \in Places
  <2> SUFFICES ASSUME NEW other \in Ids, book'[other].text \notin Places PROVE book'[other] = NoAddress
    OBVIOUS
  <2>1. book[other] = NoAddress
    BY <1>1, <1>2
  <2>2. /\ book'[other].text = NoPlace /\ book'[other].at = NoPlace /\ book'[other].live = FALSE
        /\ book'[other] \in Addresses
    BY <1>1, <2>1 DEF NoAddress, Addresses
  <2> QED BY <2>2 DEF NoAddress, Addresses
<1>5. BookSound'
  BY <1>1, <1>2, <1>3, <1>4 DEF DialogueInv, SessionInv, BookSound, GoodBook
<1> QED BY <1>1, <1>2, <1>3, <1>5

LEMMA DeleteStep == ASSUME DialogueInv, AddressDelete PROVE DialogueInv'
<1>1. /\ chat \in Sessions /\ story \subseteq {"chose", "renewed", "edited", "staff"} /\ confirmed \in Places \cup {NoPlace}
      /\ In("DELIVERY_ADDRESS_DELETE") /\ chat.deleting \in Ids /\ book' = Removed(book, chat.deleting)
      /\ UNCHANGED <<batches, checkouts, payments>>
  BY DEF DialogueInv, DialogueTypeOK, AddressDelete, SessionInv, Refers, Sessions
<1>2. chat.batch = Nothing /\ chat.key = NoCheckoutKey
  BY <1>1, NotAgreed DEF Agreed, In
<1>3. CASE chat' = Started(chat, book') /\ Restarts
  <2>1. BookSound' /\ book' \in [Ids -> Addresses]
    BY <1>1, <1>3, RemovalSound, RestartedTypes DEF DialogueInv
  <2>2. /\ chat' \in Sessions /\ chat'.selected = Nothing /\ chat'.draft = NoDraft /\ chat'.editing = FALSE
        /\ chat'.batch = Nothing /\ chat'.key = NoCheckoutKey /\ chat'.listed = Live(book')
        /\ chat'.state \in {"DELIVERY_POSTAL_CODE", "DELIVERY_ADDRESS_SELECTION"}
    BY <1>1, <1>3, <2>1, StartedSession
  <2>3. Refers' /\ DraftSound' /\ DraftShown'
    BY <2>1, <2>2 DEF BookSound, GoodBook, Live, NoDraft, Refers, DraftSound, DraftShown, In, Typing, Looking, Agreeing, Agreed, Form
  <2>4. CheckoutInv'
    BY <1>1, <2>2, NoCheckoutSession DEF DialogueInv
  <2>5. DialogueTypeOK'
    BY <1>1, <1>3, <2>1, <2>2, RestartedTypes DEF DialogueInv, DialogueTypeOK
  <2> QED BY <2>1, <2>3, <2>4, <2>5 DEF DialogueInv, SessionInv
<1>4. CASE UNCHANGED <<chat, historyVars>>
  <2>1. /\ BookSound' /\ book' \in [Ids -> Addresses] /\ UNCHANGED <<chat, story, confirmed>>
        /\ \A other \in Ids : (book[other] # NoAddress => book'[other] # NoAddress) /\ book'[other].text = book[other].text
    BY <1>1, <1>4, RemovalSound DEF historyVars
  <2>2. Refers' /\ DraftSound' /\ DraftShown'
    BY <1>1, <2>1 DEF DialogueInv, SessionInv, Refers, DraftSound, DraftShown, In, Typing, Looking, Agreeing, Agreed, Form,
       Sessions
  <2>3. CheckoutInv'
    BY <1>1, <1>2, <2>1, NoCheckoutSession DEF DialogueInv
  <2>4. DialogueTypeOK'
    BY <1>1, <2>1 DEF DialogueInv, DialogueTypeOK
  <2> QED BY <2>1, <2>2, <2>3, <2>4 DEF DialogueInv, SessionInv
<1> QED BY <1>3, <1>4 DEF AddressDelete

\* A step of the session that leaves the history alone.
LEMMA MovedStep ==
  ASSUME DialogueInv, UNCHANGED <<serverVars, story>>, confirmed' \in Places \cup {NoPlace}, chat' \in Sessions,
         chat.state \notin Agreed, chat'.batch = chat.batch, chat'.key = chat.key,
         Refers', DraftSound', DraftShown'
  PROVE  DialogueInv'
BY NotAgreed, SessionStep DEF DialogueInv, DialogueTypeOK

LEMMA PostalStep == ASSUME DialogueInv, PostalCode PROVE DialogueInv'
<1>1. PICK text \in Places, found \in Lookups, street \in BOOLEAN :
        Says([chat EXCEPT
                !.draft.text = text, !.draft.known = @ \cup found,
                !.state = IF street THEN "DELIVERY_ADDRESS_NUMBER" ELSE "DELIVERY_STREET"])
  BY DEF PostalCode
<1> DEFINE draft == [chat.draft EXCEPT !.text = text, !.known = @ \cup found]
           state == IF street THEN "DELIVERY_ADDRESS_NUMBER" ELSE "DELIVERY_STREET"
<1>2. /\ chat \in Sessions /\ chat.draft \in Drafts /\ confirmed \in Places \cup {NoPlace} /\ In("DELIVERY_POSTAL_CODE")
      /\ found \subseteq Required /\ UNCHANGED <<serverVars, story, confirmed>>
  BY <1>1 DEF DialogueInv, DialogueTypeOK, Sessions, PostalCode, Lookups, Required, Says, historyVars
<1>3. /\ draft \in Drafts /\ draft.text = text /\ draft.shown = chat.draft.shown /\ draft.at = chat.draft.at
  BY <1>2 DEF Drafts
<1>4. state \in DialogueStates /\ state \in Form
  BY DEF DialogueStates, Cancellable, Form
<1>5. chat' = [chat EXCEPT !.draft = draft, !.state = state]
  BY <1>1, <1>2 DEF Says, Sessions, Drafts
<1> HIDE DEF draft, state
<1>6. /\ chat' \in Sessions /\ chat'.state = state /\ chat'.draft = draft
      /\ chat'.selected = chat.selected /\ chat'.listed = chat.listed /\ chat'.editing = chat.editing
      /\ chat'.batch = chat.batch /\ chat'.key = chat.key
  BY <1>2, <1>3, <1>4, <1>5 DEF Sessions
<1>7. Refers' /\ DraftSound' /\ DraftShown'
  BY <1>2, <1>3, <1>4, <1>6
  DEF DialogueInv, SessionInv, Refers, DraftSound, DraftShown, In, Typing, Looking, Agreeing, Agreed, Form, serverVars
<1>8. chat.state \notin Agreed
  BY <1>2 DEF Agreed, In
<1> QED BY <1>2, <1>6, <1>7, <1>8, MovedStep

LEMMA NextFieldInForm ==
  ASSUME NEW state \in DOMAIN Follow, NEW known
  PROVE  NextField(state, known) \in Form
<1> DEFINE missing == Follow[state].ask \ known
<1>1. Follow[state].ask \subseteq Required /\ Follow[state].then \in Form
  BY DEF Follow, Required, Form
<1>2. \/ missing = {} \/ "neighborhood" \in missing
      \/ "city" \in missing /\ "neighborhood" \notin missing
      \/ missing = {"state"}
  BY <1>1 DEF Required
<1>3. NextField(state, known) \in {Follow[state].then, "DELIVERY_NEIGHBORHOOD", "DELIVERY_CITY", "DELIVERY_STATE"}
  <2> HIDE DEF missing
  <2>1. NextField(state, known) =
          CASE missing = {} -> Follow[state].then
            [] "neighborhood" \in missing -> "DELIVERY_NEIGHBORHOOD"
            [] "city" \in missing /\ "neighborhood" \notin missing -> "DELIVERY_CITY"
            [] missing = {"state"} -> "DELIVERY_STATE"
    BY DEF NextField, missing
  <2> QED BY <1>2, <2>1
<1> QED BY <1>1, <1>3 DEF Form

LEMMA FieldStep == ASSUME DialogueInv, DraftField PROVE DialogueInv'
<1> DEFINE known == chat.draft.known \cup FieldOf(chat.state)
           state == NextField(chat.state, known)
<1>1. PICK text \in IF In("DELIVERY_STREET") THEN Places ELSE {chat.draft.text} :
        Says([chat EXCEPT !.draft.text = text, !.draft.known = known, !.state = state])
  BY DEF DraftField
<1>2. /\ chat \in Sessions /\ chat.draft \in Drafts /\ confirmed \in Places \cup {NoPlace} /\ chat.state \in DOMAIN Follow
      /\ known \subseteq Required /\ UNCHANGED <<serverVars, story, confirmed>>
  BY <1>1 DEF DialogueInv, DialogueTypeOK, Sessions, Drafts, DraftField, FieldOf, Says, historyVars
<1>3. state \in Form /\ state \in DialogueStates /\ chat.state \in Form
  <2>1. state \in Form
    BY <1>2, NextFieldInForm
  <2>2. chat.state \in Form
    BY <1>2 DEF Follow, Form
  <2> QED BY <2>1, <2>2 DEF DialogueStates, Cancellable
<1>4. text \in Places
  BY <1>3 DEF DialogueInv, SessionInv, DraftSound
<1> DEFINE draft == [chat.draft EXCEPT !.text = text, !.known = known]
<1> HIDE DEF known, state
<1>5. /\ draft \in Drafts /\ draft.text = text /\ draft.shown = chat.draft.shown /\ draft.at = chat.draft.at
  BY <1>2, <1>4 DEF Drafts
<1>6. chat' = [chat EXCEPT !.draft = draft, !.state = state]
  BY <1>1, <1>2 DEF Says, Sessions, Drafts
<1> HIDE DEF draft
<1>7. /\ chat' \in Sessions /\ chat'.state = state /\ chat'.draft = draft
      /\ chat'.selected = chat.selected /\ chat'.listed = chat.listed /\ chat'.editing = chat.editing
      /\ chat'.batch = chat.batch /\ chat'.key = chat.key
  BY <1>2, <1>3, <1>5, <1>6 DEF Sessions
<1>8. Refers' /\ DraftSound' /\ DraftShown'
  BY <1>2, <1>3, <1>4, <1>5, <1>7
  DEF DialogueInv, SessionInv, Refers, DraftSound, DraftShown, In, Typing, Looking, Agreeing, Agreed, Form, serverVars
<1>9. chat.state \notin Agreed
  BY <1>3 DEF Agreed, Form
<1> QED BY <1>2, <1>7, <1>8, <1>9, MovedStep

LEMMA LabelStep == ASSUME DialogueInv, AddressLabel PROVE DialogueInv'
<1>1. PICK vague \in BOOLEAN :
        Says([chat EXCEPT !.draft.at = chat.draft.text, !.draft.vague = vague, !.state = "DELIVERY_ADDRESS_CONFIRMATION"])
  BY DEF AddressLabel
<1> DEFINE draft == [chat.draft EXCEPT !.at = chat.draft.text, !.vague = vague]
<1>2. /\ chat \in Sessions /\ chat.draft \in Drafts /\ confirmed \in Places \cup {NoPlace} /\ In("DELIVERY_ADDRESS_LABEL")
      /\ UNCHANGED <<serverVars, story, confirmed>> /\ chat.state \in Form /\ chat.state \in Typing /\ chat.state \notin Agreed
  BY <1>1 DEF DialogueInv, DialogueTypeOK, Sessions, AddressLabel, Says, historyVars, Form, Typing, Agreed, In
<1>3. chat.draft.text \in Places /\ NoPlace \notin Places
  BY <1>2, DialogueAssumption DEF DialogueInv, SessionInv, DraftSound
<1>4. /\ draft \in Drafts /\ draft.text = chat.draft.text /\ draft.shown = chat.draft.shown /\ draft.at = chat.draft.text
  BY <1>2 DEF Drafts
<1>5. chat' = [chat EXCEPT !.draft = draft, !.state = "DELIVERY_ADDRESS_CONFIRMATION"]
  BY <1>1, <1>2 DEF Says, Sessions, Drafts
<1> HIDE DEF draft
<1>6. /\ chat' \in Sessions /\ chat'.state = "DELIVERY_ADDRESS_CONFIRMATION" /\ chat'.draft = draft
      /\ chat'.selected = chat.selected /\ chat'.listed = chat.listed /\ chat'.editing = chat.editing
      /\ chat'.batch = chat.batch /\ chat'.key = chat.key
  BY <1>2, <1>4, <1>5 DEF Sessions, DialogueStates, Cancellable
<1>7. Refers' /\ DraftSound' /\ DraftShown'
  BY <1>2, <1>3, <1>4, <1>6
  DEF DialogueInv, SessionInv, Refers, DraftSound, DraftShown, In, Typing, Looking, Agreeing, Agreed, Form, serverVars
<1> QED BY <1>2, <1>6, <1>7, MovedStep

LEMMA RefusedStep == ASSUME DialogueInv, AddressRefused PROVE DialogueInv'
<1> DEFINE state == IF chat.selected # Nothing THEN "DELIVERY_ADDRESS_SELECTION" ELSE "DELIVERY_STREET"
<1>1. /\ chat' = [chat EXCEPT !.state = state] /\ chat \in Sessions /\ confirmed \in Places \cup {NoPlace}
      /\ In("DELIVERY_ADDRESS_CONFIRMATION") /\ UNCHANGED <<serverVars, story, confirmed>> /\ chat.state \notin Agreed
  BY DEF AddressRefused, Says, To, historyVars, DialogueInv, DialogueTypeOK, Agreed, In
<1>2. /\ chat' \in Sessions /\ chat'.state = state /\ chat'.draft = chat.draft
      /\ chat'.selected = chat.selected /\ chat'.listed = chat.listed /\ chat'.editing = chat.editing
      /\ chat'.batch = chat.batch /\ chat'.key = chat.key
  BY <1>1 DEF Sessions, DialogueStates, Cancellable, Form
<1>3. Refers' /\ DraftSound' /\ DraftShown'
  BY <1>1, <1>2
  DEF DialogueInv, SessionInv, Refers, DraftSound, DraftShown, In, Typing, Looking, Agreeing, Agreed, Form, serverVars
<1> QED BY <1>1, <1>2, <1>3, MovedStep

LEMMA ConfirmedStep == ASSUME DialogueInv, AddressConfirmed PROVE DialogueInv'
<1> DEFINE state == IF chat.selected # Nothing /\ ~chat.editing THEN "DELIVERY_READY" ELSE "DELIVERY_ADDRESS_CONSENT"
<1>1. /\ chat' = [chat EXCEPT !.state = state] /\ chat \in Sessions /\ chat.draft \in Drafts
      /\ In("DELIVERY_ADDRESS_CONFIRMATION") /\ UNCHANGED <<serverVars, story>> /\ chat.state \notin Agreed
      /\ confirmed' = Displayed(chat.draft)
  BY DEF AddressConfirmed, Says, To, DialogueInv, DialogueTypeOK, Agreed, In, Sessions
<1>2. /\ chat' \in Sessions /\ chat'.state = state /\ chat'.draft = chat.draft
      /\ chat'.selected = chat.selected /\ chat'.listed = chat.listed /\ chat'.editing = chat.editing
      /\ chat'.batch = chat.batch /\ chat'.key = chat.key
  BY <1>1 DEF Sessions, DialogueStates, Cancellable, Form
<1>3. /\ confirmed' \in Places \cup {NoPlace}
      /\ chat.draft.shown \in {NoPlace, chat.draft.text} => confirmed' = chat.draft.text
  BY <1>1 DEF Displayed, Drafts
<1>4. Refers' /\ DraftSound' /\ DraftShown'
  BY <1>1, <1>2, <1>3
  DEF DialogueInv, SessionInv, Refers, DraftSound, DraftShown, In, Typing, Looking, Agreeing, Agreed, Form, serverVars
<1> QED BY <1>1, <1>2, <1>3, <1>4, MovedStep

\* Writing an address that has a place keeps the book good.
LEMMA WrittenGood ==
  ASSUME NEW past, NEW addresses \in [Ids -> Addresses], GoodBook(addresses, past),
         NEW a \in Ids, NEW row \in Addresses, row.text \in Places,
         "staff" \notin past => row.at \in {row.text, NoPlace}
  PROVE  LET new == [addresses EXCEPT ![a] = row]
         IN  /\ new \in [Ids -> Addresses] /\ GoodBook(new, past)
             /\ new[a] = row /\ row # NoAddress
             /\ \A other \in Ids \ {a} : new[other] = addresses[other]
             /\ \A other \in Ids : addresses[other] # NoAddress => new[other] # NoAddress
<1> DEFINE new == [addresses EXCEPT ![a] = row]
<1>1. /\ new \in [Ids -> Addresses] /\ new[a] = row
      /\ \A other \in Ids \ {a} : new[other] = addresses[other]
  OBVIOUS
<1>2. row # NoAddress
  BY DialogueAssumption DEF NoAddress
<1> HIDE DEF new
<1>3. GoodBook(new, past)
  <2> SUFFICES ASSUME NEW other \in Ids
               PROVE  /\ new[other].live => new[other] # NoAddress
                      /\ new[other] # NoAddress => new[other].text \in Places
                      /\ "staff" \notin past => new[other].at \in {new[other].text, NoPlace}
    BY DEF GoodBook
  <2>1. CASE other = a
    BY <1>1, <1>2, <2>1
  <2>2. CASE other # a
    BY <1>1, <2>2 DEF GoodBook
  <2> QED BY <2>1, <2>2
<1>4. \A other \in Ids : addresses[other] # NoAddress => new[other] # NoAddress
  BY <1>1, <1>2
<1> QED BY <1>1, <1>2, <1>3, <1>4 DEF new

LEMMA CreatedGood ==
  ASSUME NEW past, NEW addresses \in [Ids -> Addresses], GoodBook(addresses, past),
         Unborn(addresses) # {}, NEW text \in Places, NEW at \in Places \cup {NoPlace},
         "staff" \notin past => at \in {text, NoPlace}
  PROVE  LET new == Creates(addresses, text, at)
             n == NewId(addresses)
         IN  /\ new \in [Ids -> Addresses] /\ GoodBook(new, past)
             /\ n \in Ids /\ new[n] # NoAddress /\ new[n].text = text /\ addresses[n] = NoAddress
             /\ \A other \in Ids : addresses[other] # NoAddress => new[other] = addresses[other]
<1> DEFINE row == [text |-> text, at |-> at, live |-> TRUE]
           n == NewId(addresses)
<1>1. n \in Ids /\ addresses[n] = NoAddress
  BY NewIdFree
<1>2. row \in Addresses /\ row.text = text /\ row.at = at
  BY DEF Addresses
<1>3. Creates(addresses, text, at) = [addresses EXCEPT ![n] = row]
  BY DEF Creates, Created
<1> HIDE DEF row, n
<1>4. row.text \in Places /\ ("staff" \notin past => row.at \in {row.text, NoPlace})
  BY <1>2
<1> DEFINE new == [addresses EXCEPT ![n] = row]
<1>5. /\ new \in [Ids -> Addresses] /\ GoodBook(new, past) /\ new[n] = row /\ row # NoAddress
      /\ \A other \in Ids \ {n} : new[other] = addresses[other]
  BY <1>1, <1>2, <1>4, WrittenGood
<1> HIDE DEF new
<1>6. \A other \in Ids : addresses[other] # NoAddress => new[other] = addresses[other]
  BY <1>1, <1>5
<1> QED BY <1>1, <1>2, <1>3, <1>5, <1>6 DEF new, n

LEMMA UpdatedGood ==
  ASSUME NEW past, NEW addresses \in [Ids -> Addresses], GoodBook(addresses, past),
         NEW a \in Ids, addresses[a].live, NEW text \in Places, NEW at \in Places \cup {NoPlace},
         "staff" \notin past => /\ at \in {text, NoPlace}
                                /\ at = NoPlace => addresses[a].text = text
  PROVE  LET new == Updated(addresses, a, text, at)
         IN  /\ new \in [Ids -> Addresses] /\ GoodBook(new, past) /\ new[a].text = text
             /\ \A other \in Ids : addresses[other] # NoAddress => new[other] # NoAddress
<1> DEFINE row == [addresses[a] EXCEPT !.text = text, !.at = IF at = NoPlace THEN @ ELSE at]
<1>1. /\ row \in Addresses /\ row.text = text
      /\ row.at = IF at = NoPlace THEN addresses[a].at ELSE at
  BY DEF Addresses
<1>2. Updated(addresses, a, text, at) = [addresses EXCEPT ![a] = row]
  BY DEF Updated, Addresses
<1> HIDE DEF row
<1>3. "staff" \notin past => row.at \in {row.text, NoPlace}
  BY <1>1 DEF GoodBook
<1> DEFINE new == [addresses EXCEPT ![a] = row]
<1>4. /\ new \in [Ids -> Addresses] /\ GoodBook(new, past) /\ new[a] = row
      /\ \A other \in Ids : addresses[other] # NoAddress => new[other] # NoAddress
  BY <1>1, <1>3, WrittenGood
<1> HIDE DEF new
<1> QED BY <1>1, <1>2, <1>4 DEF new

\* An address is saved with the customer's consent: the dialogue is ready, or
\* its answer is lost.
LEMMA ConsentSound ==
  ASSUME DialogueInv, In("DELIVERY_ADDRESS_CONSENT"), UNCHANGED <<batches, checkouts, payments, confirmed, story>>,
         book' \in [Ids -> Addresses], GoodBook(book', story),
         \A other \in Ids : book[other] # NoAddress => book'[other] # NoAddress,
         NEW n \in Ids, book'[n] # NoAddress, book'[n].text = chat.draft.text,
         chat.editing => n = chat.selected,
         ~chat.editing => chat.draft.at # NoPlace,
         \/ UNCHANGED chat /\ (chat.selected # Nothing => n = chat.selected)
         \/ chat' = [chat EXCEPT !.state = "DELIVERY_READY", !.selected = n]
  PROVE  DialogueInv'
<1>1. /\ chat \in Sessions /\ chat.state \notin Agreed /\ n # Nothing
  BY IdsAreNumbers DEF DialogueInv, DialogueTypeOK, Agreed, In
<1>2. /\ chat' \in Sessions /\ chat'.draft = chat.draft /\ chat'.listed = chat.listed /\ chat'.editing = chat.editing
      /\ chat'.batch = chat.batch /\ chat'.key = chat.key
      /\ \/ chat'.state = chat.state /\ chat'.selected = chat.selected /\ (chat.selected # Nothing => n = chat.selected)
         \/ chat'.state = "DELIVERY_READY" /\ chat'.selected = n
  BY <1>1 DEF Sessions, DialogueStates, Cancellable
<1>3. DialogueTypeOK'
  BY <1>2 DEF DialogueInv, DialogueTypeOK
<1>4. CheckoutInv'
  BY <1>1, <1>2, NotAgreed, NoCheckoutSession DEF DialogueInv
<1>5. BookSound'
  BY DEF BookSound
<1>6. chat.listed \subseteq Ids
  BY <1>1 DEF Sessions
<1>7. Refers' /\ DraftSound' /\ DraftShown'
  BY <1>1, <1>2, <1>6
  DEF DialogueInv, SessionInv, Refers, DraftSound, DraftShown, In, Typing, Looking, Agreeing, Agreed, Form
<1> QED BY <1>3, <1>4, <1>5, <1>7 DEF DialogueInv, SessionInv

\* What a draft is like when the customer is asked for consent.
LEMMA AtConsent ==
  ASSUME DialogueInv, In("DELIVERY_ADDRESS_CONSENT")
  PROVE  /\ chat \in Sessions /\ chat.draft.text \in Places /\ chat.draft.at \in Places \cup {NoPlace}
         /\ book \in [Ids -> Addresses] /\ GoodBook(book, story)
         /\ chat.editing => chat.selected \in Ids
         /\ ~chat.editing => chat.selected = Nothing /\ chat.draft.at # NoPlace
         /\ "staff" \notin story => /\ chat.draft.at \in {chat.draft.text, NoPlace}
                                    /\ chat.draft.at = NoPlace => book[chat.selected].text = chat.draft.text
<1>1. /\ chat \in Sessions /\ book \in [Ids -> Addresses] /\ chat.draft.at \in Places \cup {NoPlace}
      /\ chat.selected \in Ids \cup {Nothing}
  BY DEF DialogueInv, DialogueTypeOK, Sessions, Drafts
<1>2. chat.state \in Agreeing
  BY DEF In, Agreeing
<1> QED BY <1>1, <1>2 DEF DialogueInv, SessionInv, BookSound, Refers, DraftSound, Typing, In

LEMMA SaveEditedStep ==
  ASSUME DialogueInv, In("DELIVERY_ADDRESS_CONSENT"), SaveEdited,
         UNCHANGED <<batches, checkouts, payments, confirmed, story>>
  PROVE  DialogueInv'
<1> DEFINE n == chat.selected
<1>1. /\ chat.editing /\ n \in Ids /\ book[n].live /\ chat.draft.text \in Places
      /\ book' = Updated(book, n, chat.draft.text, chat.draft.at)
  BY AtConsent DEF SaveEdited
<1>2. /\ book' \in [Ids -> Addresses] /\ GoodBook(book', story) /\ book'[n].text = chat.draft.text
      /\ \A other \in Ids : book[other] # NoAddress => book'[other] # NoAddress
  BY <1>1, AtConsent, UpdatedGood
<1>3. book[n] # NoAddress
  BY <1>1, AtConsent DEF GoodBook
<1>4. \/ UNCHANGED chat /\ (chat.selected # Nothing => n = chat.selected)
      \/ chat' = [chat EXCEPT !.state = "DELIVERY_READY", !.selected = n]
  BY AtConsent DEF SaveEdited, Saves, To, Sessions
<1> QED BY <1>1, <1>2, <1>3, <1>4, ConsentSound

LEMMA SaveNewStep ==
  ASSUME DialogueInv, In("DELIVERY_ADDRESS_CONSENT"), SaveNew,
         UNCHANGED <<batches, checkouts, payments, confirmed, story>>
  PROVE  DialogueInv'
<1> DEFINE once == Creates(book, chat.draft.text, chat.draft.at)
           first == NewId(book)
           twice == Creates(once, chat.draft.text, chat.draft.at)
           second == NewId(once)
<1>1. /\ ~chat.editing /\ Unborn(book) # {} /\ chat.selected = Nothing /\ chat.draft.at \in Places
      /\ chat.draft.text \in Places /\ ("staff" \notin story => chat.draft.at \in {chat.draft.text, NoPlace})
      /\ NoPlace \notin Places /\ book \in [Ids -> Addresses] /\ GoodBook(book, story)
  BY AtConsent, DialogueAssumption DEF SaveNew
<1>2. /\ once \in [Ids -> Addresses] /\ GoodBook(once, story) /\ first \in Ids /\ once[first] # NoAddress
      /\ once[first].text = chat.draft.text /\ book[first] = NoAddress
      /\ \A other \in Ids : book[other] # NoAddress => once[other] = book[other]
  BY <1>1, CreatedGood
<1>3. \/ book' = once /\ (chat' = [To("DELIVERY_READY") EXCEPT !.selected = first] \/ UNCHANGED chat)
      \/ /\ Unborn(once) # {} /\ book' = twice
         /\ chat' = [To("DELIVERY_READY") EXCEPT !.selected = second]
  BY DEF SaveNew, Saves
<1>4. CASE book' = once /\ (chat' = [To("DELIVERY_READY") EXCEPT !.selected = first] \/ UNCHANGED chat)
  <2> HIDE DEF once, first
  <2>1. UNCHANGED chat \/ chat' = [chat EXCEPT !.state = "DELIVERY_READY", !.selected = first]
    BY <1>4, AtConsent DEF To, Sessions
  <2> QED BY <1>1, <1>2, <1>4, <2>1, ConsentSound
<1>5. CASE /\ Unborn(once) # {} /\ book' = twice
           /\ chat' = [To("DELIVERY_READY") EXCEPT !.selected = second]
  <2> HIDE DEF once, first
  <2>1. /\ twice \in [Ids -> Addresses] /\ GoodBook(twice, story) /\ second \in Ids /\ twice[second] # NoAddress
        /\ twice[second].text = chat.draft.text
        /\ \A other \in Ids : once[other] # NoAddress => twice[other] = once[other]
    BY <1>1, <1>2, <1>5, CreatedGood
  <2> HIDE DEF twice, second
  <2>2. chat' = [chat EXCEPT !.state = "DELIVERY_READY", !.selected = second]
    BY <1>5, AtConsent DEF To, Sessions
  <2>3. \A other \in Ids : book[other] # NoAddress => twice[other] # NoAddress
    BY <1>2, <2>1
  <2> QED BY <1>1, <1>5, <2>1, <2>2, <2>3, ConsentSound
<1> QED BY <1>3, <1>4, <1>5

LEMMA ConsentStep == ASSUME DialogueInv, AddressConsent PROVE DialogueInv'
BY SaveEditedStep, SaveNewStep DEF AddressConsent, historyVars

\* The restaurant writes in the book.
LEMMA StaffWrites ==
  ASSUME DialogueInv, StaffEdits
  PROVE  /\ book' \in [Ids -> Addresses] /\ GoodBook(book', story') /\ story' \in {story, story \cup {"staff"}}
         /\ \A a \in Ids : book[a] # NoAddress => book'[a] # NoAddress
         /\ "staff" \notin story' => \A a \in Ids : book[a] # NoAddress => book'[a].text = book[a].text
<1> DEFINE Good == /\ book' \in [Ids -> Addresses] /\ GoodBook(book', story') /\ story' \in {story, story \cup {"staff"}}
                   /\ \A a \in Ids : book[a] # NoAddress => book'[a] # NoAddress
                   /\ "staff" \notin story' => \A a \in Ids : book[a] # NoAddress => book'[a].text = book[a].text
<1>1. /\ book \in [Ids -> Addresses] /\ GoodBook(book, story) /\ Live(book) \subseteq Ids
  BY DEF DialogueInv, DialogueTypeOK, SessionInv, BookSound, Live
<1>2. ASSUME Unborn(book) # {}, NEW text \in Places, NEW at \in Places \cup {NoPlace}, at \in {text, NoPlace},
             book' = Creates(book, text, at), UNCHANGED story
      PROVE Good
  <2> DEFINE new == Creates(book, text, at)
  <2>1. /\ new \in [Ids -> Addresses] /\ GoodBook(new, story)
        /\ \A a \in Ids : book[a] # NoAddress => new[a] = book[a]
    BY <1>1, <1>2, CreatedGood
  <2> HIDE DEF new
  <2>2. book' = new
    BY <1>2 DEF new
  <2> QED BY <1>2, <2>1, <2>2
<1>3. ASSUME NEW a \in Live(book), NEW text \in Places, NEW at \in Places \cup {NoPlace},
             book' = Updated(book, a, text, at), story' = story \cup {"staff"}
      PROVE Good
  <2> DEFINE new == Updated(book, a, text, at)
  <2>1. GoodBook(book, story')
    BY <1>1, <1>3 DEF GoodBook
  <2>2. "staff" \in story' /\ book[a].live /\ a \in Ids
    BY <1>3 DEF Live
  <2>3. /\ new \in [Ids -> Addresses] /\ GoodBook(new, story')
        /\ \A other \in Ids : book[other] # NoAddress => new[other] # NoAddress
    BY <1>1, <2>1, <2>2, UpdatedGood
  <2> HIDE DEF new
  <2>4. book' = new
    BY <1>3 DEF new
  <2> QED BY <1>3, <2>2, <2>3, <2>4
<1>4. ASSUME NEW a \in Live(book), book' = Removed(book, a), UNCHANGED story
      PROVE Good
  <2>1. /\ BookSound' /\ book' \in [Ids -> Addresses]
        /\ \A other \in Ids : (book[other] # NoAddress => book'[other] # NoAddress) /\ book'[other].text = book[other].text
    BY <1>1, <1>4, RemovalSound
  <2> QED BY <1>4, <2>1 DEF BookSound
<1>5. Good
  <2> HIDE DEF Good
  <2> QED BY <1>2, <1>3, <1>4 DEF StaffEdits
<1> QED BY <1>5

LEMMA StaffStep == ASSUME DialogueInv, StaffEdits PROVE DialogueInv'
<1>1. /\ chat \in Sessions /\ chat.listed \subseteq Ids /\ chat.selected \in Ids \cup {Nothing}
      /\ UNCHANGED <<chat, batches, checkouts, payments, confirmed>> /\ story \subseteq {"chose", "renewed", "edited", "staff"}
  BY DEF StaffEdits, DialogueInv, DialogueTypeOK, Sessions
<1>2. DialogueTypeOK'
  BY <1>1, StaffWrites DEF DialogueInv, DialogueTypeOK
<1>3. CheckoutInv'
  BY <1>1 DEF DialogueInv, CheckoutInv, CheckoutsSound, BatchSound, KeySound, PaymentsSound, Begun, KeyOf, In
<1>4. BookSound'
  BY StaffWrites DEF BookSound
<1>5. Refers' /\ DraftSound' /\ DraftShown'
  BY <1>1, StaffWrites
  DEF DialogueInv, SessionInv, Refers, DraftSound, DraftShown, In, Typing, Looking, Agreeing, Agreed, Form
<1> QED BY <1>2, <1>3, <1>4, <1>5 DEF DialogueInv, SessionInv

\* A step that leaves the session and the book as they are.
LEMMA ServerStep ==
  ASSUME DialogueInv, UNCHANGED <<chat, book, confirmed, story>>,
         batches' \in [BatchIds -> Batches], checkouts' \in [CheckoutKeys -> CheckoutRows],
         payments' \in [Payments -> PaymentRows], CheckoutInv'
  PROVE  DialogueInv'
<1>1. DialogueTypeOK'
  BY DEF DialogueInv, DialogueTypeOK
<1>2. SessionInv'
  BY DEF DialogueInv, SessionInv, BookSound, GoodBook, Refers, DraftSound, DraftShown, In
<1> QED BY <1>1, <1>2 DEF DialogueInv

LEMMA LapseStep == ASSUME DialogueInv, Lapse PROVE DialogueInv'
<1>1. PICK k \in CheckoutKeys : checkouts' = [checkouts EXCEPT ![k].due = TRUE]
  BY DEF Lapse
<1> DEFINE row == [checkouts[k] EXCEPT !.due = TRUE]
<1>2. /\ checkouts \in [CheckoutKeys -> CheckoutRows] /\ UNCHANGED <<chat, book, batches, payments, confirmed, story>>
      /\ batches \in [BatchIds -> Batches] /\ payments \in [Payments -> PaymentRows]
  BY DEF Lapse, historyVars, DialogueInv, DialogueTypeOK
<1>3. row \in CheckoutRows /\ row.status = checkouts[k].status /\ row.batch = checkouts[k].batch
  BY <1>2 DEF CheckoutRows
<1>4. checkouts' = [checkouts EXCEPT ![k] = row]
  BY <1>1
<1> HIDE DEF row
<1>5. /\ checkouts' \in [CheckoutKeys -> CheckoutRows]
      /\ \A key \in CheckoutKeys : checkouts'[key].status = checkouts[key].status /\ checkouts'[key].batch = checkouts[key].batch
  BY <1>2, <1>3, <1>4
<1>6. chat.key \in CheckoutKeys \cup {NoCheckoutKey}
  BY DEF DialogueInv, DialogueTypeOK, Sessions
<1>7. CheckoutInv'
  BY <1>2, <1>5, <1>6 DEF DialogueInv, CheckoutInv, CheckoutsSound, BatchSound, KeySound, PaymentsSound, Begun, KeyOf, In
<1> QED BY <1>2, <1>5, <1>7, ServerStep

LEMMA PayStep == ASSUME DialogueInv, NEW p \in Payments, Pay(p) PROVE DialogueInv'
<1>1. PICK k \in CheckoutKeys, b \in BatchIds :
        Payable(k) /\ payments' = [payments EXCEPT ![p] = [pc |-> "approved", key |-> k, batch |-> b]]
  BY DEF Pay
<1> DEFINE row == [pc |-> "approved", key |-> k, batch |-> b]
<1>2. /\ payments \in [Payments -> PaymentRows] /\ UNCHANGED <<chat, book, batches, checkouts, confirmed, story>>
      /\ batches \in [BatchIds -> Batches] /\ checkouts \in [CheckoutKeys -> CheckoutRows]
  BY DEF Pay, historyVars, DialogueInv, DialogueTypeOK
<1>3. row \in PaymentRows /\ row.pc = "approved" /\ row.key = k /\ row.batch = b /\ Begun(k)
  BY <1>1 DEF PaymentRows, Payable, Begun
<1>4. payments' = [payments EXCEPT ![p] = row]
  BY <1>1
<1> HIDE DEF row
<1>5. payments' \in [Payments -> PaymentRows] /\ \A q \in Payments : payments'[q] = IF q = p THEN row ELSE payments[q]
  BY <1>2, <1>3, <1>4
<1>6. PaymentsSound'
  BY <1>2, <1>3, <1>5 DEF DialogueInv, CheckoutInv, PaymentsSound, Begun
<1>7. CheckoutInv'
  BY <1>2, <1>6 DEF DialogueInv, CheckoutInv, CheckoutsSound, BatchSound, KeySound, Begun, KeyOf, In
<1> QED BY <1>2, <1>5, <1>7, ServerStep

\* Only the delivery of a batch is created.
LEMMA Reconciled ==
  ASSUME batches \in [BatchIds -> Batches], NEW b \in BatchIds, ReconcileOrderBatch(b)
  PROVE  /\ batches' \in [BatchIds -> Batches] /\ batches'[b].delivery
         /\ \A other \in BatchIds :
              /\ batches'[other].at = batches[other].at /\ batches'[other].cart = batches[other].cart
              /\ batches[other].delivery => batches'[other].delivery
<1> DEFINE row == [batches[b] EXCEPT !.delivery = TRUE]
<1>1. row \in Batches /\ row.at = batches[b].at /\ row.cart = batches[b].cart /\ row.delivery
  BY DEF Batches
<1>2. batches' = [batches EXCEPT ![b] = row]
  BY DEF ReconcileOrderBatch
<1> HIDE DEF row
<1>3. batches' \in [BatchIds -> Batches] /\ \A other \in BatchIds : batches'[other] = IF other = b THEN row ELSE batches[other]
  BY <1>1, <1>2
<1>4. ASSUME NEW other \in BatchIds
      PROVE  /\ batches'[other].at = batches[other].at /\ batches'[other].cart = batches[other].cart
             /\ batches[other].delivery => batches'[other].delivery
  <2>1. CASE other = b
    BY <1>1, <1>3, <2>1
  <2>2. CASE other # b
    BY <1>3, <2>2
  <2> QED BY <2>1, <2>2
<1> QED BY <1>1, <1>3, <1>4

\* Only the checkout's status and payment are written.
LEMMA CheckoutConfirmed ==
  ASSUME checkouts \in [CheckoutKeys -> CheckoutRows], NEW p \in Payments, NEW k \in CheckoutKeys, Confirms(p, k)
  PROVE  /\ checkouts' \in [CheckoutKeys -> CheckoutRows]
         /\ \A key \in CheckoutKeys :
              /\ checkouts'[key].batch = checkouts[key].batch /\ (Begun(key)' <=> Begun(key))
              /\ checkouts'[key].status = "PAID" => key = k \/ checkouts[key].status = "PAID"
<1> DEFINE row == [checkouts[k] EXCEPT !.status = "PAID", !.payment = p]
<1>1. row \in CheckoutRows /\ row.batch = checkouts[k].batch /\ row.status = "PAID" /\ checkouts[k].status # "NONE"
  BY DEF CheckoutRows, Confirms, Payable
<1>2. checkouts' = [checkouts EXCEPT ![k] = row]
  BY DEF Confirms
<1> HIDE DEF row
<1>3. /\ checkouts' \in [CheckoutKeys -> CheckoutRows]
      /\ \A key \in CheckoutKeys : checkouts'[key] = IF key = k THEN row ELSE checkouts[key]
  BY <1>1, <1>2
<1> QED BY <1>1, <1>3 DEF Begun

LEMMA ProjectStep == ASSUME DialogueInv, NEW p \in Payments, ProjectBatch(p) PROVE DialogueInv'
<1> DEFINE b == payments[p].batch
           row == [payments[p] EXCEPT !.pc = "projected"]
<1>1. /\ payments \in [Payments -> PaymentRows] /\ UNCHANGED <<chat, book, checkouts, confirmed, story>>
      /\ batches \in [BatchIds -> Batches] /\ checkouts \in [CheckoutKeys -> CheckoutRows]
      /\ chat \in Sessions
  BY DEF ProjectBatch, historyVars, DialogueInv, DialogueTypeOK
<1>2. payments[p].pc = "approved" /\ b \in BatchIds /\ payments[p].key \in CheckoutKeys /\ Begun(payments[p].key)
  BY DEF ProjectBatch, DialogueInv, CheckoutInv, PaymentsSound
<1>3. /\ batches' \in [BatchIds -> Batches] /\ batches'[b].delivery
      /\ \A other \in BatchIds :
           /\ batches'[other].at = batches[other].at /\ batches'[other].cart = batches[other].cart
           /\ batches[other].delivery => batches'[other].delivery
  BY <1>1, <1>2, Reconciled DEF ProjectBatch
<1>4. row \in PaymentRows /\ row.pc = "projected" /\ row.key = payments[p].key /\ row.batch = b
  BY <1>1 DEF PaymentRows
<1>5. payments' = [payments EXCEPT ![p] = row]
  BY DEF ProjectBatch
<1> HIDE DEF row
<1>6. payments' \in [Payments -> PaymentRows] /\ \A q \in Payments : payments'[q] = IF q = p THEN row ELSE payments[q]
  BY <1>1, <1>4, <1>5
<1>7. PaymentsSound'
  BY <1>1, <1>2, <1>3, <1>4, <1>6 DEF DialogueInv, CheckoutInv, PaymentsSound, Begun
<1>8. CheckoutsSound' /\ BatchSound' /\ KeySound'
  BY <1>1, <1>3 DEF DialogueInv, CheckoutInv, CheckoutsSound, BatchSound, KeySound, Begun, KeyOf, In, Sessions
<1> QED BY <1>1, <1>3, <1>6, <1>7, <1>8, ServerStep DEF CheckoutInv

LEMMA ConfirmPaidStep == ASSUME DialogueInv, NEW p \in Payments, ConfirmPaid(p) PROVE DialogueInv'
<1> DEFINE k == payments[p].key
<1>1. /\ payments \in [Payments -> PaymentRows] /\ UNCHANGED <<chat, book, batches, confirmed, story>>
      /\ batches \in [BatchIds -> Batches] /\ checkouts \in [CheckoutKeys -> CheckoutRows]
      /\ chat \in Sessions
  BY DEF ConfirmPaid, historyVars, DialogueInv, DialogueTypeOK
<1>2. /\ payments[p].pc = "projected" /\ payments[p].batch \in BatchIds /\ k \in CheckoutKeys /\ Begun(k)
      /\ batches[payments[p].batch].delivery /\ checkouts[k].batch = payments[p].batch /\ Confirms(p, k)
  BY DEF ConfirmPaid, DialogueInv, CheckoutInv, PaymentsSound
<1>3. /\ checkouts' \in [CheckoutKeys -> CheckoutRows]
      /\ \A key \in CheckoutKeys :
           /\ checkouts'[key].batch = checkouts[key].batch /\ (Begun(key)' <=> Begun(key))
           /\ checkouts'[key].status = "PAID" => key = k \/ checkouts[key].status = "PAID"
  BY <1>1, <1>2, CheckoutConfirmed
<1>4. PICK pc \in {"confirmed", "approved"} : payments' = [payments EXCEPT ![p].pc = pc]
  BY DEF ConfirmPaid
<1> DEFINE row == [payments[p] EXCEPT !.pc = pc]
<1>5. row \in PaymentRows /\ row.pc = pc /\ row.key = k /\ row.batch = payments[p].batch
  BY <1>1 DEF PaymentRows
<1>6. payments' = [payments EXCEPT ![p] = row]
  BY <1>4
<1> HIDE DEF row
<1>7. payments' \in [Payments -> PaymentRows] /\ \A q \in Payments : payments'[q] = IF q = p THEN row ELSE payments[q]
  BY <1>1, <1>5, <1>6
<1>8. PaymentsSound'
  BY <1>1, <1>2, <1>3, <1>5, <1>7 DEF DialogueInv, CheckoutInv, PaymentsSound
<1>9. CheckoutsSound'
  BY <1>1, <1>2, <1>3 DEF DialogueInv, CheckoutInv, CheckoutsSound
<1>10. BatchSound' /\ KeySound'
  BY <1>1, <1>3 DEF DialogueInv, CheckoutInv, BatchSound, KeySound, KeyOf, In, Sessions
<1> QED BY <1>1, <1>3, <1>7, <1>8, <1>9, <1>10, ServerStep DEF CheckoutInv

\* The session of a checkout has an address with a place, and a cart.
LEMMA KeyParts ==
  ASSUME chat \in Sessions
  PROVE  KeyOf(chat) \in CheckoutKeys <=> chat.selected \in Ids /\ chat.draft.at \in Places /\ chat.cart \in Carts
<1>1. /\ KeyOf(chat).address = chat.selected /\ KeyOf(chat).at = chat.draft.at /\ KeyOf(chat).cart = chat.cart
  BY DEF KeyOf
<1>2. ASSUME KeyOf(chat) \in CheckoutKeys
      PROVE  chat.selected \in Ids /\ chat.draft.at \in Places /\ chat.cart \in Carts
  BY <1>1, <1>2 DEF CheckoutKeys
<1>3. ASSUME chat.selected \in Ids, chat.draft.at \in Places, chat.cart \in Carts
      PROVE  KeyOf(chat) \in CheckoutKeys
  BY <1>3 DEF CheckoutKeys, KeyOf
<1> QED BY <1>2, <1>3

LEMMA ClearedStep ==
  ASSUME DialogueInv, In("DELIVERY_CHECKOUT_REVIEW"), UNCHANGED <<serverVars, confirmed, story>>,
         NEW state \in {"DELIVERY_READY", "MAIN_MENU", "DELIVERY_CHECKOUT_REVIEW"},
         state = "DELIVERY_READY" => chat.key # NoCheckoutKey,
         chat' = [ClearCheckout(chat) EXCEPT !.state = state]
  PROVE  DialogueInv'
<1> DEFINE s == ClearCheckout(chat)
<1>1. chat \in Sessions /\ story \subseteq {"chose", "renewed", "edited", "staff"} /\ confirmed \in Places \cup {NoPlace}
  BY DEF DialogueInv, DialogueTypeOK
<1>2. /\ s \in Sessions /\ s.draft = chat.draft /\ s.selected = chat.selected /\ s.listed = chat.listed
      /\ s.editing = chat.editing /\ s.batch = Nothing /\ s.key = NoCheckoutKey
  BY <1>1 DEF ClearCheckout, Sessions
<1> HIDE DEF s
<1>3. chat' = [s EXCEPT !.state = state]
  BY DEF s
<1>4. /\ chat' \in Sessions /\ chat'.state = state /\ chat'.draft = chat.draft /\ chat'.selected = chat.selected
      /\ chat'.listed = chat.listed /\ chat'.editing = chat.editing /\ chat'.batch = Nothing /\ chat'.key = NoCheckoutKey
  BY <1>2, <1>3 DEF Sessions, DialogueStates, Cancellable, Outside
<1>5. chat.key # NoCheckoutKey => chat.draft.at # NoPlace
  BY <1>1, KeyParts, DialogueAssumption DEF DialogueInv, CheckoutInv, KeySound, BatchSound
<1>6. Refers' /\ DraftSound' /\ DraftShown'
  BY <1>1, <1>4, <1>5
  DEF DialogueInv, SessionInv, Refers, DraftSound, DraftShown, In, Typing, Looking, Agreeing, Agreed, Form, serverVars
<1> QED BY <1>1, <1>4, <1>6, SessionStep

LEMMA ReviewStep == ASSUME DialogueInv, CheckoutReview PROVE DialogueInv'
<1> DEFINE state == IF Expired(chat) THEN "DELIVERY_READY" ELSE "MAIN_MENU"
<1>1. /\ In("DELIVERY_CHECKOUT_REVIEW") /\ UNCHANGED <<serverVars, confirmed, story>>
      /\ chat' = [ClearCheckout(chat) EXCEPT !.state = state]
  BY DEF CheckoutReview, Says, historyVars
<1>2. state \in {"DELIVERY_READY", "MAIN_MENU", "DELIVERY_CHECKOUT_REVIEW"} /\ (state = "DELIVERY_READY" => chat.key # NoCheckoutKey)
  BY DEF Expired
<1> HIDE DEF state
<1> QED BY <1>1, <1>2, ClearedStep

LEMMA ConfirmDialogueStep == ASSUME DialogueInv, NEW p \in Payments, ConfirmDeliveryPayment(p) PROVE DialogueInv'
<1> DEFINE k == chat.key
           b == chat.batch
<1>1. /\ payments \in [Payments -> PaymentRows] /\ UNCHANGED <<confirmed, story>>
      /\ batches \in [BatchIds -> Batches] /\ checkouts \in [CheckoutKeys -> CheckoutRows]
      /\ chat \in Sessions
  BY DEF ConfirmDeliveryPayment, historyVars, DialogueInv, DialogueTypeOK
<1>2. /\ payments[p].pc = "approved" /\ k # NoCheckoutKey /\ In("DELIVERY_CHECKOUT_REVIEW") /\ b # Nothing
      /\ k \in CheckoutKeys /\ b \in BatchIds /\ Begun(k) /\ checkouts[k].batch = b
  BY <1>1 DEF ConfirmDeliveryPayment, DialogueInv, CheckoutInv, KeySound, Sessions
<1>3. CASE Expired(chat)
  <2>1. UNCHANGED serverVars /\ chat' = ClearCheckout(chat)
    BY <1>3 DEF ConfirmDeliveryPayment, Says
  <2>2. ClearCheckout(chat) = [ClearCheckout(chat) EXCEPT !.state = "DELIVERY_CHECKOUT_REVIEW"]
    BY <1>1, <1>2 DEF ClearCheckout, Sessions, In
  <2> QED BY <1>1, <1>2, <2>1, <2>2, ClearedStep
<1>4. CASE ~Expired(chat)
  <2>1. /\ ReconcileOrderBatch(b) /\ Confirms(p, k) /\ UNCHANGED <<chat, book>>
        /\ payments' = [payments EXCEPT ![p].pc = "confirmed"]
    BY <1>4 DEF ConfirmDeliveryPayment
  <2>2. /\ batches' \in [BatchIds -> Batches] /\ batches'[b].delivery
        /\ \A other \in BatchIds :
             /\ batches'[other].at = batches[other].at /\ batches'[other].cart = batches[other].cart
             /\ batches[other].delivery => batches'[other].delivery
    BY <1>1, <1>2, <2>1, Reconciled
  <2>3. /\ checkouts' \in [CheckoutKeys -> CheckoutRows]
        /\ \A key \in CheckoutKeys :
             /\ checkouts'[key].batch = checkouts[key].batch /\ (Begun(key)' <=> Begun(key))
             /\ checkouts'[key].status = "PAID" => key = k \/ checkouts[key].status = "PAID"
    BY <1>1, <1>2, <2>1, CheckoutConfirmed
  <2> DEFINE row == [payments[p] EXCEPT !.pc = "confirmed"]
  <2>4. row \in PaymentRows /\ row.pc = "confirmed"
    BY <1>1 DEF PaymentRows
  <2>5. payments' = [payments EXCEPT ![p] = row]
    BY <2>1
  <2> HIDE DEF row
  <2>6. payments' \in [Payments -> PaymentRows] /\ \A q \in Payments : payments'[q] = IF q = p THEN row ELSE payments[q]
    BY <1>1, <2>4, <2>5
  <2>7. PaymentsSound'
    BY <1>1, <2>2, <2>3, <2>4, <2>6 DEF DialogueInv, CheckoutInv, PaymentsSound
  <2>8. CheckoutsSound'
    BY <1>1, <1>2, <2>2, <2>3 DEF DialogueInv, CheckoutInv, CheckoutsSound
  <2>9. BatchSound' /\ KeySound'
    BY <1>1, <2>1, <2>2, <2>3 DEF DialogueInv, CheckoutInv, BatchSound, KeySound, KeyOf, In, Sessions
  <2> QED BY <1>1, <2>1, <2>2, <2>3, <2>6, <2>7, <2>8, <2>9, ServerStep DEF CheckoutInv
<1> QED BY <1>3, <1>4

LEMMA NotReadyStep == ASSUME DialogueInv, NotReadyAfterAll PROVE DialogueInv'
<1>1. /\ chat \in Sessions /\ In("DELIVERY_READY") /\ UNCHANGED <<serverVars, confirmed, story>>
      /\ story \subseteq {"chose", "renewed", "edited", "staff"} /\ confirmed \in Places \cup {NoPlace}
  BY DEF NotReadyAfterAll, Says, historyVars, DialogueInv, DialogueTypeOK
<1>2. PICK state \in {"DELIVERY_ADDRESS_CONFIRMATION", "ORDERING"} :
        /\ chat' = [chat EXCEPT !.state = state]
        /\ state = "DELIVERY_ADDRESS_CONFIRMATION" => chat.draft.at = NoPlace
        /\ chat.draft.at = NoPlace \/ chat.cart = NoCart
  BY DEF NotReadyAfterAll, Says, To
<1>3. /\ chat' \in Sessions /\ chat'.state = state /\ chat'.draft = chat.draft
      /\ chat'.selected = chat.selected /\ chat'.listed = chat.listed /\ chat'.editing = chat.editing
      /\ chat'.batch = chat.batch /\ chat'.key = chat.key
  BY <1>1, <1>2 DEF Sessions, DialogueStates, Cancellable, Outside
<1>4. KeyOf(chat) \notin CheckoutKeys
  BY <1>1, <1>2, KeyParts, DialogueAssumption
<1>5. chat'.batch = Nothing /\ chat'.key = NoCheckoutKey
  BY <1>3, <1>4 DEF DialogueInv, CheckoutInv, BatchSound, KeySound
<1>6. Refers' /\ DraftSound' /\ DraftShown'
  BY <1>1, <1>2, <1>3
  DEF DialogueInv, SessionInv, Refers, DraftSound, DraftShown, In, Typing, Looking, Agreeing, Agreed, Form, serverVars
<1> QED BY <1>1, <1>3, <1>5, <1>6, SessionStep

\* The checkout of a batch that was made for the draft and the cart is asked for.
LEMMA AskSound ==
  ASSUME DialogueInv, In("DELIVERY_READY"), KeyOf(chat) \in CheckoutKeys,
         UNCHANGED <<book, payments, confirmed, story>>,
         NEW b \in BatchIds, chat.batch \in {Nothing, b}, batches' \in [BatchIds -> Batches],
         \A other \in BatchIds : batches[other].delivery => batches'[other].delivery,
         batches'[b].at = chat.draft.at, batches'[b].cart = chat.cart,
         \A key \in CheckoutKeys : Begun(key) =>
           /\ batches'[checkouts[key].batch].at = key.at /\ batches'[checkouts[key].batch].cart = key.cart
           /\ checkouts[key].batch = b => key = KeyOf(chat),
         AskCheckout(b) \/ UNCHANGED <<chat, checkouts>>
  PROVE  DialogueInv'
<1> DEFINE k == KeyOf(chat)
           row == Creation(k, b)
<1>1. /\ chat \in Sessions /\ checkouts \in [CheckoutKeys -> CheckoutRows] /\ payments \in [Payments -> PaymentRows]
      /\ chat.selected \in Ids /\ b # Nothing /\ k # NoCheckoutKey /\ k.at = chat.draft.at /\ k.cart = chat.cart
      /\ chat.key = NoCheckoutKey
  <2>1. chat \in Sessions /\ checkouts \in [CheckoutKeys -> CheckoutRows] /\ payments \in [Payments -> PaymentRows]
    BY DEF DialogueInv, DialogueTypeOK
  <2>2. chat.selected \in Ids /\ k.at = chat.draft.at /\ k.cart = chat.cart /\ k.address = chat.selected
    BY <2>1, KeyParts DEF KeyOf
  <2>3. k # NoCheckoutKey /\ b # Nothing
    BY <2>2, IdsAreNumbers DEF NoCheckoutKey
  <2>4. chat.key = NoCheckoutKey
    BY DEF DialogueInv, CheckoutInv, KeySound, In
  <2> QED BY <2>1, <2>2, <2>3, <2>4
<1>2. row \in CheckoutRows /\ row.status = "PENDING_PAYMENT" /\ row.batch = b
  BY <1>1 DEF Creation, NoCheckout, CheckoutRows
<1>3. NoCheckout.status = "NONE"
  BY DEF NoCheckout
<1> HIDE DEF row
<1> DEFINE state == IF chat' = [chat EXCEPT !.batch = b, !.key = k, !.state = "DELIVERY_CHECKOUT_REVIEW"]
                    THEN "DELIVERY_CHECKOUT_REVIEW" ELSE "DELIVERY_READY"
<1>4. \/ /\ checkouts[k] = NoCheckout /\ checkouts' = [checkouts EXCEPT ![k] = row]
         /\ \/ chat' = [chat EXCEPT !.batch = b, !.key = k, !.state = "DELIVERY_CHECKOUT_REVIEW"]
            \/ chat' = [chat EXCEPT !.batch = b] \/ UNCHANGED chat
      \/ (chat' = [chat EXCEPT !.batch = b] \/ UNCHANGED chat) /\ UNCHANGED checkouts
  BY <1>1 DEF AskCheckout, Saves, row, Sessions
<1>5. /\ chat' \in Sessions /\ chat'.draft = chat.draft /\ chat'.selected = chat.selected
      /\ chat'.listed = chat.listed /\ chat'.editing = chat.editing /\ chat'.cart = chat.cart
      /\ chat'.batch \in {Nothing, b}
      /\ \/ chat'.state = "DELIVERY_READY" /\ chat'.key = NoCheckoutKey
         \/ /\ chat'.state = "DELIVERY_CHECKOUT_REVIEW" /\ chat'.key = k /\ chat'.batch = b
            /\ checkouts[k] = NoCheckout /\ checkouts' = [checkouts EXCEPT ![k] = row]
  BY <1>1, <1>4 DEF Sessions, DialogueStates, Cancellable, In
<1>6. KeyOf(chat)' = k
  BY <1>5 DEF KeyOf
<1>7. /\ checkouts' \in [CheckoutKeys -> CheckoutRows]
      /\ \/ UNCHANGED checkouts
         \/ /\ ~Begun(k)
            /\ \A key \in CheckoutKeys : checkouts'[key] = IF key = k THEN row ELSE checkouts[key]
  BY <1>1, <1>2, <1>3, <1>4 DEF Begun
<1>8. DialogueTypeOK'
  BY <1>5, <1>7 DEF DialogueInv, DialogueTypeOK
<1>9. BookSound'
  BY DEF DialogueInv, SessionInv, BookSound, GoodBook
<1>10. Refers' /\ DraftSound' /\ DraftShown'
  BY <1>1, <1>5
  DEF DialogueInv, SessionInv, Refers, DraftSound, DraftShown, In, Typing, Looking, Agreeing, Agreed, Form
<1> HIDE DEF k
<1>11. \A key \in CheckoutKeys : Begun(key)' =>
         \/ Begun(key) /\ checkouts'[key] = checkouts[key]
         \/ key = k /\ ~Begun(k) /\ checkouts'[key] = row
  BY <1>7 DEF Begun
<1>12. k \in CheckoutKeys
  BY DEF k
<1>13. CheckoutsSound'
  <2>1. ASSUME NEW key \in CheckoutKeys, Begun(key)'
        PROVE  /\ checkouts'[key].batch \in BatchIds /\ batches'[checkouts'[key].batch].at = key.at
               /\ batches'[checkouts'[key].batch].cart = key.cart
               /\ checkouts'[key].status = "PAID" => batches'[checkouts'[key].batch].delivery
    <3>1. CASE Begun(key) /\ checkouts'[key] = checkouts[key]
      BY <3>1 DEF DialogueInv, CheckoutInv, CheckoutsSound
    <3>2. CASE key = k /\ checkouts'[key] = row
      BY <1>1, <1>2, <3>2
    <3> QED BY <1>11, <2>1, <3>1, <3>2
  <2>2. ASSUME NEW key \in CheckoutKeys, NEW other \in CheckoutKeys, Begun(key)', Begun(other)',
               checkouts'[key].batch = checkouts'[other].batch
        PROVE  key = other
    BY <1>2, <1>11, <2>2 DEF DialogueInv, CheckoutInv, CheckoutsSound, k
  <2> QED BY <2>1, <2>2 DEF CheckoutsSound
<1>14. BatchSound'
  <2> SUFFICES ASSUME chat'.batch # Nothing PROVE BatchSound'
    BY DEF BatchSound
  <2>1. chat'.batch = b /\ chat'.state \in Agreed
    BY <1>5 DEF Agreed
  <2>2. \A key \in CheckoutKeys : Begun(key)' /\ checkouts'[key].batch = b => key = k
    BY <1>11 DEF k
  <2> QED BY <1>5, <1>6, <1>12, <2>1, <2>2 DEF BatchSound
<1>15. KeySound'
  BY <1>1, <1>2, <1>5, <1>6, <1>7, <1>12 DEF KeySound, Begun, In
<1>16. PaymentsSound'
  <2>1. \A key \in CheckoutKeys : Begun(key) => Begun(key)'
    BY <1>2, <1>7 DEF Begun
  <2> QED BY <2>1 DEF DialogueInv, CheckoutInv, PaymentsSound
<1> QED BY <1>8, <1>9, <1>10, <1>13, <1>14, <1>15, <1>16 DEF DialogueInv, SessionInv, CheckoutInv

LEMMA CheckoutStep == ASSUME DialogueInv, StartDeliveryCheckout PROVE DialogueInv'
<1>1. /\ chat \in Sessions /\ In("DELIVERY_READY") /\ UNCHANGED <<book, payments, confirmed, story>>
      /\ batches \in [BatchIds -> Batches] /\ chat.draft \in Drafts
  BY DEF StartDeliveryCheckout, DialogueInv, DialogueTypeOK, Sessions
<1>2. KeyOf(chat) \in CheckoutKeys
  <2>1. chat.selected \in Ids
    BY <1>1 DEF DialogueInv, SessionInv, Refers, Agreed, In, Sessions
  <2>2. chat.draft.at \in Places /\ chat.cart \in Carts
    BY <1>1 DEF StartDeliveryCheckout, Sessions, Drafts
  <2> QED BY <1>1, <2>1, <2>2, KeyParts
<1>3. CASE chat.batch # Nothing /\ AskCheckout(chat.batch) /\ UNCHANGED batches
  <2>1. chat.batch \in BatchIds
    BY <1>1, <1>3 DEF Sessions
  <2>2. batches[chat.batch].at = chat.draft.at /\ batches[chat.batch].cart = chat.cart
    BY <1>3 DEF DialogueInv, CheckoutInv, BatchSound
  <2>3. \A key \in CheckoutKeys : Begun(key) =>
          /\ batches'[checkouts[key].batch].at = key.at /\ batches'[checkouts[key].batch].cart = key.cart
          /\ checkouts[key].batch = chat.batch => key = KeyOf(chat)
    BY <1>3 DEF DialogueInv, CheckoutInv, BatchSound, CheckoutsSound
  <2> QED BY <1>1, <1>2, <1>3, <2>1, <2>2, <2>3, AskSound
<1>4. CASE /\ chat.batch = Nothing /\ FreeBatches # {} /\ BatchCreated(chat)
           /\ AskCheckout(NewBatch) \/ (Fault /\ UNCHANGED <<chat, checkouts>>)
  <2> DEFINE b == NewBatch
             row == [at |-> chat.draft.at, cart |-> chat.cart, vague |-> chat.draft.vague, delivery |-> FALSE]
  <2>1. b \in BatchIds /\ batches[b] = NoBatch
    BY <1>4, NewBatchFree
  <2>2. row \in Batches /\ row.at = chat.draft.at /\ row.cart = chat.cart
    BY <1>1 DEF Batches, Drafts, Sessions
  <2>3. batches' = [batches EXCEPT ![b] = row]
    BY <1>4 DEF BatchCreated
  <2> HIDE DEF row, b
  <2>4. batches' \in [BatchIds -> Batches] /\ \A other \in BatchIds : batches'[other] = IF other = b THEN row ELSE batches[other]
    BY <1>1, <2>1, <2>2, <2>3
  <2>5. ~batches[b].delivery /\ batches[b].at \notin Places
    BY <2>1, DialogueAssumption DEF NoBatch
  <2>6. \A other \in BatchIds : batches[other].delivery => batches'[other].delivery
    <3>1. ASSUME NEW other \in BatchIds, batches[other].delivery PROVE batches'[other].delivery
      <4>1. other # b
        BY <2>5, <3>1
      <4> QED BY <2>4, <3>1, <4>1
    <3> QED BY <3>1
  <2>7. \A key \in CheckoutKeys : key.at \in Places
    BY DEF CheckoutKeys
  <2>8. \A key \in CheckoutKeys : Begun(key) =>
          /\ batches'[checkouts[key].batch].at = key.at /\ batches'[checkouts[key].batch].cart = key.cart
          /\ checkouts[key].batch = b => key = KeyOf(chat)
    BY <2>4, <2>5, <2>7 DEF DialogueInv, CheckoutInv, CheckoutsSound
  <2>9. AskCheckout(b) \/ UNCHANGED <<chat, checkouts>>
    BY <1>4 DEF b
  <2>10. batches'[b].at = chat.draft.at /\ batches'[b].cart = chat.cart
    BY <2>1, <2>2, <2>4
  <2> QED BY <1>1, <1>2, <1>4, <2>1, <2>4, <2>6, <2>8, <2>9, <2>10, AskSound
<1> QED BY <1>3, <1>4 DEF StartDeliveryCheckout

LEMMA DialogueStep == DialogueInv /\ [DialogueNext]_dialogueVars => DialogueInv'
<1> SUFFICES ASSUME DialogueInv, [DialogueNext]_dialogueVars PROVE DialogueInv'
  OBVIOUS
<1>1. CASE Conversation
  BY <1>1, StartStep, SelectionStep, KeptStep, DeleteStep, PostalStep, FieldStep, LabelStep, RefusedStep, ConfirmedStep,
     ConsentStep, CheckoutStep, NotReadyStep, ReviewStep, CancelStep, CartStep, ExpiryStep DEF Conversation
<1>2. CASE StaffEdits \/ Lapse
  BY <1>2, StaffStep, LapseStep
<1>3. CASE \E p \in Payments : Pay(p) \/ ProjectBatch(p) \/ ConfirmPaid(p) \/ ConfirmDeliveryPayment(p)
  BY <1>3, PayStep, ProjectStep, ConfirmPaidStep, ConfirmDialogueStep
<1>4. CASE UNCHANGED dialogueVars
  <2>1. UNCHANGED <<chat, book, batches, checkouts, payments, confirmed, story>>
    BY <1>4 DEF dialogueVars, serverVars, historyVars
  <2>2. CheckoutInv'
    BY <2>1 DEF DialogueInv, CheckoutInv, CheckoutsSound, BatchSound, KeySound, PaymentsSound, Begun, KeyOf, In
  <2>3. /\ batches' \in [BatchIds -> Batches] /\ checkouts' \in [CheckoutKeys -> CheckoutRows]
        /\ payments' \in [Payments -> PaymentRows]
    BY <2>1 DEF DialogueInv, DialogueTypeOK
  <2> QED BY <2>1, <2>2, <2>3, ServerStep
<1> QED BY <1>1, <1>2, <1>3, <1>4 DEF DialogueNext

\* DeliveryDialogue!GoesWhereConfirmed: what is paid is delivered where the
\* customer said, for the cart that was charged, once.
THEOREM GoesWhereConfirmedHolds == DialogueSpec => []GoesWhereConfirmed
<1>1. DialogueInv => PaidGoesWhereCharged
  <2>1. DialogueInv => DOMAIN checkouts = CheckoutKeys
    BY DEF DialogueInv, DialogueTypeOK
  <2> QED BY <2>1 DEF DialogueInv, CheckoutInv, CheckoutsSound, Begun, PaidGoesWhereCharged, Paid
<1>2. DialogueInv => ChosenIsCharged
  <2> SUFFICES ASSUME DialogueInv, In("DELIVERY_CHECKOUT_REVIEW"), chat.key # NoCheckoutKey,
                      story \cap {"renewed", "edited", "staff"} = {}
               PROVE  confirmed = chat.key.at /\ book[chat.key.address].text = chat.key.at
    BY DEF ChosenIsCharged
  <2>1. /\ chat \in Sessions /\ chat.key.address = chat.selected /\ chat.key.at = chat.draft.at
        /\ KeyOf(chat) \in CheckoutKeys /\ "staff" \notin story
    BY DEF DialogueInv, DialogueTypeOK, CheckoutInv, KeySound, BatchSound, KeyOf
  <2>2. chat.draft.at \in Places /\ NoPlace \notin Places
    BY <2>1, KeyParts, DialogueAssumption
  <2>3. chat.draft.at = chat.draft.text /\ confirmed = chat.draft.text /\ book[chat.selected].text = chat.draft.text
    BY <2>1, <2>2 DEF DialogueInv, SessionInv, Refers, DraftSound, DraftShown, In, Agreed
  <2> QED BY <2>1, <2>3
<1> QED BY <1>1, <1>2, DialogueInitially, DialogueStep, PTL DEF DialogueSpec, GoesWhereConfirmed

---------------------------------------------------------------------------
USE CycleAssumption, ClockAssumption, NoAttemptAssumption, ReportsAssumption

---------------------------------------------------------------------------
(* ExternalFulfillment: type correctness *)

\* The attempts stay well-typed when a cycle is scheduled.
LEMMA ScheduleType ==
  ASSUME TypeOK, NEW c
  PROVE  Schedule(c) \in [Attempts -> Attempt]
<1>1. ASSUME NEW a \in Attempts
      PROVE  [status |-> "SCHEDULED", at |-> now + a[2] - 1] \in Attempt
  <2>1. now \in Nat /\ a[2] \in Nat /\ a[2] >= 1
    BY DEF TypeOK, Attempts
  <2>2. now + a[2] - 1 \in Nat
    BY <2>1
  <2> QED BY <2>2 DEF Attempt
<1> QED BY <1>1 DEF Schedule, TypeOK

\* The steps of one maintenance run keep every variable well-typed.
LEMMA WorkerType ==
  ASSUME TypeOK, NEW w \in Workers, WorkerStep(w) \/ WorkerDies(w)
  PROVE  TypeOK'
<1>0. Idle \in Worker /\ workers[w] \in Worker
  BY DEF Idle, Waiting, Worker, External, ExternalStatus, TypeOK
<1>a. ext \in External /\ Attempts \subseteq Attempts \cup {NoAttempt}
  BY DEF TypeOK
<1>b. ASSUME NEW a, NEW s \in {"REQUESTING", "SUCCEEDED", "FAILED", "SKIPPED"}
      PROVE  [attempts EXCEPT ![a].status = s] \in [Attempts -> Attempt]
  BY DEF TypeOK, Attempt
<1>1. CASE RunBegin(w)
  <2>1. [Idle EXCEPT !.pc = "loop", !.at = now, !.todo = Due] \in Worker
    BY <1>0 DEF Due, TypeOK, Worker
  <2> QED BY <1>1, <2>1 DEF RunBegin, TypeOK
<1>2. CASE RunEnd(w)
  BY <1>0, <1>2 DEF RunEnd, TypeOK
<1>3. ASSUME NEW a \in Attempts, ClaimSkip(w, a) PROVE TypeOK'
  <2>1. [workers[w] EXCEPT !.todo = @ \ {a}] \in Worker
    BY <1>0 DEF Worker
  <2>2. workers' \in [Workers -> Worker]
    BY <1>3, <2>1 DEF ClaimSkip, TypeOK
  <2>3. attempts' \in [Attempts -> Attempt]
    <3>1. CASE UNCHANGED attempts
      BY <3>1 DEF TypeOK
    <3>2. CASE attempts' = [attempts EXCEPT ![a].status = "SKIPPED"]
      BY <1>b, <3>2
    <3> QED BY <1>3, <3>1, <3>2 DEF ClaimSkip
  <2> QED BY <1>3, <2>2, <2>3 DEF ClaimSkip, TypeOK
<1>4. ASSUME NEW a \in Attempts, ClaimRead(w, a) PROVE TypeOK'
  <2>1. [workers[w] EXCEPT !.pc = "claim", !.attempt = a, !.todo = @ \ {a}, !.seen = ext] \in Worker
    BY <1>0, <1>a DEF Worker
  <2>2. workers' = [workers EXCEPT ![w] = [workers[w] EXCEPT
                      !.pc = "claim", !.attempt = a, !.todo = @ \ {a}, !.seen = ext]]
    BY <1>4 DEF ClaimRead, TypeOK, Worker
  <2> QED BY <1>4, <2>1, <2>2 DEF ClaimRead, TypeOK
<1>5. CASE ClaimWrite(w)
  <2>1. [workers[w] EXCEPT !.pc = "call"] \in Worker /\ workers[w].seen \in External
    BY <1>0 DEF Worker
  <2>2. ext' \in External
    <3>1. [workers[w].seen EXCEPT !.status = "REQUESTING"] \in External
      BY <2>1 DEF External, ExternalStatus
    <3> QED BY <1>5, <3>1 DEF ClaimWrite
  <2>3. attempts' \in [Attempts -> Attempt]
    BY <1>5, <1>b DEF ClaimWrite
  <2>4. workers' \in [Workers -> Worker]
    BY <1>5, <2>1 DEF ClaimWrite, TypeOK
  <2> QED BY <1>5, <2>2, <2>3, <2>4 DEF ClaimWrite, TypeOK
<1>6. CASE ClaimRejected(w)
  BY <1>0, <1>6 DEF ClaimRejected, TypeOK
<1>7. CASE ProviderCall(w)
  <2>1. ASSUME NEW p \in {"succeed", "fail"} PROVE [workers[w] EXCEPT !.pc = p, !.seen = ext] \in Worker
    BY <1>0, <1>a DEF Worker
  <2>2. workers' \in [Workers -> Worker]
    BY <1>7, <2>1 DEF ProviderCall, TypeOK
  <2>3. courier' \in [Attempts -> SUBSET ({"REQUESTING"} \cup Reports)]
    <3>1. ASSUME NEW a PROVE [courier EXCEPT ![a] = {"REQUESTING"}]
                                \in [Attempts -> SUBSET ({"REQUESTING"} \cup Reports)]
      BY DEF TypeOK
    <3>2. \/ UNCHANGED courier
          \/ courier' = [courier EXCEPT ![workers[w].attempt] = {"REQUESTING"}]
      BY <1>7 DEF ProviderCall
    <3> QED BY <3>1, <3>2 DEF TypeOK
  <2>4. calls' \in [Attempts -> Nat]
    <3>1. ASSUME NEW a \in Attempts PROVE [calls EXCEPT ![a] = @ + 1] \in [Attempts -> Nat]
      BY DEF TypeOK
    <3> QED BY <1>7, <3>1 DEF ProviderCall, TypeOK
  <2> QED BY <1>7, <2>2, <2>3, <2>4 DEF ProviderCall, TypeOK
<1>8. CASE AttemptSucceeds(w) \/ AttemptFails(w)
  <2>1. [workers[w] EXCEPT !.pc = "loop", !.attempt = NoAttempt] \in Worker
    BY <1>0 DEF Worker
  <2>2. workers' \in [Workers -> Worker]
    BY <1>8, <2>1 DEF AttemptSucceeds, AttemptFails, Finished, TypeOK
  <2>3. attempts' \in [Attempts -> Attempt]
    <3>1. CASE AttemptSucceeds(w)
      BY <1>b, <3>1 DEF AttemptSucceeds
    <3>2. CASE AttemptFails(w)
      BY <1>b, <3>2 DEF AttemptFails
    <3> QED BY <1>8, <3>1, <3>2
  <2>4. ext' \in External
    <3>1. ASSUME NEW s \in ExternalStatus, NEW a \in Attempts \cup {NoAttempt}
          PROVE  [ext EXCEPT !.status = s] \in External /\ [ext EXCEPT !.status = s, !.courier = a] \in External
      BY <1>a DEF External
    <3>2. workers[w].attempt \in Attempts \cup {NoAttempt}
      BY <1>0 DEF Worker
    <3>3. {"COURIER_ASSIGNED", "CYCLE_EXHAUSTED", "ALLOCATION_PENDING"} \subseteq ExternalStatus
      BY DEF ExternalStatus
    <3>4. CASE AttemptSucceeds(w)
      BY <3>1, <3>2, <3>3, <3>4 DEF AttemptSucceeds
    <3>5. CASE AttemptFails(w)
      BY <3>1, <3>2, <3>3, <3>5 DEF AttemptFails
    <3> QED BY <1>8, <3>4, <3>5
  <2> QED BY <1>8, <2>2, <2>3, <2>4 DEF AttemptSucceeds, AttemptFails, TypeOK
<1>9. CASE WorkerDies(w)
  BY <1>0, <1>9 DEF WorkerDies, TypeOK
<1> QED
  BY <1>1, <1>2, <1>3, <1>4, <1>5, <1>6, <1>7, <1>8, <1>9 DEF WorkerStep

\* The other steps: the delivery, cycles, the operator, conversions, the clock.
LEMMA OtherType ==
  ASSUME TypeOK, [Next]_vars, ~\E w \in Workers : WorkerStep(w) \/ WorkerDies(w)
  PROVE  TypeOK'
<1>1. ASSUME NEW from, NEW to \in {"ACCEPTED", "PREPARING", "READY_FOR_DISPATCH", "CANCELED"},
             DeliveryMoves(from, to)
      PROVE  TypeOK'
  BY <1>1 DEF DeliveryMoves, TypeOK
<1>2. CASE StartCycle \/ RestartCycle
  <2>1. attempts' \in [Attempts -> Attempt]
    BY <1>2, ScheduleType DEF StartCycle, RestartCycle
  <2>2. ASSUME NEW c \in 0 .. MaxCycle
        PROVE  [ext EXCEPT !.cycle = c, !.status = "ALLOCATION_PENDING", !.startedAt = now] \in External
    BY DEF TypeOK, External, ExternalStatus
  <2>3. CASE StartCycle
    <3>1. 1 \in 0 .. MaxCycle
      OBVIOUS
    <3> QED BY <2>1, <2>2, <2>3, <3>1 DEF StartCycle, TypeOK
  <2>4. CASE RestartCycle
    <3>1. ext.cycle \in 0 .. MaxCycle
      BY DEF TypeOK, External
    <3>2. ext.cycle + 1 \in 0 .. MaxCycle
      BY <2>4, <3>1 DEF RestartCycle
    <3>3. ext' = [ext EXCEPT !.cycle = ext.cycle + 1, !.status = "ALLOCATION_PENDING", !.startedAt = now]
      BY <2>4 DEF RestartCycle
    <3> QED BY <2>1, <2>2, <2>4, <3>2, <3>3 DEF RestartCycle, TypeOK
  <2> QED BY <1>2, <2>3, <2>4
<1>3. ASSUME NEW a \in Attempts, NEW s \in {"REQUESTING"} \cup Reports, CourierMoves(a, s)
      PROVE  TypeOK'
  <2>1. courier' \in [Attempts -> SUBSET ({"REQUESTING"} \cup Reports)]
    BY <1>3 DEF CourierMoves, TypeOK
  <2> QED BY <1>3, <2>1 DEF CourierMoves, TypeOK
<1>4. ASSUME NEW a \in Attempts, NEW s \in {"REQUESTING"} \cup Reports, ApplyPayload(a, s)
      PROVE  TypeOK'
  <2>1. ext' \in External
    BY <1>4 DEF ApplyPayload, TypeOK, External, ExternalStatus
  <2> QED BY <1>4, <2>1 DEF ApplyPayload, TypeOK
<1>5. ASSUME NEW m \in Admins, ConvertHold(m) PROVE TypeOK'
  BY <1>5 DEF ConvertHold, TypeOK, Admin
<1>6. ASSUME NEW m \in Admins, Convert(m) PROVE TypeOK'
  <2>1. ext' \in External
    BY <1>6 DEF Convert, TypeOK, External, ExternalStatus
  <2> QED BY <1>6, <2>1 DEF Convert, TypeOK, Admin
<1>7. ASSUME NEW m \in Admins, ConvertRejected(m) \/ ConvertConfirm(m) \/ ConvertUndo(m) \/ ConvertDies(m)
      PROVE  TypeOK'
  BY <1>7 DEF ConvertRejected, ConvertConfirm, ConvertUndo, ConvertDies, TypeOK, Admin
<1>8. CASE Tick
  BY <1>8 DEF Tick, TypeOK
<1>9. CASE UNCHANGED vars
  BY <1>9 DEF vars, TypeOK
<1> QED
  BY <1>1, <1>2, <1>3, <1>4, <1>5, <1>6, <1>7, <1>8, <1>9 DEF Next, AdminStep

\* Type correctness is inductive.
LEMMA TypeStep ==
  ASSUME TypeOK, [Next]_vars
  PROVE  TypeOK'
BY WorkerType, OtherType

\* The type invariant of the delivery, its fulfillments, attempts and workers.
THEOREM TypeCorrect == Spec => []TypeOK
<1>1. Init => TypeOK
  BY DEF Init, TypeOK, Waiting, Idle, External, ExternalStatus, Attempt, Worker, Admin
<1>2. TypeOK /\ [Next]_vars => TypeOK'
  BY TypeStep
<1> QED BY <1>1, <1>2, PTL DEF Spec

---------------------------------------------------------------------------
(* who executes an attempt *)

Executing == {"claim", "call", "succeed", "fail"}

\* What a worker knows of the attempt it executes.
ExecutorKnows ==
  \A w \in Workers : LET a == workers[w].attempt IN
    /\ workers[w].pc \in Executing => a \in Attempts
    /\ workers[w].pc = "claim" => attempts[a].status = "SCHEDULED"
    /\ workers[w].pc = "call" => attempts[a].status = "REQUESTING" /\ calls[a] = 0
    /\ workers[w].pc \in {"succeed", "fail"} => attempts[a].status \notin {"NONE", "SCHEDULED"}

\* No two workers execute the same attempt.
OneExecutor ==
  \A v, w \in Workers :
    /\ workers[v].pc \in Executing /\ workers[w].pc \in Executing
    /\ workers[v].attempt = workers[w].attempt
    => v = w

\* An attempt nobody claimed was not called.
UnclaimedUncalled ==
  \A a \in Attempts : attempts[a].status \in {"NONE", "SCHEDULED"} => calls[a] = 0

ExecutionInv ==
  /\ TypeOK
  /\ ExecutorKnows
  /\ OneExecutor
  /\ UnclaimedUncalled
  /\ AttemptCalledOnce

\* The steps of a worker keep all that is known of executed attempts.
LEMMA WorkerExecution ==
  ASSUME ExecutionInv, NEW w \in Workers, WorkerStep(w) \/ WorkerDies(w)
  PROVE  ExecutionInv'
<1>0. TypeOK /\ TypeOK'
  BY WorkerType DEF ExecutionInv
<1>1. CASE RunBegin(w) \/ RunEnd(w) \/ ClaimRejected(w) \/ WorkerDies(w)
  <2>1. UNCHANGED <<attempts, calls, ext, own>>
    BY <1>1 DEF RunBegin, RunEnd, ClaimRejected, WorkerDies
  <2>2. \A v \in Workers : v # w => workers'[v] = workers[v]
    BY <1>0, <1>1 DEF RunBegin, RunEnd, ClaimRejected, WorkerDies, TypeOK
  <2>3. workers'[w].pc \in {"idle", "loop"}
    <3>1. CASE RunBegin(w)
      BY <1>0, <3>1 DEF RunBegin, TypeOK, Idle
    <3>2. CASE RunEnd(w) \/ ClaimRejected(w) \/ WorkerDies(w)
      BY <1>0, <3>2 DEF RunEnd, ClaimRejected, WorkerDies, TypeOK, Idle
    <3> QED BY <1>1, <3>1, <3>2
  <2>4. ExecutorKnows'
    BY <1>0, <2>1, <2>2, <2>3 DEF ExecutionInv, ExecutorKnows, Executing
  <2>5. OneExecutor'
    BY <2>2, <2>3 DEF ExecutionInv, OneExecutor, Executing
  <2>6. UnclaimedUncalled' /\ AttemptCalledOnce'
    BY <2>1 DEF ExecutionInv, UnclaimedUncalled, AttemptCalledOnce
  <2> QED BY <1>0, <2>4, <2>5, <2>6 DEF ExecutionInv
<1>2. ASSUME NEW a \in Attempts, ClaimSkip(w, a) PROVE ExecutionInv'
  <2>1. UNCHANGED <<calls, ext, own>> /\ workers[w].pc = "loop" /\ ~Claimed(a)
    BY <1>2 DEF ClaimSkip, NextOf
  <2>2. \A v \in Workers : workers'[v].pc = workers[v].pc /\ workers'[v].attempt = workers[v].attempt
    BY <1>0, <1>2 DEF ClaimSkip, TypeOK, Worker
  <2>3. \A b \in Attempts : attempts'[b].status # attempts[b].status
          => /\ b = a /\ attempts[b].status = "SCHEDULED" /\ attempts'[b].status = "SKIPPED"
    <3>1. CASE UNCHANGED attempts
      BY <3>1
    <3>2. CASE attempts[a].status = "SCHEDULED" /\ attempts' = [attempts EXCEPT ![a].status = "SKIPPED"]
      BY <1>0, <3>2 DEF TypeOK, Attempt
    <3> QED BY <1>2, <3>1, <3>2 DEF ClaimSkip
  <2>4. ExecutorKnows'
    BY <2>1, <2>2, <2>3 DEF ExecutionInv, ExecutorKnows, Executing, Claimed
  <2>5. OneExecutor'
    BY <2>2 DEF ExecutionInv, OneExecutor
  <2>6. UnclaimedUncalled' /\ AttemptCalledOnce'
    BY <2>1, <2>3 DEF ExecutionInv, UnclaimedUncalled, AttemptCalledOnce
  <2> QED BY <1>0, <2>4, <2>5, <2>6 DEF ExecutionInv
<1>3. ASSUME NEW a \in Attempts, ClaimRead(w, a) PROVE ExecutionInv'
  <2>1. UNCHANGED <<attempts, calls, ext, own>> /\ attempts[a].status = "SCHEDULED" /\ ~Claimed(a)
    BY <1>3 DEF ClaimRead
  <2>2. \A v \in Workers : v # w => workers'[v] = workers[v]
    BY <1>0, <1>3 DEF ClaimRead, TypeOK
  <2>3. workers'[w].pc = "claim" /\ workers'[w].attempt = a
    BY <1>0, <1>3 DEF ClaimRead, TypeOK, Worker
  <2>4. ExecutorKnows'
    BY <2>1, <2>2, <2>3 DEF ExecutionInv, ExecutorKnows, Executing
  <2>5. \A v \in Workers : workers[v].pc \in Executing => workers[v].attempt # a
    BY <2>1 DEF ExecutionInv, ExecutorKnows, Executing, Claimed
  <2>6. OneExecutor'
    BY <2>2, <2>3, <2>5 DEF ExecutionInv, OneExecutor
  <2>7. UnclaimedUncalled' /\ AttemptCalledOnce'
    BY <2>1 DEF ExecutionInv, UnclaimedUncalled, AttemptCalledOnce
  <2> QED BY <1>0, <2>4, <2>6, <2>7 DEF ExecutionInv
<1>4. CASE ClaimWrite(w)
  <2>1. workers[w].pc = "claim" /\ UNCHANGED <<calls, own>> /\ workers[w].attempt \in Attempts
    BY <1>4 DEF ClaimWrite, ExecutionInv, ExecutorKnows, Executing
  <2>2. \A v \in Workers : workers'[v].attempt = workers[v].attempt /\ (v # w => workers'[v] = workers[v])
    BY <1>0, <1>4 DEF ClaimWrite, TypeOK, Worker
  <2>3. workers'[w].pc = "call"
    BY <1>0, <1>4 DEF ClaimWrite, TypeOK, Worker
  <2>4. \A b \in Attempts : attempts'[b].status =
          IF b = workers[w].attempt THEN "REQUESTING" ELSE attempts[b].status
    BY <1>0, <1>4 DEF ClaimWrite, TypeOK, Attempt
  <2>5. calls[workers[w].attempt] = 0
    BY <2>1 DEF ExecutionInv, ExecutorKnows, UnclaimedUncalled
  <2>6. OneExecutor'
    BY <2>1, <2>2, <2>3 DEF ExecutionInv, OneExecutor, Executing
  <2>7. \A v \in Workers : v # w /\ workers[v].pc \in Executing => workers[v].attempt # workers[w].attempt
    BY <2>1 DEF ExecutionInv, OneExecutor, Executing
  <2>8. ExecutorKnows'
    BY <2>1, <2>2, <2>3, <2>4, <2>5, <2>7 DEF ExecutionInv, ExecutorKnows, Executing
  <2>9. UnclaimedUncalled'
    BY <2>1, <2>4 DEF ExecutionInv, UnclaimedUncalled
  <2>10. AttemptCalledOnce'
    <3>1. ext'.current = workers[w].seen.current
      BY <1>0, <1>4 DEF ClaimWrite, TypeOK, Worker, External
    <3> QED BY <1>4, <2>1, <3>1 DEF ClaimWrite, CurrentTaken, ExecutionInv, AttemptCalledOnce
  <2> QED BY <1>0, <2>6, <2>8, <2>9, <2>10 DEF ExecutionInv
<1>5. CASE ProviderCall(w)
  <2>1. workers[w].pc = "call" /\ UNCHANGED <<attempts, ext, own>> /\ workers[w].attempt \in Attempts
    BY <1>5 DEF ProviderCall, ExecutionInv, ExecutorKnows, Executing
  <2>2. \A v \in Workers : workers'[v].attempt = workers[v].attempt /\ (v # w => workers'[v] = workers[v])
    BY <1>0, <1>5 DEF ProviderCall, TypeOK, Worker
  <2>3. workers'[w].pc \in {"succeed", "fail"}
    BY <1>0, <1>5 DEF ProviderCall, TypeOK, Worker
  <2>4. \A b \in Attempts : calls'[b] = IF b = workers[w].attempt THEN calls[b] + 1 ELSE calls[b]
    BY <1>0, <1>5 DEF ProviderCall, TypeOK
  <2>5. /\ attempts[workers[w].attempt].status = "REQUESTING"
        /\ calls[workers[w].attempt] = 0
    BY <2>1 DEF ExecutionInv, ExecutorKnows
  <2>6. OneExecutor'
    BY <2>1, <2>2, <2>3 DEF ExecutionInv, OneExecutor, Executing
  <2>7. \A v \in Workers : v # w /\ workers[v].pc \in Executing => workers[v].attempt # workers[w].attempt
    BY <2>1 DEF ExecutionInv, OneExecutor, Executing
  <2>8. ExecutorKnows'
    BY <2>1, <2>2, <2>3, <2>4, <2>5, <2>7 DEF ExecutionInv, ExecutorKnows, Executing
  <2>9. UnclaimedUncalled'
    BY <2>1, <2>4, <2>5 DEF ExecutionInv, UnclaimedUncalled
  <2>10. AttemptCalledOnce'
    BY <1>0, <2>1, <2>4, <2>5 DEF ExecutionInv, AttemptCalledOnce, TypeOK
  <2> QED BY <1>0, <2>6, <2>8, <2>9, <2>10 DEF ExecutionInv
<1>6. CASE AttemptSucceeds(w) \/ AttemptFails(w)
  <2>1. /\ workers[w].pc \in {"succeed", "fail"} /\ UNCHANGED <<calls, own>>
        /\ workers[w].attempt \in Attempts
    BY <1>6 DEF AttemptSucceeds, AttemptFails, ExecutionInv, ExecutorKnows, Executing
  <2>2. \A v \in Workers : v # w => workers'[v] = workers[v]
    BY <1>0, <1>6 DEF AttemptSucceeds, AttemptFails, Finished, TypeOK
  <2>3. workers'[w].pc = "loop"
    BY <1>0, <1>6 DEF AttemptSucceeds, AttemptFails, Finished, TypeOK, Worker
  <2>4. \A b \in Attempts :
          /\ b # workers[w].attempt => attempts'[b].status = attempts[b].status
          /\ b = workers[w].attempt => attempts'[b].status \in {"SUCCEEDED", "FAILED"}
    BY <1>0, <1>6 DEF AttemptSucceeds, AttemptFails, TypeOK, Attempt
  <2>5. OneExecutor'
    BY <2>2, <2>3 DEF ExecutionInv, OneExecutor, Executing
  <2>6. \A v \in Workers : v # w /\ workers[v].pc \in Executing => workers[v].attempt # workers[w].attempt
    BY <2>1 DEF ExecutionInv, OneExecutor, Executing
  <2>7. ExecutorKnows'
    BY <2>1, <2>2, <2>3, <2>4, <2>6 DEF ExecutionInv, ExecutorKnows, Executing
  <2>8. UnclaimedUncalled'
    BY <2>1, <2>4 DEF ExecutionInv, UnclaimedUncalled
  <2>9. ext'.current = ext.current
    BY <1>0, <1>6 DEF AttemptSucceeds, AttemptFails, TypeOK, External
  <2>10. AttemptCalledOnce'
    BY <2>1, <2>9 DEF ExecutionInv, AttemptCalledOnce
  <2> QED BY <1>0, <2>5, <2>7, <2>8, <2>10 DEF ExecutionInv
<1> QED
  BY <1>1, <1>2, <1>3, <1>4, <1>5, <1>6 DEF WorkerStep

\* The other steps touch attempts only to schedule those of a fresh cycle, and
\* the fulfillment's `current' only when the own one replaces it.
LEMMA OtherExecution ==
  ASSUME ExecutionInv, [Next]_vars, ~\E w \in Workers : WorkerStep(w) \/ WorkerDies(w)
  PROVE  ExecutionInv'
<1>0. TypeOK /\ TypeOK'
  BY OtherType DEF ExecutionInv
<1>1. ASSUME UNCHANGED <<attempts, workers, calls>>, ~(ext'.current /\ own' # "NONE")
      PROVE  ExecutionInv'
  <2>1. ExecutorKnows' /\ OneExecutor' /\ UnclaimedUncalled'
    BY <1>1 DEF ExecutionInv, ExecutorKnows, OneExecutor, UnclaimedUncalled
  <2>2. AttemptCalledOnce'
    BY <1>1 DEF ExecutionInv, AttemptCalledOnce
  <2> QED BY <1>0, <2>1, <2>2 DEF ExecutionInv
<1>2. ASSUME UNCHANGED <<workers, calls, own>>, ext'.current = ext.current,
             NEW c \in Nat, Fresh(c), attempts' = Schedule(c)
      PROVE  ExecutionInv'
  <2>1. \A a \in Attempts :
          \/ attempts'[a] = attempts[a]
          \/ attempts[a].status = "NONE" /\ attempts'[a].status = "SCHEDULED"
    <3>1. ASSUME NEW a \in Attempts, a[1] = c PROVE attempts[a].status = "NONE"
      <4>1. a[2] \in 1 .. AttemptsPerCycle /\ a = <<c, a[2]>>
        BY <3>1 DEF Attempts
      <4> QED BY <1>2, <4>1 DEF Fresh
    <3> QED BY <1>2, <3>1 DEF Schedule
  <2>2. ExecutorKnows'
    BY <1>2, <2>1 DEF ExecutionInv, ExecutorKnows, UnclaimedUncalled, Executing
  <2>3. OneExecutor' /\ UnclaimedUncalled' /\ AttemptCalledOnce'
    BY <1>2, <2>1 DEF ExecutionInv, OneExecutor, UnclaimedUncalled, AttemptCalledOnce
  <2> QED BY <1>0, <2>2, <2>3 DEF ExecutionInv
<1>3. ~(ext.current /\ own # "NONE")
  BY DEF ExecutionInv, AttemptCalledOnce
<1>4. ASSUME NEW from, NEW to, DeliveryMoves(from, to) PROVE ExecutionInv'
  BY <1>1, <1>3, <1>4 DEF DeliveryMoves
<1>5. CASE StartCycle
  <2>1. ext'.current = ext.current
    BY <1>0, <1>5 DEF StartCycle, TypeOK, External
  <2> QED BY <1>2, <1>5, <2>1 DEF StartCycle
<1>6. CASE RestartCycle
  <2>1. ext'.current = ext.current
    BY <1>0, <1>6 DEF RestartCycle, TypeOK, External
  <2>2. ext.cycle + 1 \in Nat
    BY <1>0 DEF TypeOK, External
  <2> QED BY <1>2, <1>6, <2>1, <2>2 DEF RestartCycle
<1>7. ASSUME NEW a \in Attempts, NEW s, CourierMoves(a, s) \/ ApplyPayload(a, s)
      PROVE  ExecutionInv'
  <2>1. ext'.current = ext.current /\ UNCHANGED <<attempts, workers, calls, own>>
    BY <1>0, <1>7 DEF CourierMoves, ApplyPayload, TypeOK, External
  <2> QED BY <1>1, <1>3, <2>1
<1>8. ASSUME NEW m \in Admins, Convert(m) PROVE ExecutionInv'
  <2>1. ext'.current = FALSE
    BY <1>0, <1>8 DEF Convert, TypeOK, External
  <2> QED BY <1>1, <1>8, <2>1 DEF Convert
<1>9. ASSUME NEW m \in Admins,
             \/ ConvertHold(m) \/ ConvertRejected(m) \/ ConvertConfirm(m)
             \/ ConvertUndo(m) \/ ConvertDies(m)
      PROVE  ExecutionInv'
  BY <1>1, <1>3, <1>9 DEF ConvertHold, ConvertRejected, ConvertConfirm, ConvertUndo, ConvertDies
<1>10. CASE Tick \/ UNCHANGED vars
  BY <1>1, <1>3, <1>10 DEF Tick, vars
<1> QED
  BY <1>4, <1>5, <1>6, <1>7, <1>8, <1>9, <1>10 DEF Next, AdminStep

\* Whatever workers overlap, die, or write back a fulfillment they read before:
\* the operator is called at most once for an attempt, and the external
\* fulfillment is never current beside the restaurant's own.
THEOREM CalledOnce == Spec => []AttemptCalledOnce
<1>1. Init => ExecutionInv
  <2>1. Init => TypeOK
    BY DEF Init, TypeOK, Waiting, Idle, External, ExternalStatus, Attempt, Worker, Admin
  <2>2. Init => ExecutorKnows /\ OneExecutor
    BY DEF Init, ExecutorKnows, OneExecutor, Executing, Idle
  <2>3. Init => UnclaimedUncalled /\ AttemptCalledOnce
    BY DEF Init, UnclaimedUncalled, AttemptCalledOnce
  <2> QED BY <2>1, <2>2, <2>3 DEF ExecutionInv
<1>2. ExecutionInv /\ [Next]_vars => ExecutionInv'
  BY WorkerExecution, OtherExecution
<1>3. ExecutionInv => AttemptCalledOnce
  BY DEF ExecutionInv
<1> QED BY <1>1, <1>2, <1>3, PTL DEF Spec

---------------------------------------------------------------------------
(* one maintenance run at a time: a cycle that found a courier stops *)

\* An attempt of cycle c found a courier.
Found(c) == \E a \in Attempts : attempts[a].status = "SUCCEEDED" /\ a[1] = c

\* The cycle of the fulfillment needs no courier once it found one; a worker
\* that executes an attempt writes to a cycle that found none.
SearchInv ==
  /\ TypeOK
  /\ Found(ext.cycle) => ext.status \in Settled
  /\ \A w \in Workers :
       /\ workers[w].pc = "claim" => ~Found(workers[w].seen.cycle)
       /\ workers[w].pc \in {"call", "succeed", "fail"} => ~Found(ext.cycle)

\* With one run at a time, every step keeps it.
LEMMA SearchStep ==
  ASSUME \A v, w \in Workers : v = w, SearchInv, [Next]_vars
  PROVE  SearchInv'
<1>0. TypeOK /\ TypeOK'
  BY TypeStep DEF SearchInv
<1>1. ASSUME UNCHANGED <<attempts, workers>>, ext'.cycle = ext.cycle,
             Found(ext.cycle) => ext'.status \in Settled
      PROVE  SearchInv'
  BY <1>0, <1>1 DEF SearchInv, Found
<1>2. ASSUME UNCHANGED workers, NEW c \in Nat, Fresh(c), attempts' = Schedule(c), ext'.cycle = c
      PROVE  SearchInv'
  <2>1. \A a \in Attempts : attempts'[a].status = "SUCCEEDED"
          => attempts[a].status = "SUCCEEDED" /\ a[1] # c
    BY <1>2 DEF Schedule
  <2> QED BY <1>0, <1>2, <2>1 DEF SearchInv, Found
<1>3. ASSUME NEW from, NEW to, DeliveryMoves(from, to) PROVE SearchInv'
  BY <1>1, <1>3 DEF DeliveryMoves, SearchInv
<1>4. CASE StartCycle
  <2>1. ext'.cycle = 1
    BY <1>0, <1>4 DEF StartCycle, TypeOK, External
  <2> QED BY <1>2, <1>4, <2>1 DEF StartCycle
<1>5. CASE RestartCycle
  <2>1. ext'.cycle = ext.cycle + 1 /\ ext.cycle + 1 \in Nat
    BY <1>0, <1>5 DEF RestartCycle, TypeOK, External
  <2> QED BY <1>2, <1>5, <2>1 DEF RestartCycle
<1>6. ASSUME NEW w \in Workers, RunBegin(w) \/ RunEnd(w) \/ ClaimRejected(w) \/ WorkerDies(w)
      PROVE  SearchInv'
  <2>1. UNCHANGED <<attempts, ext>>
    BY <1>6 DEF RunBegin, RunEnd, ClaimRejected, WorkerDies
  <2>2. workers'[w].pc \in {"idle", "loop"}
    <3>1. CASE RunBegin(w)
      BY <1>0, <3>1 DEF RunBegin, TypeOK, Idle
    <3>2. CASE RunEnd(w) \/ ClaimRejected(w) \/ WorkerDies(w)
      BY <1>0, <3>2 DEF RunEnd, ClaimRejected, WorkerDies, TypeOK, Idle
    <3> QED BY <1>6, <3>1, <3>2
  <2>3. \A v \in Workers : v = w
    BY <1>6
  <2> QED BY <1>0, <2>1, <2>2, <2>3 DEF SearchInv, Found
<1>7. ASSUME NEW w \in Workers, NEW a \in Attempts, ClaimSkip(w, a) PROVE SearchInv'
  <2>1. workers'[w].pc = "loop" /\ UNCHANGED ext
    BY <1>0, <1>7 DEF ClaimSkip, NextOf, TypeOK, Worker
  <2>2. \A b \in Attempts : attempts'[b].status = "SUCCEEDED" => attempts[b].status = "SUCCEEDED"
    <3>1. CASE UNCHANGED attempts
      BY <3>1
    <3>2. CASE attempts' = [attempts EXCEPT ![a].status = "SKIPPED"]
      BY <1>0, <3>2 DEF TypeOK, Attempt
    <3> QED BY <1>7, <3>1, <3>2 DEF ClaimSkip
  <2>3. \A v \in Workers : v = w
    BY <1>7
  <2> QED BY <1>0, <2>1, <2>2, <2>3 DEF SearchInv, Found
<1>8. ASSUME NEW w \in Workers, NEW a \in Attempts, ClaimRead(w, a) PROVE SearchInv'
  <2>1. workers'[w].pc = "claim" /\ workers'[w].seen = ext /\ UNCHANGED <<ext, attempts>>
    BY <1>0, <1>8 DEF ClaimRead, TypeOK, Worker
  <2>2. ~Found(ext.cycle)
    BY <1>8 DEF ClaimRead, SearchInv
  <2>3. \A v \in Workers : v = w
    BY <1>8
  <2> QED BY <1>0, <2>1, <2>2, <2>3 DEF SearchInv, Found
<1>9. ASSUME NEW w \in Workers, ClaimWrite(w) PROVE SearchInv'
  <2>1. workers'[w].pc = "call" /\ ~Found(workers[w].seen.cycle)
    BY <1>0, <1>9 DEF ClaimWrite, TypeOK, Worker, SearchInv
  <2>2. ext'.cycle = workers[w].seen.cycle
    BY <1>0, <1>9 DEF ClaimWrite, TypeOK, Worker, External
  <2>3. \A b \in Attempts : attempts'[b].status = "SUCCEEDED" => attempts[b].status = "SUCCEEDED"
    BY <1>0, <1>9 DEF ClaimWrite, TypeOK, Attempt
  <2>4. \A v \in Workers : v = w
    BY <1>9
  <2> QED BY <1>0, <2>1, <2>2, <2>3, <2>4 DEF SearchInv, Found
<1>10. ASSUME NEW w \in Workers, ProviderCall(w) PROVE SearchInv'
  <2>1. ~Found(ext.cycle) /\ UNCHANGED <<ext, attempts>>
    BY <1>10 DEF ProviderCall, SearchInv
  <2>2. workers'[w].pc \in {"succeed", "fail"}
    BY <1>0, <1>10 DEF ProviderCall, TypeOK, Worker
  <2>3. \A v \in Workers : v = w
    BY <1>10
  <2> QED BY <1>0, <2>1, <2>2, <2>3 DEF SearchInv, Found
<1>11. ASSUME NEW w \in Workers, AttemptSucceeds(w) PROVE SearchInv'
  <2>1. ext'.status \in Settled
    BY <1>0, <1>11 DEF AttemptSucceeds, TypeOK, External, Settled
  <2>2. workers'[w].pc = "loop"
    BY <1>0, <1>11 DEF AttemptSucceeds, Finished, TypeOK, Worker
  <2>3. \A v \in Workers : v = w
    BY <1>11
  <2> QED BY <1>0, <2>1, <2>2, <2>3 DEF SearchInv
<1>12. ASSUME NEW w \in Workers, AttemptFails(w) PROVE SearchInv'
  <2>1. ext'.cycle = ext.cycle /\ ~Found(ext.cycle)
    BY <1>0, <1>12 DEF AttemptFails, TypeOK, External, SearchInv
  <2>2. workers'[w].pc = "loop"
    BY <1>0, <1>12 DEF AttemptFails, Finished, TypeOK, Worker
  <2>3. \A b \in Attempts : attempts'[b].status = "SUCCEEDED" => attempts[b].status = "SUCCEEDED"
    BY <1>0, <1>12 DEF AttemptFails, TypeOK, Attempt
  <2>4. \A v \in Workers : v = w
    BY <1>12
  <2> QED BY <1>0, <2>1, <2>2, <2>3, <2>4 DEF SearchInv, Found
<1>13. ASSUME NEW a \in Attempts, NEW s, CourierMoves(a, s) PROVE SearchInv'
  BY <1>1, <1>13 DEF CourierMoves, SearchInv
<1>14. ASSUME NEW a \in Attempts, NEW s \in {"REQUESTING"} \cup Reports, ApplyPayload(a, s)
       PROVE  SearchInv'
  <2>1. ext'.status = s /\ ext'.cycle = ext.cycle /\ UNCHANGED <<attempts, workers>>
    BY <1>0, <1>14 DEF ApplyPayload, TypeOK, External
  <2>2. CASE s \in Reports
    BY <1>1, <2>1, <2>2 DEF Settled
  <2>3. CASE s = "REQUESTING"
    <3>1. Rank(s) = 1 /\ Rank(ext.status) <= 1
      BY <1>0, <1>14, <2>3 DEF ApplyPayload, Rank, TypeOK, External, ExternalStatus
    <3>2. ext.status \notin Settled
      BY <3>1 DEF Rank, Settled
    <3> QED BY <1>1, <2>1, <3>2 DEF SearchInv
  <2> QED BY <2>2, <2>3
<1>15. ASSUME NEW m \in Admins, Convert(m) PROVE SearchInv'
  <2>1. ext'.status = "CANCELED" /\ ext'.cycle = ext.cycle
    BY <1>0, <1>15 DEF Convert, TypeOK, External
  <2> QED BY <1>1, <1>15, <2>1 DEF Convert, Settled
<1>16. ASSUME NEW m \in Admins,
              \/ ConvertHold(m) \/ ConvertRejected(m) \/ ConvertConfirm(m)
              \/ ConvertUndo(m) \/ ConvertDies(m)
       PROVE  SearchInv'
  BY <1>1, <1>16 DEF ConvertHold, ConvertRejected, ConvertConfirm, ConvertUndo, ConvertDies, SearchInv
<1>17. CASE Tick \/ UNCHANGED vars
  BY <1>1, <1>17 DEF Tick, vars, SearchInv
<1> QED
  BY <1>3, <1>4, <1>5, <1>6, <1>7, <1>8, <1>9, <1>10, <1>11, <1>12, <1>13, <1>14, <1>15, <1>16, <1>17
     DEF Next, WorkerStep, AdminStep

\* The workers are those of the constant.
LEMMA WorkersOf ==
  ASSUME TypeOK
  PROVE  OneWorker <=> \A v, w \in Workers : v = w
<1>1. DOMAIN workers = Workers
  BY DEF TypeOK
<1> QED BY <1>1 DEF OneWorker

\* Maintenance without overlapping runs, even when servers die and answers are
\* lost: once an attempt of the running cycle found a courier, no attempt of
\* that cycle calls the operator.
THEOREM SuccessStops == Spec => SuccessStopsCycle
<1> DEFINE Alone == \A v, w \in Workers : v = w
<1>1. Init => TypeOK /\ SearchInv
  <2>1. Init => TypeOK
    BY DEF Init, TypeOK, Waiting, Idle, External, ExternalStatus, Attempt, Worker, Admin
  <2> QED BY <2>1 DEF Init, SearchInv, Found, Idle
<1>2. TypeOK /\ (Alone => SearchInv) /\ [Next]_vars => (TypeOK /\ (Alone => SearchInv))'
  BY SearchStep, TypeStep
<1>3. TypeOK /\ (Alone => SearchInv) /\ [Next]_vars => [OneWorker => NoCallAfterSuccess]_vars
  <2> SUFFICES ASSUME TypeOK, Alone => SearchInv, Next, OneWorker PROVE NoCallAfterSuccess
    BY DEF vars
  <2>0. SearchInv /\ DOMAIN attempts = Attempts
    BY WorkersOf DEF TypeOK
  <2>1. CASE UNCHANGED calls
    BY <2>1 DEF NoCallAfterSuccess
  <2>2. ASSUME NEW w \in Workers, ProviderCall(w) PROVE NoCallAfterSuccess
    BY <2>0, <2>2 DEF ProviderCall, SearchInv, Found, NoCallAfterSuccess
  <2>3. UNCHANGED calls \/ \E w \in Workers : ProviderCall(w)
    BY DEF Next, DeliveryMoves, StartCycle, RestartCycle, WorkerStep, WorkerDies, RunBegin, RunEnd,
           ClaimSkip, ClaimRead, ClaimWrite, ClaimRejected, AttemptSucceeds, AttemptFails,
           CourierMoves, ApplyPayload, ConvertHold, AdminStep, Convert, ConvertRejected,
           ConvertConfirm, ConvertUndo, ConvertDies, Tick
  <2> QED BY <2>1, <2>2, <2>3
<1> HIDE DEF Alone
<1> QED BY <1>1, <1>2, <1>3, PTL DEF Spec, SuccessStopsCycle

===========================================================================
