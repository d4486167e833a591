------------------------------ MODULE Ordering ------------------------------
(***************************************************************************)
(* What a guest orders in the conversation: categories, items, quantities, *)
(* options, the cart and its order (handle_whatsapp_ordering.go,           *)
(* handle_whatsapp_message.go, create_order.go), over a menu that the      *)
(* restaurant edits meanwhile (menu.service.ts).                           *)
(*                                                                         *)
(* One guest, whose messages are handled one by one (module Conversation   *)
(* has what happens when they overlap).  The session keeps ids: of the     *)
(* lists it showed, of what was selected, of the cart's lines.  The menu   *)
(* is read again for every message, so an answer may meet another menu     *)
(* than the one the guest was shown.  prompt is what the last message that *)
(* asked something showed; the guest answers by its numbers, or touches a  *)
(* row or a button of this or of an older message.                         *)
(*                                                                         *)
(* Not modelled: wording, images, the choice between interactive lists and *)
(* numbered texts, errors of the database while the menu is read, notes.   *)
(***************************************************************************)
EXTENDS Integers, FiniteSetsExt, SequencesExt

CONSTANTS
  Categories, Items,
  Menus,          \* what the menu may be
  MostAsked,      \* the largest quantity that is accepted (20 in the code)
  MaxUnits,       \* bound: units of one line
  MaxLines,       \* bound: lines of a cart
  MaxMenuEdits,   \* bound: changes of the menu
  NoItem, NoCategory, NoLine

\* A menu: its active categories in order; of every item that exists its
\* category, price, destination, option groups, and if it is sold now (not
\* switched off, in stock and in its hours).  Nothing checks that the names of
\* groups, or of a group's options, differ.
IsList(s) == s \in Seq(ToSet(s))

ASSUME MenusAssumption ==
  \A m \in Menus :
    /\ m.categories \in Seq(Categories)
    /\ ToSet(m.listing) = DOMAIN m.items /\ DOMAIN m.items \subseteq Items
    /\ \A i \in DOMAIN m.items :
         LET groups == m.items[i].groups
         IN  /\ m.items[i].price \in Int
             /\ IsList(groups)
             /\ \A g \in DOMAIN groups :
                  /\ {groups[g].min, groups[g].max} \subseteq Nat /\ groups[g].min <= groups[g].max
                  /\ groups[g].options # <<>> /\ IsList(groups[g].options)
                  /\ \A o \in ToSet(groups[g].options) : o.delta \in Int
ASSUME NothingAssumption == NoItem \notin Items /\ NoCategory \notin Categories
ASSUME BoundsAssumption == MostAsked \in Nat \ {0} /\ MaxUnits \in Nat /\ MaxLines \in Nat /\ MaxMenuEdits \in Nat

VARIABLES
  menu,
  menuEdits,      \* of the menu, so far
  access,         \* has the guest an open tab
  sess,           \* the session
  prompt,         \* what the guest was asked last
  orders          \* the orders that were created last, by destination

orderingVars == <<menu, menuEdits, access, sess, prompt, orders>>

Dialogue == {"ORDERING", "SELECTING_QTY", "SELECTING_OPTIONS", "CONFIRMING_ORDER",
             "REMOVING_ORDER_ITEM", "ADJUSTING_ORDER_ITEM", "SELECTING_CART_ITEM_QTY"}

\* fresh, of the selection and of a line: no column, for the properties;
\* nobody edited the menu since the item was chosen.
NoSession ==
  [state |-> "MAIN_MENU", step |-> "none", categories |-> <<>>, items |-> <<>>,
   category |-> NoCategory, item |-> NoItem, quantity |-> 0, group |-> 1,
   options |-> {}, fresh |-> FALSE, line |-> NoLine, cart |-> <<>>]

OrderingInit ==
  /\ menu \in Menus /\ menuEdits = 0
  /\ access = TRUE
  /\ sess = NoSession
  /\ prompt = [kind |-> "menu"]
  /\ orders = <<>>

---------------------------------------------------------------------------
(* the menu *)

Exists(i) == i \in DOMAIN menu.items

Available(i) == Exists(i) /\ menu.items[i].sold

\* FindItemsByCategory and FindItemsByTenant, of what is available.
ItemsOf(c) == SelectSeq(menu.listing, LAMBDA i : Available(i) /\ menu.items[i].category = c)
AllItems == SelectSeq(menu.listing, Available)

\* EnsureOptionGroups
GroupsOf(i) == menu.items[i].groups

NamesDiffer(s) == \A n, k \in DOMAIN s : s[n].name = s[k].name => n = k
WellNamed(i) ==
  NamesDiffer(GroupsOf(i)) /\ \A g \in DOMAIN GroupsOf(i) : NamesDiffer(GroupsOf(i)[g].options)

Extras(options) == SumFunction([o \in options |-> o.delta])

---------------------------------------------------------------------------
(* what a message shows *)

CategoryList(categories) == [kind |-> "categories", categories |-> categories]
ItemList(items) == [kind |-> "items", items |-> items]
QuantityOf(i) == [kind |-> "quantity", item |-> i]
OptionsOf(i, group) == [kind |-> "options", item |-> i, group |-> group]

\* resolveOrderingCartDisplayEntries
Entries(cart) ==
  [n \in DOMAIN cart |-> [item |-> cart[n].item, options |-> cart[n].options,
                          units |-> cart[n].units, price |-> cart[n].price]]
Subtotal(lines) == SumFunction([n \in DOMAIN lines |-> lines[n].units * lines[n].price])

CartOf(cart) == [kind |-> "cart", cart |-> Entries(cart), subtotal |-> Subtotal(Entries(cart))]
LinesOf(cart) == [kind |-> "lines", lines |-> Entries(cart)]
\* The numbers of the actions depend on whether there is one unit or more.
ActionsOf(line, units) == [kind |-> "actions", line |-> line, several |-> units > 1]
UnitsOf(line) == [kind |-> "units", line |-> line]

Shows(s, p) == sess' = s /\ prompt' = p
Tells(s, kind) == Shows(s, [kind |-> kind])

---------------------------------------------------------------------------
(* the session *)

\* clearOrderingSelectionContext
Unselected(s) == [NoSession EXCEPT !.state = s.state, !.cart = s.cart]

\* clearOrderingContext
BackToMenu == Tells(NoSession, "menu")

\* A line is known by its item and options: one line has each of them.
Line(l) == [item |-> l.item, options |-> l.options]
Find(cart, line) == {n \in DOMAIN cart : Line(cart[n]) = line}

ShowCart(s) == Shows([s EXCEPT !.state = "CONFIRMING_ORDER", !.line = NoLine], CartOf(s.cart))

\* addItemToOrderingCart: the line that is there keeps its price.
Added(s, price) ==
  LET there == Find(s.cart, [item |-> s.item, options |-> s.options])
  IN  [n \in DOMAIN s.cart |->
         IF n \in there THEN [s.cart[n] EXCEPT !.units = @ + s.quantity, !.fresh = @ /\ s.fresh]
         ELSE s.cart[n]]
      \o IF there # {} THEN <<>>
         ELSE <<[item |-> s.item, options |-> s.options, units |-> s.quantity,
                 price |-> price, fresh |-> s.fresh]>>

WithinBounds(cart) == Len(cart) <= MaxLines /\ \A n \in DOMAIN cart : cart[n].units <= MaxUnits

\* Mutant of AddToCart: the options are left out of the price.
AddToCartBare(s) ==
  LET cart == Added(s, menu.items[s.item].price)
  IN  WithinBounds(cart) /\ ShowCart(Unselected([s EXCEPT !.cart = cart]))

AddToCart(s) ==
  LET cart == Added(s, menu.items[s.item].price + Extras(s.options))
  IN  WithinBounds(cart) /\ ShowCart(Unselected([s EXCEPT !.cart = cart]))

---------------------------------------------------------------------------
(* prompts, and the same again when an answer was not understood *)

ShowAllItems(s) ==
  IF AllItems = <<>> THEN Tells([s EXCEPT !.state = "MAIN_MENU"], "menu")
  ELSE Shows([s EXCEPT !.state = "ORDERING", !.step = "item", !.items = AllItems], ItemList(AllItems))

\* startOrderingFlow; the cart stays.
StartOrdering(s) ==
  LET start == [Unselected(s) EXCEPT !.state = "ORDERING", !.step = "category",
                                     !.categories = menu.categories]
  IN  IF ~access THEN Tells([s EXCEPT !.state = "WELCOME"], "welcome")
      ELSE IF menu.categories = <<>> THEN ShowAllItems(start)
      ELSE Shows(start, CategoryList(menu.categories))

ShowQuantity(s) == Shows([s EXCEPT !.state = "SELECTING_QTY"], QuantityOf(s.item))

\* A group that is gone: the first one again.
AtGroup(s) == [s EXCEPT !.group = IF @ > Len(GroupsOf(s.item)) THEN 1 ELSE @]

ShowGroup(s) ==
  Shows([s EXCEPT !.state = "SELECTING_OPTIONS"], OptionsOf(s.item, GroupsOf(s.item)[s.group]))

ShowLines(s) == Shows([s EXCEPT !.state = "REMOVING_ORDER_ITEM"], LinesOf(s.cart))
ShowActions(s, units) == Shows([s EXCEPT !.state = "ADJUSTING_ORDER_ITEM"], ActionsOf(s.line, units))
ShowUnits(s) == Shows([s EXCEPT !.state = "SELECTING_CART_ITEM_QTY"], UnitsOf(s.line))

\* Mutant of RepeatItems: the items are shown again, the ids are not kept.
ForgetItems(s) ==
  LET items == ItemsOf(s.category)
  IN  IF s.category = NoCategory THEN ShowAllItems(s)
      ELSE IF items = <<>> THEN StartOrdering(s)
      ELSE Shows(s, ItemList(items))

\* repeatOrderingPrompt
RepeatItems(s) ==
  LET items == ItemsOf(s.category)
  IN  IF s.category = NoCategory THEN ShowAllItems(s)
      ELSE IF items = <<>> THEN StartOrdering(s)
      ELSE Shows([s EXCEPT !.items = items], ItemList(items))

RepeatQuantity(s) == IF Exists(s.item) THEN ShowQuantity(s) ELSE StartOrdering(s)

RepeatOptions(s) ==
  IF ~Exists(s.item) THEN StartOrdering(s)
  ELSE IF GroupsOf(s.item) = <<>> THEN RepeatQuantity(s)
  ELSE ShowGroup(AtGroup(s))

RepeatCart(s) == IF s.cart = <<>> THEN StartOrdering(s) ELSE ShowCart(s)
RepeatLines(s) == IF s.cart = <<>> THEN StartOrdering(s) ELSE ShowLines(s)

RepeatAdjustment(s) ==
  IF Find(s.cart, s.line) = {} THEN RepeatLines(s)
  ELSE \E n \in Find(s.cart, s.line) : ShowActions(s, s.cart[n].units)

RepeatUnits(s) == IF Find(s.cart, s.line) = {} THEN RepeatAdjustment(s) ELSE ShowUnits(s)

\* repeatCurrentPrompt
Repeat(s) ==
  CASE s.state = "ORDERING" -> IF s.step = "item" THEN RepeatItems(s) ELSE StartOrdering(s)
    [] s.state = "SELECTING_QTY" -> RepeatQuantity(s)
    [] s.state = "SELECTING_OPTIONS" -> RepeatOptions(s)
    [] s.state = "CONFIRMING_ORDER" -> RepeatCart(s)
    [] s.state = "REMOVING_ORDER_ITEM" -> RepeatLines(s)
    [] s.state = "ADJUSTING_ORDER_ITEM" -> RepeatAdjustment(s)
    [] s.state = "SELECTING_CART_ITEM_QTY" -> RepeatUnits(s)
    [] OTHER -> Tells([s EXCEPT !.state = "MAIN_MENU"], "menu")

---------------------------------------------------------------------------
(* handlers: one per state *)

Handles(state) == sess.state = state /\ UNCHANGED <<menu, menuEdits, access>>

\* A number names an entry of the list the session keeps; a row names itself,
\* also one of an older list.
Named(list, all) == ToSet(list) \cup all

\* handleOrderingCategorySelection, also for "change item".
OpenCategory(s, c) ==
  LET items == ItemsOf(c)
  IN  IF items = <<>>
        THEN \* "choose another category": the session does not go back to them
             Shows([s EXCEPT !.state = "ORDERING"],
                   IF s.step = "category" THEN CategoryList(s.categories) ELSE [kind |-> "emptied"])
        ELSE Shows([s EXCEPT !.state = "ORDERING", !.step = "item", !.category = c, !.items = items],
                   ItemList(items))

OrderingCategorySelection ==
  /\ Handles("ORDERING") /\ sess.step = "category"
  /\ \/ \E c \in Named(sess.categories, Categories) : OpenCategory(sess, c)
     \/ Repeat(sess)
  /\ UNCHANGED orders

OrderingItemSelection ==
  /\ Handles("ORDERING") /\ sess.step = "item"
  /\ \/ \E i \in Named(sess.items, Items) :
          IF ~Exists(i) THEN Tells([sess EXCEPT !.state = "MAIN_MENU"], "menu")
          ELSE IF ~Available(i) THEN UNCHANGED <<sess, prompt>>
          ELSE ShowQuantity([sess EXCEPT !.item = i, !.quantity = 0, !.fresh = TRUE])
     \/ Repeat(sess)
  /\ UNCHANGED orders

ChangeItem(s) == IF s.category # NoCategory THEN OpenCategory(s, s.category) ELSE StartOrdering(s)

QuantitySelection ==
  /\ Handles("SELECTING_QTY")
  /\ IF ~Exists(sess.item) THEN BackToMenu
     ELSE \/ ChangeItem(sess)
          \/ Repeat(sess)
          \/ \E n \in 1..MostAsked :
               LET s == [sess EXCEPT !.quantity = n]
               IN  IF GroupsOf(s.item) # <<>> THEN ShowGroup([s EXCEPT !.group = 1, !.options = {}])
                   ELSE AddToCart([s EXCEPT !.options = {}])
  /\ UNCHANGED orders

\* advanceOrderingOptionSelection
Advance(s) ==
  IF s.group < Len(GroupsOf(s.item)) THEN ShowGroup([s EXCEPT !.group = @ + 1]) ELSE AddToCart(s)

OfGroup(options, group) == {o \in options : o.group = group.name}

Picked(group, o) == [group |-> group.name, name |-> o.name, delta |-> o.delta]

\* Mutant of MayPass: a required group may be passed over.
MayAlwaysPass(s, group) == TRUE

\* "ok", "pular": for a group that has what it requires.
MayPass(s, group) == Cardinality(OfGroup(s.options, group)) >= group.min

\* One or more options by their numbers, rows or names: sold now, not chosen
\* before, and no more than the group allows.
MayPick(s, group, chosen) ==
  LET mine == OfGroup(s.options, group)
  IN  /\ \A o \in chosen : o.sold /\ \A p \in mine : p.name # o.name
      /\ \A o, p \in chosen : o.name = p.name => o = p
      /\ Cardinality(mine) + Cardinality(chosen) <= group.max

Pick(s, group, chosen) ==
  LET t == [s EXCEPT !.options = @ \cup {Picked(group, o) : o \in chosen}]
  IN  IF Cardinality(OfGroup(t.options, group)) >= group.max THEN Advance(t) ELSE ShowGroup(t)

\* What is refused leads to the same group again.
OptionSelection ==
  /\ Handles("SELECTING_OPTIONS")
  /\ IF ~Exists(sess.item) THEN Tells([Unselected(sess) EXCEPT !.state = "MAIN_MENU"], "menu")
     ELSE IF GroupsOf(sess.item) = <<>> THEN AddToCart([sess EXCEPT !.options = {}])
     ELSE LET s == AtGroup(sess)
              group == GroupsOf(s.item)[s.group]
          IN  \/ MayPass(s, group) /\ Advance(s)
              \/ \E chosen \in SUBSET ToSet(group.options) \ {{}} :
                   MayPick(s, group, chosen) /\ Pick(s, group, chosen)
              \/ ShowGroup(s)
  /\ UNCHANGED orders

---------------------------------------------------------------------------
(* orders *)

First(list, these) ==
  {list[n] : n \in {m \in DOMAIN list : list[m] \in these /\ \A k \in 1..(m - 1) : list[k] \notin these}}

\* findMenuItemSelectedOption: the first option of that name, by name alone.
CalledSo(group, c) == {o \in ToSet(group.options) : o.name = c.name}
HavingIt(i, c) == {g \in ToSet(GroupsOf(i)) : g.name = c.group /\ CalledSo(g, c) # {}}
Matches(i, c) == UNION {First(g.options, CalledSo(g, c)) : g \in First(GroupsOf(i), HavingIt(i, c))}

\* What the menu has for the options that were chosen.
Meant(i, options) ==
  UNION {{[group |-> c.group, name |-> o.name, delta |-> o.delta] : o \in Matches(i, c)} : c \in options}

\* validateSelectedOptions, with the names and prices of the menu.
ValidOptions(i, options) ==
  /\ \A c \in options : \E o \in Matches(i, c) : o.sold
  /\ \A g \in ToSet(GroupsOf(i)) : Cardinality(OfGroup(options, g)) \in g.min..g.max

Orderable(line) == Available(line.item) /\ ValidOptions(line.item, line.options)

OrderItem(line) ==
  LET options == Meant(line.item, line.options)
  IN  [item |-> line.item, options |-> options, units |-> line.units,
       price |-> menu.items[line.item].price + Extras(options)]

Destination(line) == menu.items[line.item].destination

\* An order for each destination, with the lines of it; they keep their places
\* in the cart (groupedItems, destinationOrder).
Destinations(lines) == {Destination(lines[n]) : n \in DOMAIN lines}
LinesTo(lines, d) == {n \in DOMAIN lines : Destination(lines[n]) = d}
Batch(lines) == [d \in Destinations(lines) |-> [n \in LinesTo(lines, d) |-> OrderItem(lines[n])]]

\* A destination's order is created when its first line has its turn.
CreatedBefore(batch, d) == {e \in DOMAIN batch : Min(DOMAIN batch[e]) < Min(DOMAIN batch[d])}
Newest(batch) == CHOOSE d \in DOMAIN batch : DOMAIN batch = CreatedBefore(batch, d) \cup {d}

\* CreateOrder: nothing is written of what it refuses; an error of the
\* database leaves the orders of the destinations before it.
CreateOrder(lines, sent, kept) ==
  IF \A n \in DOMAIN lines : Exists(lines[n].item) /\ Orderable(lines[n])
    THEN \/ orders' = Batch(lines) /\ Tells(sent, "sent")
         \/ \E d \in Destinations(lines) :
              LET created == CreatedBefore(Batch(lines), d)
              IN  /\ orders' = IF created = {} THEN orders ELSE Restrict(Batch(lines), created)
                  /\ Tells(kept, "refused")
    ELSE Tells(kept, "refused") /\ UNCHANGED orders

\* handleOrderConfirmation of "send".
Confirm ==
  IF sess.cart = <<>> THEN StartOrdering(sess) /\ UNCHANGED orders
  ELSE IF ~access THEN Tells([NoSession EXCEPT !.state = "WELCOME"], "welcome") /\ UNCHANGED orders
  ELSE IF \E n \in DOMAIN sess.cart : ~Exists(sess.cart[n].item) THEN BackToMenu /\ UNCHANGED orders
  ELSE CreateOrder(sess.cart, NoSession, [sess EXCEPT !.state = "MAIN_MENU"])

OrderConfirmation ==
  /\ Handles("CONFIRMING_ORDER")
  /\ \/ Confirm
     \/ /\ \/ ChangeItem(sess)
           \/ IF sess.cart = <<>> THEN StartOrdering(sess) ELSE ShowLines([sess EXCEPT !.line = NoLine])
           \/ Repeat(sess)
        /\ UNCHANGED orders

\* handleRepeatLastRound: the newest order, that is one destination's.
RepeatLastRound ==
  IF orders = <<>> THEN Tells(sess, "menu") /\ UNCHANGED orders
  ELSE CreateOrder(orders[Newest(orders)], sess, sess)

\* guardMainMenuAccess, then the options about orders.
MainMenu ==
  /\ Handles("MAIN_MENU")
  /\ IF ~access THEN Tells([NoSession EXCEPT !.state = "WELCOME"], "welcome") /\ UNCHANGED orders
     ELSE \/ (StartOrdering(sess) \/ Repeat(sess)) /\ UNCHANGED orders
          \/ RepeatLastRound

---------------------------------------------------------------------------
(* the cart's lines *)

OrderingCartItemRemoval ==
  /\ Handles("REMOVING_ORDER_ITEM")
  /\ \/ \E n \in DOMAIN sess.cart :
          ShowActions([sess EXCEPT !.line = Line(sess.cart[n])], sess.cart[n].units)
     \/ Repeat(sess)
  /\ UNCHANGED orders

WithUnits(n, units) ==
  LET cart == [sess.cart EXCEPT ![n].units = units]
  IN  WithinBounds(cart) /\ ShowCart([sess EXCEPT !.cart = cart])

WithoutLine(n) ==
  LET s == [sess EXCEPT !.cart = RemoveAt(@, n), !.line = NoLine]
  IN  IF s.cart = <<>> THEN StartOrdering(s) ELSE ShowCart(s)

\* The button "one less" of an older message may meet a line of one unit.
OrderingCartItemAdjustment ==
  /\ Handles("ADJUSTING_ORDER_ITEM")
  /\ \E n \in Find(sess.cart, sess.line) :
       LET units == sess.cart[n].units
       IN  \/ WithUnits(n, units + 1)
           \/ units > 1 /\ WithUnits(n, units - 1)
           \/ WithoutLine(n)
           \/ ShowUnits(sess)
           \/ ShowCart(sess)
           \/ Repeat(sess)
  /\ UNCHANGED orders

OrderingCartItemQuantitySelection ==
  /\ Handles("SELECTING_CART_ITEM_QTY")
  /\ \E n \in Find(sess.cart, sess.line) :
       \/ \E units \in 1..MostAsked : WithUnits(n, units)
       \/ ShowActions(sess, sess.cart[n].units)
       \/ Repeat(sess)
  /\ UNCHANGED orders

---------------------------------------------------------------------------
\* "0", from anywhere in the dialogue.
Back ==
  /\ sess.state \in Dialogue
  /\ BackToMenu
  /\ UNCHANGED <<menu, menuEdits, access, orders>>

\* The portal is opened: it asks the present question.
Bootstrap ==
  /\ access /\ sess.state # "WELCOME"
  /\ Repeat(sess)
  /\ UNCHANGED <<menu, menuEdits, access, orders>>

\* The menu is edited, or an item sells out or comes into its hours.
EditMenu ==
  /\ menuEdits < MaxMenuEdits /\ menuEdits' = menuEdits + 1
  /\ menu' \in Menus \ {menu}
  /\ sess' = [sess EXCEPT !.fresh = FALSE,
                          !.cart = [n \in DOMAIN @ |-> [@[n] EXCEPT !.fresh = FALSE]]]
  /\ UNCHANGED <<access, prompt, orders>>

CloseTab == access /\ access' = FALSE /\ UNCHANGED <<menu, menuEdits, sess, prompt, orders>>

\* A tab again, by its code (the cart is still there) or by a request.
Admitted ==
  /\ sess.state = "WELCOME"
  /\ access' = TRUE
  /\ Tells([sess EXCEPT !.state = "MAIN_MENU"], "menu") \/ BackToMenu
  /\ UNCHANGED <<menu, menuEdits, orders>>

OrderingNext ==
  \/ MainMenu \/ OrderingCategorySelection \/ OrderingItemSelection \/ QuantitySelection
  \/ OptionSelection \/ OrderConfirmation
  \/ OrderingCartItemRemoval \/ OrderingCartItemAdjustment \/ OrderingCartItemQuantitySelection
  \/ Back \/ Bootstrap \/ EditMenu \/ CloseTab \/ Admitted

OrderingSpec == OrderingInit /\ [][OrderingNext]_orderingVars

---------------------------------------------------------------------------
(* properties *)

Meaning(s) ==
  CASE s.state = "ORDERING" /\ s.step = "category" -> CategoryList(s.categories)
    [] s.state = "ORDERING" /\ s.step = "item" -> ItemList(s.items)
    [] s.state = "SELECTING_QTY" -> QuantityOf(s.item)
    [] s.state = "SELECTING_OPTIONS" -> OptionsOf(s.item, GroupsOf(s.item)[s.group])
    [] s.state = "CONFIRMING_ORDER" -> CartOf(s.cart)
    [] s.state = "REMOVING_ORDER_ITEM" -> LinesOf(s.cart)
    [] s.state = "ADJUSTING_ORDER_ITEM" ->
         [kind |-> "actions", line |-> s.line,
          several |-> \E n \in Find(s.cart, s.line) : s.cart[n].units > 1]
    [] s.state = "SELECTING_CART_ITEM_QTY" -> UnitsOf(s.line)

\* What the guest answers is taken for what it was asked: in every state of
\* the dialogue the lists and ids that the session kept, by which the next
\* answer is resolved (resolveOrderingItemSelection and its like), are those
\* of the last message that asked something.  Two exceptions: options are
\* read from the menu again, so an edit may come in between; and the category
\* that "change item" wants to show again may have no items left.
AnswerMeansWhatWasAsked ==
  sess.state \in Dialogue /\ prompt.kind # "emptied" /\ (sess.state = "SELECTING_OPTIONS" => sess.fresh)
    => prompt = Meaning(sess)

\* What the dialogue put together can be ordered: as long as nobody edited
\* the menu since an item was chosen, no order is refused for its line,
\* although CreateOrder validates it with rules of its own
\* (handleOptionSelection and validateSelectedOptions).  Where groups or
\* options share a name it may be: both look them up by their names.
Acceptable(line) ==
  Available(line.item) /\ (WellNamed(line.item) => ValidOptions(line.item, line.options))
FreshLineOrderable ==
  \A n \in DOMAIN sess.cart : sess.cart[n].fresh => Acceptable(sess.cart[n])

\* The guest pays what the cart showed when it was sent: the orders, priced
\* from the menu, add up to the subtotal of the last message, as long as
\* nobody edited the menu since its items were chosen, and their options are
\* known by their names (addItemToOrderingCart, CreateOrder).
PricedAsShown ==
  [][/\ sess.state = "CONFIRMING_ORDER" /\ prompt.kind = "cart" /\ prompt'.kind = "sent"
     /\ \A n \in DOMAIN sess.cart : sess.cart[n].fresh /\ WellNamed(sess.cart[n].item)
     => SumFunction([d \in DOMAIN orders' |-> Subtotal(orders'[d])]) = prompt.subtotal]_orderingVars
=============================================================================
