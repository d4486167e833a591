---- MODULE MCOrdering ----
EXTENDS Ordering

Flavours(second) ==
  [name |-> "flavours", min |-> 1, max |-> 2,
   options |-> <<[name |-> "orange", delta |-> 0, sold |-> TRUE],
                 [name |-> "lime", delta |-> 2, sold |-> second]>>]
Extra == [name |-> "extra", min |-> 0, max |-> 1,
          options |-> <<[name |-> "ice", delta |-> 1, sold |-> TRUE]>>]

Soup(sold) == [category |-> "food", price |-> 3, destination |-> "KITCHEN", groups |-> <<>>, sold |-> sold]
Drink(category, price, groups) ==
  [category |-> category, price |-> price, destination |-> "BAR", groups |-> groups, sold |-> TRUE]

\* Everything; no soup left, and the drink in its category, at another price
\* and with other options; no categories shown, and the soup deleted.
ThreeMenus ==
  {[categories |-> <<"food", "drinks">>, listing |-> <<"soup", "drink">>,
    items |-> [i \in {"soup", "drink"} |-> IF i = "soup" THEN Soup(TRUE) ELSE Drink("drinks", 4, <<Flavours(TRUE)>>)]],
   [categories |-> <<"drinks", "food">>, listing |-> <<"soup", "drink">>,
    items |-> [i \in {"soup", "drink"} |->
                 IF i = "soup" THEN Soup(FALSE) ELSE Drink("food", 5, <<Flavours(FALSE), Extra>>)]],
   [categories |-> <<>>, listing |-> <<"drink">>,
    items |-> [i \in {"drink"} |-> Drink("drinks", 5, <<>>)]]}
====
