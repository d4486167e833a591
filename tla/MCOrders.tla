------------------------------ MODULE MCOrders ------------------------------
(***************************************************************************)
(* A delivery order for TLC: asked for and paid in the conversation        *)
(* (DeliveryDialogue), and a batch on its way through the kitchen          *)
(* (KitchenOrders).  They share no state, so a behaviour follows one       *)
(* instance, chosen at its start, and the other variables stay as they     *)
(* begin.  Of the dialogue there are three: the extended one, with the     *)
(* constants of the cfg, has one place, two carts, two orders and a        *)
(* payment; Address has two addresses and no payment; in Edits the         *)
(* restaurant changes the only address.                                    *)
(***************************************************************************)
EXTENDS DeliveryDialogue, KitchenOrders

CONSTANT TwoPlaces

VARIABLE instance

OneCart == {CHOOSE c \in Carts : TRUE}

Address == INSTANCE DeliveryDialogue WITH
  Places <- TwoPlaces, Carts <- OneCart, AddressLimit <- 2, MaxAddresses <- 2, MaxBatches <- 1,
  Payments <- {}

Edits == INSTANCE DeliveryDialogue WITH
  Places <- TwoPlaces, Carts <- OneCart, MaxBatches <- 1, MaxEdits <- 1

mcVars == <<dialogueVars, kitchenVars, instance>>

Beginning == batchOrders = [o \in BatchOrders |-> "NONE"]

MCInit ==
  /\ KitchenInit
  /\ \/ instance = "payment" /\ Beginning /\ DialogueInit
     \/ instance = "address" /\ Beginning /\ Address!DialogueInit
     \/ instance = "edits" /\ Beginning /\ Edits!DialogueInit
     \/ instance = "kitchen" /\ DialogueInit

Follows(name) == instance = name /\ instance' = name

MCNext ==
  \/ Follows("payment") /\ DialogueNext /\ UNCHANGED kitchenVars
  \/ Follows("address") /\ Address!DialogueNext /\ UNCHANGED kitchenVars
  \/ Follows("edits") /\ Edits!DialogueNext /\ UNCHANGED kitchenVars
  \/ Follows("kitchen") /\ KitchenNext /\ UNCHANGED dialogueVars

MCSpec == MCInit /\ [][MCNext]_mcVars
=============================================================================
