------------------------- MODULE MCDeliveryCheckout -------------------------
(***************************************************************************)
(* DeliveryCheckout for TLC, twice: a behaviour follows one of two         *)
(* instances, chosen at its start.  In the extended one, with the          *)
(* constants of the cfg, several payers meet on a checkout of either mode, *)
(* for two couriers, the maintenance job may die, and no insert fails;     *)
(* Faults has one payer, inserts that fail, a capacity that changes and a  *)
(* job that does not die.                                                  *)
(***************************************************************************)
EXTENDS DeliveryCheckout

CONSTANT FirstPayers           \* the payers of Faults

VARIABLE instance              \* the instance the behaviour follows

Faults == INSTANCE DeliveryCheckout WITH
  Payers <- FirstPayers, Quotes <- {}, Modes <- {"OWN"}, Capacities <- {1, 2},
  SaveMayFail <- TRUE, ExpirerMayDie <- FALSE

mcVars == <<vars, instance>>

MCInit ==
  \/ instance = "races" /\ Init
  \/ instance = "faults" /\ Faults!Init

Follows(name) == instance = name /\ instance' = name

MCNext ==
  \/ Follows("races") /\ Next
  \/ Follows("faults") /\ Faults!Next

\* FairSpec of DeliveryCheckout, for Faults.
MCSpec ==
  /\ MCInit /\ [][MCNext]_mcVars
  /\ \A c \in Creators : SF_mcVars(Follows("faults") /\ Faults!CreateStep(c))
  /\ WF_mcVars(Follows("faults") /\ Faults!HoldStep)
  /\ \A p \in FirstPayers : SF_mcVars(Follows("faults") /\ Faults!PayStep(p))
  /\ SF_mcVars(Follows("faults") /\ Faults!ExpireStep)
  /\ SF_mcVars(Follows("faults") /\ Faults!CapacityExpire)
  /\ WF_mcVars(Follows("faults") /\ Faults!Tick)

\* A checkout becomes PAID only over a courier slot that is still confirmed
\* for it, or a quote that is used (PaysOverReservation), as long as no insert
\* fails.
PaidOverReservation == [][instance = "races" => PaysOverReservation]_mcVars

\* Every checkout is paid, or expires and gives its slot back
\* (CheckoutSettles), even when creators and payers die halfway, and no slot
\* is kept by a checkout that cannot be paid any more (SlotReturned), as long
\* as maintenance does not die between its two transactions.
EveryCheckoutSettles == instance = "faults" => Faults!CheckoutSettles /\ Faults!SlotReturned
=============================================================================
