---------------------------- MODULE CapacityPool ----------------------------
(***************************************************************************)
(* What the own-delivery capacity of one restaurant promises, without      *)
(* locks, clocks or transactions: a pool of courier slots, each used by    *)
(* one checkout key, first as a temporary hold and then as a confirmed     *)
(* reservation.  A slot is granted only when the pool has room for it, a   *)
(* reservation is confirmed only from a hold, and nothing but a release, a *)
(* lapse or a renewal of the hold takes a slot away.                       *)
(***************************************************************************)
EXTENDS Naturals, FiniteSets

CONSTANTS Keys,        \* checkout keys
          Capacities   \* numbers of couriers an administrator may declare

VARIABLES held, confirmed, capacity

vars == <<held, confirmed, capacity>>

Init == /\ held = {}
        /\ confirmed = {}
        /\ capacity \in Capacities

\* A slot for k, and the lapsed holds that make room for it.  A key whose
\* reservation was confirmed but whose window is over starts again as a hold.
Grant(k, lapsed) ==
  /\ lapsed \subseteq held \ {k}
  /\ held' = (held \ lapsed) \cup {k}
  /\ confirmed' = confirmed \ {k}
  /\ Cardinality(held' \cup confirmed') <= capacity
  /\ UNCHANGED capacity

Confirm(k) ==
  /\ k \in held
  /\ held' = held \ {k}
  /\ confirmed' = confirmed \cup {k}
  /\ UNCHANGED capacity

Release(k) ==
  /\ k \in held \cup confirmed
  /\ held' = held \ {k}
  /\ confirmed' = confirmed \ {k}
  /\ UNCHANGED capacity

Lapse(lapsed) ==
  /\ lapsed \subseteq held
  /\ held' = held \ lapsed
  /\ UNCHANGED <<confirmed, capacity>>

Resize(c) ==
  /\ capacity' = c
  /\ UNCHANGED <<held, confirmed>>

Next ==
  \/ \E k \in Keys, lapsed \in SUBSET Keys : Grant(k, lapsed)
  \/ \E k \in Keys : Confirm(k) \/ Release(k)
  \/ \E lapsed \in SUBSET Keys : Lapse(lapsed)
  \/ \E c \in Capacities : Resize(c)

Spec == Init /\ [][Next]_vars
=============================================================================
