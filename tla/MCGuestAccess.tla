---------------------------- MODULE MCGuestAccess ----------------------------
(* GuestAccess for TLC.  Guests are alike, and no property is about fairness. *)
EXTENDS GuestAccess, TLC

Symmetry == Permutations(Guests)
=============================================================================
