----------------------- MODULE MCExternalFulfillment ------------------------
(***************************************************************************)
(* ExternalFulfillment for TLC, twice: a behaviour follows one of two      *)
(* instances, chosen at its start.  The extended one, with the constants   *)
(* of the cfg, has one maintenance run at a time, two cycles and no fault; *)
(* in Overlap two runs overlap, servers die and answers are lost, over one *)
(* cycle.                                                                  *)
(***************************************************************************)
EXTENDS ExternalFulfillment

CONSTANT Overlapping           \* the workers of Overlap

VARIABLE instance              \* the instance the behaviour follows

Overlap == INSTANCE ExternalFulfillment WITH
  Workers <- Overlapping, MaxCycle <- 1, MaxNow <- 2, Reports <- {"IN_TRANSIT"},
  MayDie <- TRUE, CallMayBeLost <- TRUE

mcVars == <<vars, instance>>

MCInit ==
  \/ instance = "alone" /\ Init
  \/ instance = "overlap" /\ Overlap!Init

Follows(name) == instance = name /\ instance' = name

MCNext ==
  \/ Follows("alone") /\ Next
  \/ Follows("overlap") /\ Overlap!Next

\* FairSpec of ExternalFulfillment, for the first instance.
MCSpec ==
  /\ MCInit /\ [][MCNext]_mcVars
  /\ \A w \in Workers : SF_mcVars(Follows("alone") /\ WorkerStep(w))
  /\ WF_mcVars(Follows("alone") /\ Tick)

\* A cycle is over some day (CycleConcludes): with one run at a time, no crash.
EveryCycleConcludes == instance = "alone" => CycleConcludes
=============================================================================
