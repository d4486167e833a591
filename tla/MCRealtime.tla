------------------------------ MODULE MCRealtime ------------------------------
(***************************************************************************)
(* What screens are told, for TLC: the board of the kitchen (KitchenBoard) *)
(* and the customer's page of a delivery (DeliveryTracking) share no       *)
(* state, so a behaviour follows one of them, chosen at its start, and the *)
(* other stays as it begins.  Of DeliveryTracking there are two instances: *)
(* the extended one, with the page and the constants of the cfg, and       *)
(* Estimates, with more positions and calculations and without a page.     *)
(***************************************************************************)
EXTENDS KitchenBoard, DeliveryTracking

CONSTANTS EstimateTimers, EstimateClock, EstimateSamples   \* of Estimates

VARIABLE focus

mcVars == <<boardVars, trackVars, focus>>

Estimates == INSTANCE DeliveryTracking WITH
  Watched <- FALSE, Timers <- EstimateTimers, MaxClock <- EstimateClock, MaxSamples <- EstimateSamples,
  MaxVersions <- 2, MaxAnswers <- 0, MaxSend <- 0, MaxSeen <- 0

MCInit ==
  \/ focus = "board" /\ BoardInit /\ TrackInit
  \/ focus = "page" /\ BoardInit /\ TrackInit /\ orders = [o \in Orders |-> "NONE"]
  \/ focus = "estimate" /\ BoardInit /\ Estimates!TrackInit /\ orders = [o \in Orders |-> "NONE"]

Follows(name) == focus = name /\ focus' = name

MCNext ==
  \/ Follows("board") /\ BoardNext /\ UNCHANGED trackVars
  \/ Follows("page") /\ TrackNext /\ UNCHANGED boardVars
  \/ Follows("estimate") /\ Estimates!TrackNext /\ UNCHANGED boardVars

\* BoardFairSpec of KitchenBoard and TrackFairSpec.
MCSpec ==
  /\ MCInit /\ [][MCNext]_mcVars
  /\ \A r \in Reqs : WF_mcVars(Follows("board") /\ RequestSteps(r) /\ UNCHANGED trackVars)
  /\ WF_mcVars(Follows("board") /\ PollRead /\ UNCHANGED trackVars)
  /\ WF_mcVars(Follows("board") /\ PollAnswer(1) /\ UNCHANGED trackVars)
  /\ SF_mcVars(Follows("page") /\ Poll /\ UNCHANGED boardVars)
  /\ WF_mcVars(Follows("page") /\ SnapshotArrives /\ UNCHANGED boardVars)
===============================================================================
