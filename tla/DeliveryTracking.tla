------------------------- MODULE DeliveryTracking -------------------------
(***************************************************************************)
(* The customer's page follows one delivery: what the panel, the driver    *)
(* and the operator change (delivery.service.ts, delivery-location.        *)
(* service.ts, delivery-eta.service.ts, delivery-webhook.service.ts) goes  *)
(* through the queue delivery.realtime.events and the room of the core's   *)
(* hub (deliveryrealtime) to the page (tracking.js), which polls the       *)
(* public snapshot as well (delivery-tracking.service.ts).                 *)
(*                                                                         *)
(* DeliveryLifecycle has every command; here are those that differ in how  *)
(* the page hears of them (arrive is like pickup).  A position is the      *)
(* device time at which it was recorded, an estimate the position that it  *)
(* was computed from.                                                      *)
(***************************************************************************)
EXTENDS Naturals, Sequences, FiniteSets

CONSTANTS
  Watched,      \* a customer has opened the page of the delivery
  Timers,       \* calculations of the estimate that may run at once
  NoPlace,      \* no position
  MaxVersions,  \* bound: versions of the delivery's row
  MaxClock,     \* bound: readings of the servers' clock
  MaxSamples,   \* bound: positions saved
  MaxAnswers,   \* bound: snapshots under way to the page
  MaxSend,      \* messages that a client's channel holds (256 in the code)
  MaxSeen,      \* event ids that a room remembers (1024 in the code)
  MaxMishaps    \* bound: faults

ASSUME TrackBounds == Watched \in BOOLEAN /\ {MaxVersions, MaxClock, MaxSamples, MaxAnswers, MaxSend, MaxSeen, MaxMishaps} \subseteq Nat
ASSUME NowhereAssumption == NoPlace \notin Nat

VARIABLES
  delivery,     \* the row, and how far the operator has reported
  samples,      \* device times of delivery_location_samples
  unsaid,       \* what is committed and still to be published
  clock,        \* of the servers
  estimate,     \* timer, calculations that run, and the estimate of the row
  stream,       \* the queue
  room,         \* of the hub: is the page's client in it, its channel, the ids seen
  viewer,       \* the page
  answers,      \* snapshots under way to the page
  linked,       \* the link of the page is the delivery's current one
  excused,      \* history: calculations of the estimate overlapped, or one came to nothing
  mishaps

trackVars == <<delivery, samples, unsaid, clock, estimate, stream, room, viewer, answers, linked, excused, mishaps>>

Ended == {"DELIVERED", "CANCELED"}
Located == {"ASSIGNED", "PICKED_UP", "IN_TRANSIT"}

\* Commands; each one publishes what it made of the delivery.
Commands == {<<"ASSIGNED", "PICKED_UP">>, <<"ASSIGNED", "CANCELED">>, <<"IN_TRANSIT", "DELIVERED">>}

Newest == IF samples = {} THEN 0 ELSE CHOOSE t \in samples : \A u \in samples : u <= t

\* publicSnapshot: the position of an ended delivery is not shown.
Snapshot == [status |-> delivery.status, version |-> delivery.version,
             place |-> IF delivery.status \in Ended \/ samples = {} THEN NoPlace ELSE Newest]

TrackTypeOK ==
  /\ delivery.status \in Located \cup Ended /\ samples \subseteq 0..MaxClock + 1
  /\ clock \in 0..MaxClock /\ Len(room.wire) <= MaxSend /\ Cardinality(room.seen) <= MaxSeen
  /\ Cardinality(answers) <= MaxAnswers

\* init of the page, if any: it has a snapshot, polls, and its socket is in the room.
TrackInit ==
  /\ delivery = [status |-> "ASSIGNED", version |-> 1, reported |-> "NONE"]
  /\ samples = {} /\ unsaid = {} /\ clock = 1
  /\ estimate = [timer |-> FALSE, running |-> [j \in Timers |-> NoPlace], of |-> 0]
  /\ stream = <<>>
  /\ room = [joined |-> Watched, wire |-> <<>>, seen |-> {}]
  /\ viewer = [status |-> "ASSIGNED", version |-> 1, place |-> NoPlace, at |-> 0, polling |-> Watched]
  /\ answers = {} /\ linked = Watched
  /\ excused = FALSE /\ mishaps = 0

Mishap == mishaps < MaxMishaps /\ mishaps' = mishaps + 1

---------------------------------------------------------------------------
(* the admin's server *)

\* A command commits; its request goes on to publishTrackingStatus.
Command(to) ==
  /\ <<delivery.status, to>> \in Commands /\ delivery.version < MaxVersions
  /\ delivery' = [delivery EXCEPT !.status = to, !.version = @ + 1]
  /\ unsaid' = unsaid \cup {[kind |-> "status", status |-> to, place |-> NoPlace]}
  /\ UNCHANGED <<samples, clock, estimate, stream, room, viewer, answers, linked, excused, mishaps>>

\* applyPayload of the operator's report: by the rank of the fulfillment,
\* whatever the delivery was; no version and nothing published.
Report(status) ==
  /\ delivery.reported # "DELIVERED"
  /\ delivery' = [delivery EXCEPT !.status = status, !.reported = status]
  /\ UNCHANGED <<samples, unsaid, clock, estimate, stream, room, viewer, answers, linked, excused, mishaps>>

\* record: a point that the driver's device recorded, a little before or
\* after the server's time, unless a newer one is known.
RecordLocation(time) ==
  /\ delivery.status \in Located
  /\ time >= clock - 1 /\ time <= clock + 1 /\ time \notin samples
  /\ Cardinality(samples) < MaxSamples /\ time >= Newest
  /\ samples' = samples \cup {time}
  /\ unsaid' = unsaid \cup {[kind |-> "location", status |-> "NONE", place |-> time]}
  /\ UNCHANGED <<delivery, clock, estimate, stream, room, viewer, answers, linked, excused, mishaps>>

\* schedule: the timer starts again.
Schedule(said) == [estimate EXCEPT !.timer = @ \/ said.kind = "location"]

\* publishDeliveryRealtimeEvent: a status is said to occur when it is
\* published, a position when it was recorded.
PublishRealtime(said) ==
  /\ said \in unsaid /\ clock < MaxClock
  /\ clock' = clock + 1
  /\ stream' = Append(stream, [id |-> clock, kind |-> said.kind, status |-> said.status, place |-> said.place,
                               at |-> IF said.kind = "location" THEN said.place ELSE clock'])
  /\ unsaid' = unsaid \ {said}
  /\ estimate' = Schedule(said)
  /\ UNCHANGED <<delivery, samples, room, viewer, answers, linked, excused, mishaps>>

\* .catch(() => undefined): the event is lost, the request goes on.
PublishRealtimeFails(said) ==
  /\ said \in unsaid /\ Mishap
  /\ unsaid' = unsaid \ {said}
  /\ estimate' = Schedule(said)
  /\ UNCHANGED <<delivery, samples, clock, stream, room, viewer, answers, linked, excused>>

\* Mutant of StartEstimate: one calculation at a time, the timer is spent on it.
StartEstimateOnce(j) ==
  /\ estimate.timer /\ estimate.running[j] = NoPlace
  /\ estimate' = [estimate EXCEPT !.timer = FALSE,
       !.running[j] = IF delivery.status \in Located /\ \A k \in Timers : estimate.running[k] = NoPlace
                      THEN Newest ELSE NoPlace]
  /\ excused' = (excused \/ delivery.status \in Ended)
  /\ UNCHANGED <<delivery, samples, unsaid, clock, stream, room, viewer, answers, linked, mishaps>>

\* recalculate, when the timer fires: it reads the newest position, without a
\* lock, and asks the maps for the way.
StartEstimate(j) ==
  /\ estimate.timer /\ estimate.running[j] = NoPlace
  /\ estimate' = [estimate EXCEPT !.timer = FALSE,
                                  !.running[j] = IF delivery.status \in Located THEN Newest ELSE NoPlace]
  /\ excused' = (excused \/ delivery.status \in Ended \/ \E k \in Timers : estimate.running[k] # NoPlace)
  /\ UNCHANGED <<delivery, samples, unsaid, clock, stream, room, viewer, answers, linked, mishaps>>

\* The maps answer: the estimate is saved under a lock, if the delivery still
\* moves, and published.
SaveEstimate(j) ==
  /\ estimate.running[j] # NoPlace
  /\ IF delivery.status \in Located
     THEN /\ estimate' = [estimate EXCEPT !.running[j] = NoPlace, !.of = estimate.running[j]]
          /\ unsaid' = unsaid \cup {[kind |-> "eta", status |-> "NONE", place |-> NoPlace]}
     ELSE /\ estimate' = [estimate EXCEPT !.running[j] = NoPlace]
          /\ UNCHANGED unsaid
  /\ excused' = (excused \/ delivery.status \in Ended)
  /\ UNCHANGED <<delivery, samples, clock, stream, room, viewer, answers, linked, mishaps>>

\* The maps fail: a warning is all.
EstimateFails(j) ==
  /\ estimate.running[j] # NoPlace /\ Mishap
  /\ estimate' = [estimate EXCEPT !.running[j] = NoPlace]
  /\ excused' = TRUE
  /\ UNCHANGED <<delivery, samples, unsaid, clock, stream, room, viewer, answers, linked>>

\* The server restarts: timers, calculations and unpublished events are gone.
AdminRestarts ==
  /\ Mishap
  /\ unsaid' = {} /\ excused' = TRUE
  /\ estimate' = [estimate EXCEPT !.timer = FALSE, !.running = [j \in Timers |-> NoPlace]]
  /\ UNCHANGED <<delivery, samples, clock, stream, room, viewer, answers, linked>>

\* issueLinkInTransaction for another pickup or by the staff, and revoke.
NewLink ==
  /\ linked /\ Mishap
  /\ linked' = FALSE
  /\ UNCHANGED <<delivery, samples, unsaid, clock, estimate, stream, room, viewer, answers, excused>>

---------------------------------------------------------------------------
(* the hub of the core *)

\* What a closed client may still have written of its channel.
WireOf(w) == {SubSeq(w, 1, n) : n \in 0..Len(w)}

\* CloseRoom after a completed event: the client leaves and is closed.
Closes(event) == event.kind = "status" /\ event.status = "DELIVERED"

\* ProjectPublic: what of an event may leave for a client.
ProjectPublic(event) == [kind |-> event.kind, status |-> event.status, place |-> event.place, at |-> event.at]

\* Register.
Joined == [room EXCEPT !.joined = TRUE]

\* A room that remembers too much forgets any id.
Remember(id) ==
  LET all == room.seen \cup {id}
  IN  IF Cardinality(all) > MaxSeen THEN {all \ {x} : x \in all} ELSE {all}

\* Handle and Broadcast: an id seen before is dropped, a client that cannot
\* keep up is closed.
Broadcasts(event) ==
  \/ /\ event.id \in room.seen
     /\ room' = room
  \/ /\ event.id \notin room.seen
     /\ \E kept \in Remember(event.id) :
          LET keepsUp == room.joined /\ Len(room.wire) < MaxSend
              sent == IF keepsUp THEN Append(room.wire, ProjectPublic(event)) ELSE room.wire
          IN  IF room.joined /\ (~keepsUp \/ Closes(event))
              THEN \E w \in WireOf(sent) : room' = [joined |-> FALSE, wire |-> w, seen |-> kept]
              ELSE room' = [room EXCEPT !.wire = sent, !.seen = kept]

HandleEvent ==
  /\ stream # <<>> /\ Broadcasts(Head(stream))
  /\ stream' = Tail(stream)
  /\ UNCHANGED <<delivery, samples, unsaid, clock, estimate, viewer, answers, linked, excused, mishaps>>

\* The acknowledgement is lost: the event comes again.
HandleUnacked ==
  /\ stream # <<>> /\ Broadcasts(Head(stream)) /\ Mishap
  /\ UNCHANGED <<delivery, samples, unsaid, clock, estimate, stream, viewer, answers, linked, excused>>

\* The core restarts: its rooms and what they have seen are gone.
HubRestarts ==
  /\ Mishap
  /\ \E w \in WireOf(room.wire) : room' = [joined |-> FALSE, wire |-> w, seen |-> {}]
  /\ UNCHANGED <<delivery, samples, unsaid, clock, estimate, stream, viewer, answers, linked, excused>>

---------------------------------------------------------------------------
(* the page *)

\* stopRealtime at an ended status: no polls, no socket, no reconnection.
Shown(v) == IF v.status \in Ended THEN [v EXCEPT !.polling = FALSE] ELSE v

Leaves(v) == IF v.polling THEN room ELSE [room EXCEPT !.joined = FALSE, !.wire = <<>>]

\* applyRealtimeEvent: what occurred before the last event is dropped.
HearEvent ==
  /\ room.wire # <<>> /\ viewer.polling
  /\ LET event == Head(room.wire)
         heard == [viewer EXCEPT
                     !.at = event.at,
                     !.status = IF event.kind = "status" THEN event.status ELSE @,
                     !.place = IF event.kind = "location" THEN event.place ELSE @]
     IN  viewer' = IF event.at < viewer.at THEN viewer ELSE Shown(heard)
  /\ room' = IF viewer'.polling THEN [room EXCEPT !.wire = Tail(@)] ELSE Leaves(viewer')
  /\ UNCHANGED <<delivery, samples, unsaid, clock, estimate, stream, answers, linked, excused, mishaps>>

\* Authorize, before the upgrade: a link that was revoked opens nothing more.
Authorized == linked

\* onclose and scheduleReconnect.
Reconnect ==
  /\ viewer.polling /\ ~room.joined /\ room.wire = <<>> /\ Authorized
  /\ room' = Joined
  /\ UNCHANGED <<delivery, samples, unsaid, clock, estimate, stream, viewer, answers, linked, excused, mishaps>>

\* The request of a snapshot, answered by the server; a lost one changes nothing.
Request ==
  /\ linked /\ Cardinality(answers) < MaxAnswers
  /\ answers' = answers \cup {Snapshot}
  /\ UNCHANGED <<delivery, samples, unsaid, clock, estimate, stream, room, viewer, linked, excused, mishaps>>

Poll == viewer.polling /\ Request

\* visibilitychange: a page that does not show an end asks, with or without a timer.
LookAgain == viewer.status \notin Ended /\ Request

\* Mutant of applySnapshot: a snapshot without a newer version is old.
applyNewer(answer) ==
  /\ answer \in answers
  /\ answers' = answers \ {answer}
  /\ viewer' = IF answer.version <= viewer.version THEN viewer
               ELSE Shown([viewer EXCEPT !.status = answer.status, !.version = answer.version, !.place = answer.place])
  /\ room' = Leaves(viewer')
  /\ UNCHANGED <<delivery, samples, unsaid, clock, estimate, stream, linked, excused, mishaps>>

\* applySnapshot, in any order: only an older version is dropped.
applySnapshot(answer) ==
  /\ answer \in answers
  /\ answers' = answers \ {answer}
  /\ viewer' = IF answer.version < viewer.version THEN viewer
               ELSE Shown([viewer EXCEPT !.status = answer.status, !.version = answer.version, !.place = answer.place])
  /\ room' = Leaves(viewer')
  /\ UNCHANGED <<delivery, samples, unsaid, clock, estimate, stream, linked, excused, mishaps>>

SnapshotArrives == \E answer \in answers : applySnapshot(answer)

---------------------------------------------------------------------------
TrackNext ==
  \/ \E to \in {"PICKED_UP", "CANCELED", "DELIVERED"} : Command(to)
  \/ \E status \in {"IN_TRANSIT", "DELIVERED"} : Report(status)
  \/ \E time \in 0..MaxClock + 1 : RecordLocation(time)
  \/ \E said \in unsaid : PublishRealtime(said) \/ PublishRealtimeFails(said)
  \/ \E j \in Timers : StartEstimate(j) \/ SaveEstimate(j) \/ EstimateFails(j)
  \/ AdminRestarts \/ NewLink
  \/ HandleEvent \/ HandleUnacked \/ HubRestarts
  \/ HearEvent \/ Reconnect \/ Poll \/ LookAgain \/ SnapshotArrives

TrackSpec == TrackInit /\ [][TrackNext]_trackVars

(* The timer of the page fires every twelve seconds until stopRealtime, and *)
(* a request that is sent again and again is answered at last; nothing else *)
(* is needed: events may all be lost.                                       *)
TrackFairSpec == TrackSpec /\ SF_trackVars(Poll) /\ WF_trackVars(SnapshotArrives)

---------------------------------------------------------------------------
(* properties *)

\* A page with the delivery's link that has not shown an end shows the status
\* where the delivery stays, whatever was lost, late, doubled or out of order
\* and although the operator's reports neither change the version nor are
\* published.
PageSettles ==
  \A s \in Located \cup Ended :
    <>[](delivery.status = s /\ linked) => <>[](viewer.status = s \/ ~viewer.polling)

\* The estimate of a delivery under way is that of its newest position when
\* nothing is left to do, unless two calculations ran together (the older one
\* may be saved last), the maps failed, the server restarted or the operator
\* took the delivery back from its end.
EstimateOfNewest ==
  /\ ~excused /\ delivery.status \in Located
  /\ ~estimate.timer /\ \A j \in DOMAIN estimate.running : estimate.running[j] = NoPlace
  /\ \A said \in unsaid : said.kind # "location"
  => estimate.of = Newest
===========================================================================
