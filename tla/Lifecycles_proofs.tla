-------------------------- MODULE Lifecycles_proofs --------------------------
(***************************************************************************)
(* Theorems about rows that several requests share without holding a lock: *)
(* the orders of a batch (KitchenOrders), the accounts of the staff        *)
(* (StaffAccounts), a delivery (DeliveryLifecycle) and the estimate of its *)
(* arrival (DeliveryTracking).  A request reads a row, checks it, and      *)
(* saves it when it may have changed; each invariant says what is still    *)
(* true then of what was read.                                             *)
(***************************************************************************)
EXTENDS DeliveryLifecycle, DeliveryTracking, StaffAccounts, KitchenOrders, WellFoundedInduction, TLAPS

---------------------------------------------------------------------------
(* KitchenOrders: the rows of a batch and of its orders *)

\* A batch that was not begun has no orders, and nobody is at work on it.
NotBegun == batch.status = "NONE" => Quiet /\ \A o \in BatchOrders : batchOrders[o] = "NONE"

\* What a request carries fits its step: the transition it checked, the row it will save.
WellMade(r) ==
  LET q == reqs[r]
  IN /\ q.pc = "idle" => q = AtRest
     /\ q.pc = "save" \/ Syncing(r) => q.order \in BatchOrders
     /\ q.pc = "save" => \/ q.by = "notes" /\ q.from = "PENDING" /\ q.to = "PENDING"
                         \/ q.by \in {"admin", "core"} /\ q.to \in ValidTransitions[q.from]
     /\ Syncing(r) => q.by \in {"admin", "core"} /\ q.to \in {"ACCEPTED", "READY", "DELIVERED", "CANCELED"}
     /\ Syncing(r) /\ q.by = "core" /\ q.to = "READY" => mute
     /\ q.pc = "sync" => q.row.status # "NONE"
     /\ q.pc = "tell" => Tells(r) /\ Reaches(r)

KitchenSound == KitchenTypeOK /\ NotBegun /\ \A r \in Reqs : WellMade(r)

Open == With(batchOrders, {"PENDING", "ACCEPTED"})

\* A request that saw the milestone reached: nothing is to be prepared since.
ReadyStays ==
  \A r \in Reqs : ~raced /\ reqs[r].pc \in {"sync", "tell"} /\ Reaches(r) => Open = {}

ReadyInv == KitchenSound /\ ReadyStays

\* Of a batch that was delivered, the row says too that it was ready.
Ordered(b) == "delivered" \in b.reached => "ready" \in b.reached
MilestonesOrdered == Ordered(batch) /\ \A r \in Reqs : Ordered(reqs[r].read) /\ Ordered(reqs[r].row)

\* While no order is written during another's sync there is one sync at a time,
\* and what it has read is still so.
OneSyncs == \A q, r \in Reqs : Syncing(q) /\ Syncing(r) => q = r

UpToDate(r) ==
  /\ reqs[r].pc \in {"orders", "sync"} => reqs[r].read = batch
  /\ reqs[r].pc = "sync" => reqs[r].row = Synced(batch, batchOrders)

\* The row says what the orders are, as of the last sync that came to its end.
InSync ==
  ~stale /\ batch.status # "NONE" /\ BatchOrders # {} =>
    batch.status = DerivedStatus(batchOrders) /\ ReachedNow(batchOrders) \subseteq batch.reached

\* The message is sent, or being sent, only when the milestone is reached, and once.
Told ==
  /\ readyTold \in {0, 1}
  /\ readyTold = 1 => "ready" \in batch.reached /\ \A r \in Reqs : reqs[r].pc # "tell"
  /\ \A r \in Reqs : reqs[r].pc = "tell" => "ready" \in batch.reached
  /\ \A q, r \in Reqs : reqs[q].pc = "tell" /\ reqs[r].pc = "tell" => q = r

ReadySettled == ~raced /\ "ready" \in batch.reached => Open = {} /\ With(batchOrders, Statuses) # {}

\* The request that made the last order ready sends the message, unless it fails.
AllDone == BatchOrders # {} /\ \A o \in BatchOrders : batchOrders[o] \in {"READY", "DELIVERED"}

Telling(r) == Syncing(r) /\ Tells(r) /\ "ready" \notin batch.reached

LastTells ==
  ~raced /\ ~mute /\ ~untold /\ AllDone =>
    readyTold = 1 \/ \E r \in Reqs : reqs[r].pc = "tell" \/ Telling(r)

Synchronous ==
  OneSyncs /\ (\A r \in Reqs : UpToDate(r)) /\ InSync /\ Told /\ ReadySettled /\ LastTells

SyncedInv == KitchenSound /\ MilestonesOrdered /\ (~interleaved => Synchronous)

\* The alternatives of DerivedStatus, which exclude one another.
LEMMA Derived ==
  ASSUME NEW os
  PROVE  LET live == ActiveOrders(os)
             done == DoneOrders(os)
         IN /\ With(os, Statuses) # {} /\ live = {} => DerivedStatus(os) = "CANCELED"
            /\ AllActive(os, {"DELIVERED"}) => DerivedStatus(os) = "DELIVERED"
            /\ ~AllActive(os, {"DELIVERED"}) /\ live # {} /\ done = live => DerivedStatus(os) = "READY"
            /\ done # {} /\ done # live => DerivedStatus(os) = "READY_PARTIAL"
            /\ live # {} /\ done = {} /\ With(os, {"PENDING"}) = {} => DerivedStatus(os) = "ACCEPTED"
            /\ done = {} /\ (live = {} => With(os, Statuses) = {}) /\ (live # {} => With(os, {"PENDING"}) # {})
                 => DerivedStatus(os) = "PENDING"
<1> DEFINE live == ActiveOrders(os)
           done == DoneOrders(os)
           p1 == With(os, Statuses) # {} /\ live = {}
           p2 == AllActive(os, {"DELIVERED"})
           p3 == ~AllActive(os, {"DELIVERED"}) /\ live # {} /\ done = live
           p4 == done \notin {{}, live}
           p5 == live # {} /\ done = {} /\ With(os, {"PENDING"}) = {}
<1>1. done \subseteq live
  BY DEF DoneOrders, ActiveOrders, With, Statuses, Final
<1>2. p2 => live # {} /\ done = live
  <2>1. With(os, {"DELIVERED"}) \subseteq done
    BY DEF DoneOrders, With
  <2> QED BY <1>1, <2>1 DEF AllActive
<1>3. DerivedStatus(os) = CASE p1 -> "CANCELED" [] p2 -> "DELIVERED" [] p3 -> "READY" [] p4 -> "READY_PARTIAL"
                            [] p5 -> "ACCEPTED" [] OTHER -> "PENDING"
  BY DEF DerivedStatus
<1>4. /\ p1 => ~p2 /\ ~p3 /\ ~p4 /\ ~p5
      /\ p2 => ~p1 /\ ~p3 /\ ~p4 /\ ~p5
      /\ p3 => ~p1 /\ ~p2 /\ ~p4 /\ ~p5
      /\ p4 => ~p1 /\ ~p2 /\ ~p3 /\ ~p5
      /\ p5 => ~p1 /\ ~p2 /\ ~p3 /\ ~p4
  BY <1>1, <1>2
<1>5. /\ p4 <=> done # {} /\ done # live
      /\ done = {} /\ (live = {} => With(os, Statuses) = {}) /\ (live # {} => With(os, {"PENDING"}) # {})
           => ~p1 /\ ~p2 /\ ~p3 /\ ~p4 /\ ~p5
  BY <1>1, <1>2
<1>6. /\ p1 => DerivedStatus(os) = "CANCELED"
      /\ p2 => DerivedStatus(os) = "DELIVERED"
      /\ p3 => DerivedStatus(os) = "READY"
      /\ p4 => DerivedStatus(os) = "READY_PARTIAL"
      /\ p5 => DerivedStatus(os) = "ACCEPTED"
      /\ ~p1 /\ ~p2 /\ ~p3 /\ ~p4 /\ ~p5 => DerivedStatus(os) = "PENDING"
  <2> HIDE DEF p1, p2, p3, p4, p5
  <2> QED BY <1>3, <1>4
<1> QED BY <1>5, <1>6

LEMMA DerivedType ==
  ASSUME NEW os
  PROVE  DerivedStatus(os) \in Statuses \cup {"READY_PARTIAL"}
<1> DEFINE live == ActiveOrders(os)
           done == DoneOrders(os)
<1>1. done \subseteq live
  BY DEF DoneOrders, ActiveOrders, With, Statuses, Final
<1>2. \/ With(os, Statuses) # {} /\ live = {}
      \/ AllActive(os, {"DELIVERED"})
      \/ ~AllActive(os, {"DELIVERED"}) /\ live # {} /\ done = live
      \/ done # {} /\ done # live
      \/ live # {} /\ done = {} /\ With(os, {"PENDING"}) = {}
      \/ done = {} /\ (live = {} => With(os, Statuses) = {}) /\ (live # {} => With(os, {"PENDING"}) # {})
  BY <1>1
<1> QED BY <1>2, Derived DEF Statuses, Final

\* When a milestone is reached.
LEMMA ReachedBy ==
  ASSUME NEW os
  PROVE  /\ ReachedNow(os) \subseteq Milestones
         /\ "accepted" \in ReachedNow(os) <=> ActiveOrders(os) # {} /\ With(os, {"PENDING"}) = {}
         /\ "ready" \in ReachedNow(os) <=> ActiveOrders(os) # {} /\ DoneOrders(os) = ActiveOrders(os)
         /\ "delivered" \in ReachedNow(os) <=> AllActive(os, {"DELIVERED"})
         /\ "canceled" \in ReachedNow(os) <=> With(os, Statuses) # {} /\ ActiveOrders(os) = {}
BY DEF ReachedNow, Milestones

\* Whatever is delivered was ready.
LEMMA DeliveredWasReady ==
  ASSUME NEW os, "delivered" \in ReachedNow(os)
  PROVE  "ready" \in ReachedNow(os)
<1>1. AllActive(os, {"DELIVERED"})
  BY ReachedBy
<1>2. DoneOrders(os) \subseteq ActiveOrders(os) /\ With(os, {"DELIVERED"}) \subseteq DoneOrders(os)
  BY DEF DoneOrders, ActiveOrders, With, Statuses, Final
<1> QED BY <1>1, <1>2, ReachedBy DEF AllActive

LEMMA SyncedType ==
  ASSUME NEW b \in BatchRows, NEW os
  PROVE  Synced(b, os) \in BatchRows /\ Synced(b, os).status = DerivedStatus(os)
         /\ Synced(b, os).reached = b.reached \cup ReachedNow(os)
BY DerivedType, ReachedBy DEF Synced, Reached, BatchRows

KitchenRequest == [pc: {"idle", "save", "batch", "orders", "sync", "tell", "insert"},
                   by: {"none", "notes", "admin", "core", "worker"},
                   order: BatchOrders \cup {NoOrder}, from: Statuses \cup {"NONE"}, to: Statuses \cup {"NONE"},
                   read: BatchRows, row: BatchRows, todo: SUBSET BatchOrders]

LEMMA IdleRequest ==
  /\ AtRest \in KitchenRequest /\ NoBatchRow \in BatchRows
  /\ AtRest.pc = "idle" /\ AtRest.read = NoBatchRow /\ AtRest.row = NoBatchRow
BY DEF AtRest, KitchenRequest, NoBatchRow, BatchRows, Statuses, Final, Milestones

\* What a step does: somebody begins, the request at r goes on or ends.
LEMMA ReqsStep ==
  ASSUME KitchenSound, NEW r \in Reqs, NEW q, Becomes(r, q)
  PROVE  reqs'[r] = q /\ (\A s \in Reqs \ {r} : reqs'[s] = reqs[s])
         /\ (q \in KitchenRequest => reqs' \in [Reqs -> KitchenRequest])
BY DEF KitchenSound, KitchenTypeOK, Becomes, KitchenRequest

LEMMA AtWork ==
  ASSUME KitchenSound, NEW r \in Reqs
  PROVE  /\ reqs[r] \in KitchenRequest /\ WellMade(r)
         /\ reqs[r].pc # "idle" => reqs[r] # AtRest /\ ~Quiet /\ batch.status # "NONE"
BY IdleRequest DEF KitchenSound, KitchenTypeOK, NotBegun, Quiet, KitchenRequest

\* A transition leads from a status of a live order to one of four.
LEMMA Moves ==
  ASSUME NEW from \in Statuses \cup {"NONE"}, NEW to \in ValidTransitions[from]
  PROVE  /\ from \in {"PENDING", "ACCEPTED", "READY"} /\ to \in {"ACCEPTED", "READY", "DELIVERED", "CANCELED"}
         /\ from = "READY" => to = "DELIVERED"
         /\ to = "DELIVERED" => from = "READY"
BY DEF ValidTransitions, Statuses, Final

\* The other requests stay as they are made when only the request at r changes.
LEMMA OthersWellMade ==
  ASSUME KitchenSound, NEW r \in Reqs, \A s \in Reqs \ {r} : reqs'[s] = reqs[s], mute => mute', WellMade(r)'
  PROVE  \A s \in Reqs : WellMade(s)'
<1> SUFFICES ASSUME NEW s \in Reqs \ {r} PROVE WellMade(s)'
  OBVIOUS
<1>1. WellMade(s) /\ reqs'[s] = reqs[s]
  BY DEF KitchenSound
<1> QED BY <1>1 DEF WellMade, Syncing, Tells, Reaches

LEMMA KitchenStep ==
  ASSUME KitchenSound, [KitchenNext]_kitchenVars
  PROVE  KitchenSound'
<1>0. batchOrders \in [BatchOrders -> Statuses \cup {"NONE"}] /\ batch \in BatchRows
      /\ reqs \in [Reqs -> KitchenRequest]
      /\ readyTold \in Nat /\ ops \in Nat
      /\ stale \in BOOLEAN /\ interleaved \in BOOLEAN /\ raced \in BOOLEAN /\ mute \in BOOLEAN /\ untold \in BOOLEAN
  BY DEF KitchenSound, KitchenTypeOK, KitchenRequest
<1> DEFINE Typed == batchOrders' \in [BatchOrders -> Statuses \cup {"NONE"}] /\ batch' \in BatchRows
           /\ reqs' \in [Reqs -> KitchenRequest]
                    /\ readyTold' \in Nat /\ ops' \in Nat
                    /\ stale' \in BOOLEAN /\ interleaved' \in BOOLEAN /\ raced' \in BOOLEAN
                    /\ mute' \in BOOLEAN /\ untold' \in BOOLEAN
<1>00. Typed => KitchenTypeOK'
  BY DEF KitchenTypeOK, KitchenRequest
<1>1. ASSUME NEW r \in Reqs, NEW q \in KitchenRequest, Begins(r),
             Becomes(r, q), q.pc = "save", q.order \in BatchOrders,
             UNCHANGED <<batchOrders, batch, readyTold, stale, interleaved, raced, mute, untold>>, batchOrders[q.order] # "NONE",
             \/ q.by = "notes" /\ q.from = "PENDING" /\ q.to = "PENDING"
             \/ q.by \in {"admin", "core"} /\ q.to \in ValidTransitions[q.from]
      PROVE  KitchenSound'
  <2>1. Typed
    BY <1>0, <1>1, ReqsStep DEF Begins
  <2>2. WellMade(r)'
    BY <1>1, ReqsStep DEF WellMade, Syncing, Tells, Reaches
  <2>3. NotBegun'
    BY <1>1 DEF NotBegun, KitchenSound
  <2> QED BY <1>00, <1>1, <2>1, <2>2, <2>3, ReqsStep, OthersWellMade DEF KitchenSound
<1>2. ASSUME NEW r \in Reqs, NEW by \in {"admin", "core"}, NEW o \in BatchOrders, NEW to \in Statuses,
             StatusRead(r, by, o, to)
      PROVE  KitchenSound'
  <2> DEFINE q == [AtRest EXCEPT !.pc = "save", !.by = by, !.order = o, !.from = batchOrders[o], !.to = to]
  <2>1. q \in KitchenRequest /\ q.pc = "save" /\ q.order = o /\ q.by = by /\ q.from = batchOrders[o] /\ q.to = to
    BY <1>0, IdleRequest DEF KitchenRequest, AtRest
  <2>2. batchOrders[o] # "NONE"
    BY <1>0, <1>2, Moves DEF StatusRead
  <2>3. Begins(r) /\ Becomes(r, q) /\ to \in ValidTransitions[batchOrders[o]]
        /\ UNCHANGED <<batchOrders, batch, readyTold, stale, interleaved, raced, mute, untold>>
    BY <1>2 DEF StatusRead, histories
  <2> HIDE DEF q
  <2> QED BY <1>1, <2>1, <2>2, <2>3
<1>3. ASSUME NEW r \in Reqs, NEW o \in BatchOrders, NotesRead(r, o)
      PROVE  KitchenSound'
  <2> DEFINE q == [AtRest EXCEPT !.pc = "save", !.by = "notes", !.order = o, !.from = "PENDING", !.to = "PENDING"]
  <2>1. q \in KitchenRequest /\ q.pc = "save" /\ q.order = o /\ q.by = "notes" /\ q.from = "PENDING"
        /\ q.to = "PENDING"
    BY <1>0, IdleRequest DEF KitchenRequest, AtRest, Statuses, Final
  <2>2. Begins(r) /\ Becomes(r, q) /\ batchOrders[o] = "PENDING"
        /\ UNCHANGED <<batchOrders, batch, readyTold, stale, interleaved, raced, mute, untold>>
    BY <1>3 DEF NotesRead, histories
  <2> HIDE DEF q
  <2> QED BY <1>1, <2>1, <2>2
<1>4. ASSUME NEW r \in Reqs, SaveOrder(r) PROVE KitchenSound'
  <2> DEFINE q == reqs[r]
             p == IF q.by = "notes" THEN AtRest ELSE [q EXCEPT !.pc = "batch"]
  <2>1. q \in KitchenRequest /\ WellMade(r) /\ q.pc = "save" /\ batch.status # "NONE" /\ q.order \in BatchOrders
        /\ q.from \in Statuses \cup {"NONE"}
    BY <1>4, AtWork DEF SaveOrder, WellMade, KitchenRequest
  <2>2. Becomes(r, p) /\ UNCHANGED <<batch, readyTold, untold, ops>> /\ stale' \in BOOLEAN /\ interleaved' \in BOOLEAN
        /\ batchOrders' = [batchOrders EXCEPT ![q.order] = q.to]
           /\ mute' = (mute \/ (q.by = "core" /\ q.to = "READY"))
        /\ raced' = (raced \/ batchOrders[q.order] # q.from)
    BY <1>4 DEF SaveOrder
  <2>3. p \in KitchenRequest
        /\ (p = AtRest \/ (q.by # "notes" /\ p.pc = "batch" /\ p.by = q.by /\ p.to = q.to /\ p.order = q.order))
    BY <2>1, IdleRequest DEF KitchenRequest
  <2>4. q.to \in Statuses \cup {"NONE"}
    BY <2>1 DEF KitchenRequest
  <2> HIDE DEF p
  <2>5. Typed
    BY <1>0, <2>1, <2>2, <2>3, <2>4, ReqsStep
  <2>6. q.by # "notes" => q.by \in {"admin", "core"} /\ q.to \in {"ACCEPTED", "READY", "DELIVERED", "CANCELED"}
    BY <2>1, Moves DEF WellMade
  <2>7. reqs'[r] = p
    BY <2>2, ReqsStep
  <2>8. WellMade(r)'
    BY <2>1, <2>2, <2>3, <2>6, <2>7, IdleRequest DEF WellMade, Syncing, Tells, Reaches
  <2>9. NotBegun'
    BY <2>1, <2>2 DEF NotBegun
  <2> QED BY <1>00, <2>2, <2>5, <2>8, <2>9, ReqsStep, OthersWellMade DEF KitchenSound
<1>5. ASSUME NEW r \in Reqs, ReadBatch(r) PROVE KitchenSound'
  <2> DEFINE p == [reqs[r] EXCEPT !.pc = "orders", !.read = batch]
  <2>1. reqs[r] \in KitchenRequest /\ WellMade(r) /\ reqs[r].pc = "batch" /\ batch.status # "NONE"
    BY <1>5, AtWork DEF ReadBatch, histories
  <2>2. p \in KitchenRequest /\ p.pc = "orders" /\ p.by = reqs[r].by /\ p.to = reqs[r].to /\ p.order = reqs[r].order
    BY <1>0, <2>1 DEF KitchenRequest
  <2>3. Becomes(r, p) /\ UNCHANGED <<batchOrders, batch, readyTold, stale, interleaved, raced, mute, untold, ops>>
    BY <1>5 DEF ReadBatch, histories
  <2> HIDE DEF p
  <2>4. Typed /\ reqs'[r] = p
    BY <1>0, <2>2, <2>3, ReqsStep
  <2>5. WellMade(r)'
    BY <2>1, <2>2, <2>3, <2>4 DEF WellMade, Syncing, Tells, Reaches
  <2>6. NotBegun'
    BY <2>1, <2>3 DEF NotBegun
  <2> QED BY <1>00, <2>3, <2>4, <2>5, <2>6, ReqsStep, OthersWellMade DEF KitchenSound
<1>6. ASSUME NEW r \in Reqs, ReadOrders(r) PROVE KitchenSound'
  <2> DEFINE p == [reqs[r] EXCEPT !.pc = "sync", !.row = Synced(reqs[r].read, batchOrders)]
  <2>1. reqs[r] \in KitchenRequest /\ WellMade(r) /\ reqs[r].pc = "orders" /\ batch.status # "NONE"
    BY <1>6, AtWork DEF ReadOrders, histories
  <2>2. reqs[r].read \in BatchRows
    BY <2>1 DEF KitchenRequest
  <2>3. Synced(reqs[r].read, batchOrders) \in BatchRows /\ Synced(reqs[r].read, batchOrders).status # "NONE"
    BY <2>2, SyncedType, DerivedType DEF Statuses, Final
  <2>4. p \in KitchenRequest /\ p.pc = "sync" /\ p.by = reqs[r].by /\ p.to = reqs[r].to /\ p.order = reqs[r].order
        /\ p.row = Synced(reqs[r].read, batchOrders)
    BY <2>1, <2>3 DEF KitchenRequest
  <2>5. Becomes(r, p) /\ UNCHANGED <<batchOrders, batch, readyTold, stale, interleaved, raced, mute, untold, ops>>
    BY <1>6 DEF ReadOrders, histories
  <2> HIDE DEF p
  <2>6. Typed /\ reqs'[r] = p
    BY <1>0, <2>4, <2>5, ReqsStep
  <2>7. WellMade(r)'
    BY <2>1, <2>3, <2>4, <2>5, <2>6 DEF WellMade, Syncing, Tells, Reaches
  <2>8. NotBegun'
    BY <2>1, <2>5 DEF NotBegun
  <2> QED BY <1>00, <2>5, <2>6, <2>7, <2>8, ReqsStep, OthersWellMade DEF KitchenSound
<1>7. ASSUME NEW r \in Reqs, SaveBatch(r) PROVE KitchenSound'
  <2> DEFINE q == reqs[r]
             p == IF Tells(r) /\ Reaches(r) THEN [q EXCEPT !.pc = "tell"] ELSE AtRest
  <2>1. q \in KitchenRequest /\ WellMade(r) /\ q.pc = "sync" /\ batch.status # "NONE"
        /\ q.row \in BatchRows
    BY <1>7, AtWork DEF SaveBatch, KitchenRequest
  <2>2. Becomes(r, p) /\ UNCHANGED <<batchOrders, readyTold, interleaved, raced, mute, untold, ops>>
        /\ (batch' = batch \/ batch' = q.row) /\ stale' = FALSE
    BY <1>7 DEF SaveBatch
  <2>3. p \in KitchenRequest
        /\ \/ p = AtRest
           \/ /\ p.pc = "tell" /\ p.by = q.by /\ p.to = q.to /\ p.row = q.row /\ p.read = q.read
              /\ Tells(r) /\ Reaches(r)
    BY <2>1, IdleRequest DEF KitchenRequest
  <2> HIDE DEF p
  <2>4. Typed /\ reqs'[r] = p
    BY <1>0, <2>1, <2>2, <2>3, ReqsStep
  <2>5. WellMade(r)'
    BY <2>3, <2>4, IdleRequest DEF WellMade, Syncing, Tells, Reaches
  <2>6. batch'.status # "NONE"
    BY <2>1, <2>2 DEF WellMade
  <2> QED BY <1>00, <2>2, <2>4, <2>5, <2>6, ReqsStep, OthersWellMade DEF KitchenSound, NotBegun
<1>8. ASSUME NEW r \in Reqs, CreateManual(r) PROVE KitchenSound'
  <2>1. UNCHANGED <<reqs, readyTold, stale, interleaved, raced, mute, untold>> /\ batch' = [NoBatchRow EXCEPT !.status = "PENDING"]
        /\ batchOrders' = [o \in BatchOrders |-> "PENDING"] /\ Begins(r)
    BY <1>8 DEF CreateManual, histories
  <2>2. Typed /\ batch'.status # "NONE"
    BY <1>0, <2>1, IdleRequest DEF Begins, NoBatchRow, BatchRows, Statuses, Final
  <2> QED BY <1>00, <2>1, <2>2 DEF KitchenSound, NotBegun, WellMade, Syncing, Tells, Reaches
<1>9. ASSUME NEW r \in Reqs, CreateBatch(r) PROVE KitchenSound'
  <2> DEFINE p == [AtRest EXCEPT !.pc = "insert", !.by = "worker", !.todo = BatchOrders]
  <2>1. UNCHANGED <<batchOrders, readyTold, stale, interleaved, raced, mute, untold>> /\ batch' = [NoBatchRow EXCEPT !.status = "PENDING"]
        /\ Becomes(r, p) /\ Begins(r)
    BY <1>9 DEF CreateBatch, histories
  <2>2. p \in KitchenRequest /\ p.pc = "insert"
    BY IdleRequest DEF KitchenRequest, AtRest
  <2> HIDE DEF p
  <2>3. Typed /\ batch'.status # "NONE" /\ reqs'[r] = p
    BY <1>0, <2>1, <2>2, IdleRequest, ReqsStep DEF Begins, NoBatchRow, BatchRows, Statuses, Final
  <2>4. WellMade(r)'
    BY <2>2, <2>3 DEF WellMade, Syncing, Tells, Reaches
  <2> QED BY <1>00, <2>1, <2>3, <2>4, ReqsStep, OthersWellMade DEF KitchenSound, NotBegun
<1>10. ASSUME NEW r \in Reqs, NEW o \in BatchOrders, InsertOrder(r, o) PROVE KitchenSound'
  <2> DEFINE p == IF reqs[r].todo = {o} THEN AtRest ELSE [reqs[r] EXCEPT !.todo = @ \ {o}]
  <2>1. reqs[r] \in KitchenRequest /\ reqs[r].pc = "insert" /\ batch.status # "NONE"
    BY <1>10, AtWork DEF InsertOrder
  <2>2. Becomes(r, p) /\ UNCHANGED <<batch, readyTold, mute, untold, ops>>
        /\ batchOrders' = [batchOrders EXCEPT ![o] = "PENDING"]
        /\ raced' \in BOOLEAN /\ stale' \in BOOLEAN /\ interleaved' \in BOOLEAN
    BY <1>0, <1>10 DEF InsertOrder
  <2>3. p \in KitchenRequest /\ (p = AtRest \/ p.pc = "insert")
    BY <2>1, IdleRequest DEF KitchenRequest
  <2> HIDE DEF p
  <2>4. Typed /\ reqs'[r] = p
    BY <1>0, <2>2, <2>3, ReqsStep DEF Statuses, Final
  <2>5. WellMade(r)'
    BY <2>3, <2>4, IdleRequest DEF WellMade, Syncing, Tells, Reaches
  <2>6. NotBegun'
    BY <2>1, <2>2 DEF NotBegun
  <2> QED BY <1>00, <2>2, <2>4, <2>5, <2>6, ReqsStep, OthersWellMade DEF KitchenSound
<1>11. ASSUME NEW r \in Reqs, Becomes(r, AtRest), reqs[r].pc # "idle", UNCHANGED <<batchOrders, batch, mute>>, Typed
       PROVE  KitchenSound'
  <2>1. batch.status # "NONE" /\ reqs'[r] = AtRest
    BY <1>11, AtWork, ReqsStep
  <2>2. WellMade(r)'
    BY <2>1, IdleRequest DEF WellMade, Syncing, Tells, Reaches
  <2>3. NotBegun'
    BY <1>11, <2>1 DEF NotBegun
  <2> QED BY <1>00, <1>11, <2>2, <2>3, ReqsStep, OthersWellMade DEF KitchenSound
<1>12. ASSUME NEW r \in Reqs, InsertFails(r) \/ Tell(r) \/ Fails(r) PROVE KitchenSound'
  <2>1. Becomes(r, AtRest) /\ reqs[r].pc # "idle" /\ UNCHANGED <<batchOrders, batch, stale, interleaved, raced, mute, ops>>
        /\ readyTold' \in {readyTold, readyTold + 1} /\ untold' \in BOOLEAN
    BY <1>0, <1>12 DEF InsertFails, Tell, Fails, histories
  <2>2. Typed
    BY <1>0, <2>1, IdleRequest, ReqsStep
  <2> QED BY <1>11, <2>1, <2>2
<1>13. CASE UNCHANGED kitchenVars
  BY <1>13 DEF kitchenVars, histories, KitchenSound, KitchenTypeOK, NotBegun, Quiet, WellMade, Syncing, Tells, Reaches
<1> QED BY <1>2, <1>3, <1>4, <1>5, <1>6, <1>7, <1>8, <1>9, <1>10, <1>12, <1>13 DEF KitchenNext

LEMMA KitchenSoundInit == KitchenInit => KitchenSound
<1> SUFFICES ASSUME KitchenInit PROVE KitchenSound
  OBVIOUS
<1>1. PICK s \in {"NONE", "PENDING", "ACCEPTED"} :
        /\ batchOrders = [o \in BatchOrders |-> s]
        /\ batch = [status |-> s, reached |-> IF s = "ACCEPTED" THEN {"accepted"} ELSE {}]
  BY DEF KitchenInit
<1>2. reqs = [r \in Reqs |-> AtRest] /\ readyTold = 0 
      /\ stale = FALSE /\ interleaved = FALSE /\ raced = FALSE /\ mute = FALSE /\ untold = FALSE
      /\ ops = 0
  BY DEF KitchenInit
<1>3. batch \in BatchRows /\ batchOrders \in [BatchOrders -> Statuses \cup {"NONE"}]
  BY <1>1 DEF BatchRows, Statuses, Final, Milestones
<1>4. reqs \in [Reqs -> KitchenRequest]
  BY <1>2, IdleRequest
<1>5. KitchenTypeOK
  BY <1>2, <1>3, <1>4 DEF KitchenTypeOK, KitchenRequest
<1>6. \A r \in Reqs : WellMade(r)
  BY <1>2, IdleRequest DEF WellMade, Syncing, Tells, Reaches
<1>7. NotBegun
  BY <1>1, <1>2 DEF NotBegun, Quiet
<1> QED BY <1>5, <1>6, <1>7 DEF KitchenSound

\* The rows of a batch and its orders, and what requests carry, are well-typed; a batch
\* that was not begun has no orders and no requests (KitchenOrders).
THEOREM KitchenTypeCorrect == KitchenSpec => []KitchenSound
BY KitchenSoundInit, KitchenStep, PTL DEF KitchenSpec

---------------------------------------------------------------------------
(* the message that a batch is ready *)

\* A milestone that a request finds reached was reached when the orders were read.
LEMMA ReadyIsDone ==
  ASSUME NEW os, "ready" \in ReachedNow(os)
  PROVE  With(os, {"PENDING", "ACCEPTED"}) = {}
<1>1. DoneOrders(os) = ActiveOrders(os)
  BY ReachedBy
<1>2. With(os, {"PENDING", "ACCEPTED"}) \subseteq ActiveOrders(os) \ DoneOrders(os)
  BY DEF With, ActiveOrders, DoneOrders, Statuses, Final
<1> QED BY <1>1, <1>2

LEMMA ReadyStep ==
  ASSUME ReadyInv, [KitchenNext]_kitchenVars
  PROVE  ReadyInv'
<1>0. KitchenSound /\ KitchenSound'
  BY KitchenStep DEF ReadyInv
<1> SUFFICES ASSUME NEW s \in Reqs, ~raced', reqs'[s].pc \in {"sync", "tell"}, Reaches(s)' PROVE Open' = {}
  BY <1>0 DEF ReadyInv, ReadyStays, Open
<1>1. ASSUME ~raced, reqs'[s] = reqs[s], UNCHANGED batchOrders PROVE Open' = {}
  BY <1>1 DEF ReadyInv, ReadyStays, Reaches, Open, With
<1>2. ASSUME NEW r \in Reqs, NEW q, Becomes(r, q), q.pc \notin {"sync", "tell"} PROVE s # r /\ reqs'[s] = reqs[s]
  BY <1>0, <1>2, ReqsStep
<1>3. ASSUME NEW r \in Reqs, NEW by \in {"admin", "core"}, NEW o \in BatchOrders, NEW to \in Statuses,
             StatusRead(r, by, o, to)
      PROVE  Open' = {}
  <2>1. [AtRest EXCEPT !.pc = "save", !.by = by, !.order = o, !.from = batchOrders[o], !.to = to].pc \notin {"sync", "tell"}
    BY DEF AtRest
  <2> QED BY <1>1, <1>2, <1>3, <2>1 DEF StatusRead, histories
<1>4. ASSUME NEW r \in Reqs, NEW o \in BatchOrders, NotesRead(r, o)
      PROVE  Open' = {}
  <2>1. [AtRest EXCEPT !.pc = "save", !.by = "notes", !.order = o, !.from = "PENDING", !.to = "PENDING"].pc \notin {"sync", "tell"}
    BY DEF AtRest
  <2> QED BY <1>1, <1>2, <1>4, <2>1 DEF NotesRead, histories
<1>5. ASSUME NEW r \in Reqs, SaveOrder(r) PROVE Open' = {}
  <2> DEFINE q == reqs[r]
  <2>1. reqs[r] \in KitchenRequest /\ WellMade(r) /\ q.pc = "save"
    BY <1>0, <1>5, AtWork DEF SaveOrder
  <2>2. (IF q.by = "notes" THEN AtRest ELSE [q EXCEPT !.pc = "batch"]).pc \notin {"sync", "tell"}
    BY <2>1, IdleRequest DEF KitchenRequest
  <2>3. s # r /\ reqs'[s] = reqs[s] /\ ~raced /\ batchOrders[q.order] = q.from
        /\ batchOrders' = [batchOrders EXCEPT ![q.order] = q.to]
    BY <1>0, <1>2, <1>5, <2>2 DEF SaveOrder
  <2>4. Open = {}
    BY <2>3 DEF ReadyInv, ReadyStays, Reaches, Open
  <2>5. q.order \in BatchOrders /\ batchOrders \in [BatchOrders -> Statuses \cup {"NONE"}]
    BY <1>0, <2>1 DEF WellMade, KitchenSound, KitchenTypeOK
  <2>6. q.from \notin {"PENDING", "ACCEPTED"}
    BY <2>3, <2>4, <2>5 DEF Open, With
  <2>7. q.from \in Statuses \cup {"NONE"} /\ q.to \in ValidTransitions[q.from]
    BY <2>1, <2>6 DEF WellMade, KitchenRequest
  <2>8. q.to = "DELIVERED"
    BY <2>6, <2>7, Moves
  <2> QED BY <2>3, <2>4, <2>5, <2>8 DEF Open, With
<1>6. ASSUME NEW r \in Reqs, ReadBatch(r) PROVE Open' = {}
  <2>1. reqs[r] \in KitchenRequest
    BY <1>0, AtWork
  <2>2. [reqs[r] EXCEPT !.pc = "orders", !.read = batch].pc \notin {"sync", "tell"}
    BY <2>1 DEF KitchenRequest
  <2> QED BY <1>1, <1>2, <1>6, <2>2 DEF ReadBatch, histories
<1>7. ASSUME NEW r \in Reqs, ReadOrders(r) PROVE Open' = {}
  <2> DEFINE p == [reqs[r] EXCEPT !.pc = "sync", !.row = Synced(reqs[r].read, batchOrders)]
  <2>1. reqs[r] \in KitchenRequest /\ reqs[r].read \in BatchRows
    BY <1>0, AtWork DEF KitchenRequest
  <2>2. p.row = Synced(reqs[r].read, batchOrders) /\ p.read = reqs[r].read
    BY <2>1 DEF KitchenRequest
  <2>3. Becomes(r, p) /\ UNCHANGED <<batchOrders, raced>>
    BY <1>7 DEF ReadOrders, histories
  <2> HIDE DEF p
  <2>4. CASE s = r
    <3>1. "ready" \in p.row.reached \ p.read.reached
      BY <1>0, <2>3, <2>4, ReqsStep DEF Reaches
    <3>2. "ready" \in ReachedNow(batchOrders)
      BY <2>1, <2>2, <3>1, SyncedType
    <3> QED BY <2>3, <3>2, ReadyIsDone DEF Open, With
  <2>5. CASE s # r
    BY <1>0, <1>1, <2>3, <2>5, ReqsStep
  <2> QED BY <2>4, <2>5
<1>8. ASSUME NEW r \in Reqs, SaveBatch(r) PROVE Open' = {}
  <2> DEFINE p == IF Tells(r) /\ Reaches(r) THEN [reqs[r] EXCEPT !.pc = "tell"] ELSE AtRest
  <2>1. reqs[r] \in KitchenRequest /\ reqs[r].pc = "sync" /\ Becomes(r, p) /\ UNCHANGED <<batchOrders, raced>>
    BY <1>0, <1>8, AtWork DEF SaveBatch
  <2>2. p = AtRest \/ (Reaches(r) /\ p.pc = "tell")
    BY <2>1 DEF KitchenRequest
  <2> HIDE DEF p
  <2>3. CASE s = r
    <3>1. reqs'[s] = p
      BY <1>0, <2>1, <2>3, ReqsStep
    <3>2. Reaches(r)
      BY <2>2, <3>1, IdleRequest
    <3> QED BY <2>1, <3>2 DEF ReadyInv, ReadyStays, Open, With
  <2>4. CASE s # r
    BY <1>0, <1>1, <2>1, <2>4, ReqsStep
  <2> QED BY <2>3, <2>4
<1>9. ASSUME NEW r \in Reqs, CreateManual(r) PROVE Open' = {}
  <2>1. reqs'[s] = reqs[s] /\ batch.status = "NONE"
    BY <1>9 DEF CreateManual, NoBatchRow, histories
  <2> QED BY <1>0, <2>1, AtWork
<1>10. ASSUME NEW r \in Reqs, CreateBatch(r) PROVE Open' = {}
  <2>1. [AtRest EXCEPT !.pc = "insert", !.by = "worker", !.todo = BatchOrders].pc \notin {"sync", "tell"}
    BY DEF AtRest
  <2> QED BY <1>1, <1>2, <1>10, <2>1 DEF CreateBatch, histories
<1>11. ASSUME NEW r \in Reqs, NEW o \in BatchOrders, InsertOrder(r, o) PROVE Open' = {}
  <2>1. reqs[r] \in KitchenRequest /\ reqs[r].pc = "insert"
    BY <1>0, <1>11, AtWork DEF InsertOrder
  <2>2. (IF reqs[r].todo = {o} THEN AtRest ELSE [reqs[r] EXCEPT !.todo = @ \ {o}]).pc \notin {"sync", "tell"}
    BY <2>1, IdleRequest DEF KitchenRequest
  <2>3. s # r /\ reqs'[s] = reqs[s]
    BY <1>2, <1>11, <2>2 DEF InsertOrder
  <2>4. reqs[s] # AtRest
    BY <2>3, IdleRequest
  <2> QED BY <1>11, <2>3, <2>4 DEF InsertOrder
<1>12. ASSUME NEW r \in Reqs, InsertFails(r) \/ Tell(r) \/ Fails(r) PROVE Open' = {}
  BY <1>1, <1>2, <1>12, IdleRequest DEF InsertFails, Tell, Fails, histories
<1>13. CASE UNCHANGED kitchenVars
  BY <1>1, <1>13 DEF kitchenVars, histories
<1> QED BY <1>3, <1>4, <1>5, <1>6, <1>7, <1>8, <1>9, <1>10, <1>11, <1>12, <1>13 DEF KitchenNext

\* KitchenOrders!ToldWhenReady: however requests overlap, the customer is told that the batch
\* is ready only when nothing of it is still to be prepared, unless an order was saved over a
\* later status or came to a batch under way.
THEOREM ToldWhenReadyHolds == KitchenSpec => ToldWhenReady
<1>1. KitchenInit => ReadyInv
  <2> SUFFICES ASSUME KitchenInit PROVE ReadyInv
    OBVIOUS
  <2>1. \A r \in Reqs : reqs[r].pc = "idle"
    BY IdleRequest DEF KitchenInit
  <2> QED BY <2>1, KitchenSoundInit DEF ReadyInv, ReadyStays
<1>2. ReadyInv /\ [KitchenNext]_kitchenVars => ReadyInv'
  BY ReadyStep
<1>3. ReadyInv
      /\ [KitchenNext]_kitchenVars => [readyTold' > readyTold /\ ~raced => With(batchOrders, {"PENDING", "ACCEPTED"}) = {}]_kitchenVars
  <2> SUFFICES ASSUME ReadyInv, [KitchenNext]_kitchenVars, readyTold' > readyTold, ~raced
               PROVE  With(batchOrders, {"PENDING", "ACCEPTED"}) = {}
    OBVIOUS
  <2>0. readyTold \in Nat
    BY DEF ReadyInv, KitchenSound, KitchenTypeOK
  <2>1. PICK r \in Reqs : Tell(r)
    <3>1. readyTold' # readyTold
      BY <2>0
    <3> QED BY <3>1 DEF KitchenNext, kitchenVars, StatusRead, NotesRead, InsertOrder, SaveOrder, ReadBatch,
               ReadOrders, SaveBatch, CreateManual,
               CreateBatch, InsertFails, Fails
  <2>2. reqs[r].pc = "tell"
    BY <2>1 DEF Tell
  <2>3. Reaches(r)
    BY <2>2 DEF ReadyInv, KitchenSound, WellMade
  <2> QED BY <2>2, <2>3 DEF ReadyInv, ReadyStays, Open
<1> QED BY <1>1, <1>2, <1>3, PTL DEF KitchenSpec, ToldWhenReady

---------------------------------------------------------------------------
(* the row of a batch *)

LEMMA OrderedStep ==
  ASSUME KitchenSound, MilestonesOrdered, [KitchenNext]_kitchenVars
  PROVE  MilestonesOrdered'
<1>0. Ordered(NoBatchRow) /\ Ordered([NoBatchRow EXCEPT !.status = "PENDING"])
  BY DEF Ordered, NoBatchRow
<1>1. ASSUME NEW r \in Reqs, NEW q, Becomes(r, q), Ordered(q.read), Ordered(q.row), Ordered(batch')
      PROVE  MilestonesOrdered'
  <2>1. reqs'[r] = q /\ \A s \in Reqs \ {r} : reqs'[s] = reqs[s]
    BY <1>1, ReqsStep
  <2> SUFFICES ASSUME NEW s \in Reqs PROVE Ordered(reqs[s].read)' /\ Ordered(reqs[s].row)'
    BY <1>1 DEF MilestonesOrdered, Ordered
  <2> QED BY <1>1, <2>1 DEF MilestonesOrdered, Ordered
<1>2. ASSUME NEW r \in Reqs, NEW q, Becomes(r, q), q.read = NoBatchRow, q.row = NoBatchRow, Ordered(batch')
      PROVE  MilestonesOrdered'
  BY <1>0, <1>1, <1>2
<1>3. ASSUME NEW r \in Reqs PROVE Ordered(batch) /\ Ordered(reqs[r].read) /\ Ordered(reqs[r].row)
             /\ reqs[r] \in KitchenRequest
  BY AtWork DEF MilestonesOrdered
<1>4. ASSUME NEW r \in Reqs, NEW by \in {"admin", "core"}, NEW o \in BatchOrders, NEW to \in Statuses,
             StatusRead(r, by, o, to)
      PROVE  MilestonesOrdered'
  <2>1. PICK q : q = [AtRest EXCEPT !.pc = "save", !.by = by, !.order = o, !.from = batchOrders[o], !.to = to]
    OBVIOUS
  <2>2. q.read = NoBatchRow /\ q.row = NoBatchRow
    BY <2>1 DEF AtRest
  <2> QED BY <1>2, <1>3, <1>4, <2>1, <2>2 DEF StatusRead
<1>5. ASSUME NEW r \in Reqs, NEW o \in BatchOrders, NotesRead(r, o)
      PROVE  MilestonesOrdered'
  <2>1. PICK q : q = [AtRest EXCEPT !.pc = "save", !.by = "notes", !.order = o, !.from = "PENDING", !.to = "PENDING"]
    OBVIOUS
  <2>2. q.read = NoBatchRow /\ q.row = NoBatchRow
    BY <2>1 DEF AtRest
  <2> QED BY <1>2, <1>3, <1>5, <2>1, <2>2 DEF NotesRead
<1>6. ASSUME NEW r \in Reqs, SaveOrder(r) PROVE MilestonesOrdered'
  <2>1. PICK q : q = IF reqs[r].by = "notes" THEN AtRest ELSE [reqs[r] EXCEPT !.pc = "batch"]
    OBVIOUS
  <2>2. Ordered(q.read) /\ Ordered(q.row)
    BY <1>0, <1>3, <2>1, IdleRequest DEF KitchenRequest
  <2>3. Becomes(r, q) /\ batch' = batch
    BY <1>6, <2>1 DEF SaveOrder
  <2> QED BY <1>1, <1>3, <2>2, <2>3
<1>7. ASSUME NEW r \in Reqs, ReadBatch(r) PROVE MilestonesOrdered'
  <2>1. PICK q : q = [reqs[r] EXCEPT !.pc = "orders", !.read = batch]
    OBVIOUS
  <2>2. q.read = batch /\ q.row = reqs[r].row
    BY <1>3, <2>1 DEF KitchenRequest
  <2>3. Becomes(r, q) /\ batch' = batch
    BY <1>7, <2>1 DEF ReadBatch
  <2> QED BY <1>1, <1>3, <2>2, <2>3
<1>8. ASSUME NEW r \in Reqs, ReadOrders(r) PROVE MilestonesOrdered'
  <2>1. PICK q : q = [reqs[r] EXCEPT !.pc = "sync", !.row = Synced(reqs[r].read, batchOrders)]
    OBVIOUS
  <2>2. q.read = reqs[r].read /\ q.row = Synced(reqs[r].read, batchOrders) /\ reqs[r].read \in BatchRows
    BY <1>3, <2>1 DEF KitchenRequest
  <2>3. Ordered(q.row)
    BY <1>3, <2>2, SyncedType, DeliveredWasReady DEF Ordered
  <2>4. Becomes(r, q) /\ batch' = batch
    BY <1>8, <2>1 DEF ReadOrders
  <2> QED BY <1>1, <1>3, <2>2, <2>3, <2>4
<1>9. ASSUME NEW r \in Reqs, SaveBatch(r) PROVE MilestonesOrdered'
  <2>1. PICK q : q = IF Tells(r) /\ Reaches(r) THEN [reqs[r] EXCEPT !.pc = "tell"] ELSE AtRest
    OBVIOUS
  <2>2. Ordered(q.read) /\ Ordered(q.row)
    BY <1>0, <1>3, <2>1, IdleRequest DEF KitchenRequest
  <2>3. Becomes(r, q) /\ (batch' = batch \/ batch' = reqs[r].row)
    BY <1>9, <2>1 DEF SaveBatch
  <2> QED BY <1>1, <1>3, <2>2, <2>3 DEF Ordered
<1>10. ASSUME NEW r \in Reqs, CreateManual(r) PROVE MilestonesOrdered'
  BY <1>0, <1>10 DEF CreateManual, MilestonesOrdered
<1>11. ASSUME NEW r \in Reqs, CreateBatch(r) PROVE MilestonesOrdered'
  <2>1. PICK q : q = [AtRest EXCEPT !.pc = "insert", !.by = "worker", !.todo = BatchOrders]
    OBVIOUS
  <2>2. q.read = NoBatchRow /\ q.row = NoBatchRow
    BY <2>1 DEF AtRest
  <2> QED BY <1>0, <1>2, <1>11, <2>1, <2>2 DEF CreateBatch
<1>12. ASSUME NEW r \in Reqs, NEW o \in BatchOrders, InsertOrder(r, o) PROVE MilestonesOrdered'
  <2>1. PICK q : q = IF reqs[r].todo = {o} THEN AtRest ELSE [reqs[r] EXCEPT !.todo = @ \ {o}]
    OBVIOUS
  <2>2. Ordered(q.read) /\ Ordered(q.row)
    BY <1>0, <1>3, <2>1, IdleRequest DEF KitchenRequest
  <2>3. Becomes(r, q) /\ batch' = batch
    BY <1>12, <2>1 DEF InsertOrder
  <2> QED BY <1>1, <1>3, <2>2, <2>3
<1>13. ASSUME NEW r \in Reqs, InsertFails(r) \/ Tell(r) \/ Fails(r) PROVE MilestonesOrdered'
  BY <1>2, <1>3, <1>13, IdleRequest DEF InsertFails, Tell, Fails
<1>14. CASE UNCHANGED kitchenVars
  BY <1>14 DEF kitchenVars, MilestonesOrdered, Ordered
<1> QED BY <1>4, <1>5, <1>6, <1>7, <1>8, <1>9, <1>10, <1>11, <1>12, <1>13, <1>14 DEF KitchenNext

\* Orders that all wait, or were not inserted, make a pending batch without milestones.
LEMMA PendingOnly ==
  ASSUME NEW os, \A o \in BatchOrders : os[o] \in {"NONE", "PENDING"}
  PROVE  DerivedStatus(os) = "PENDING" /\ ReachedNow(os) = {}
<1>1. DoneOrders(os) = {} /\ ActiveOrders(os) = With(os, {"PENDING"}) /\ With(os, Statuses) = With(os, {"PENDING"})
  BY DEF DoneOrders, ActiveOrders, With, Statuses, Final
<1>2. DerivedStatus(os) = "PENDING"
  BY <1>1, Derived
<1>3. With(os, {"DELIVERED"}) = {}
  BY DEF With
<1>4. ~AllActive(os, {"DELIVERED"})
  BY <1>3 DEF AllActive
<1> QED BY <1>1, <1>2, <1>4, ReachedBy DEF Milestones

\* One request syncs at most after a step in which nobody else did.
LEMMA SyncsAlone ==
  ASSUME KitchenSound, NEW r \in Reqs, NEW q, Becomes(r, q), \A s \in Reqs \ {r} : ~Syncing(s),
         q.pc \in {"orders", "sync"} => q.read = batch', q.pc = "sync" => q.row = Synced(batch, batchOrders)'
  PROVE  OneSyncs' /\ \A s \in Reqs : UpToDate(s)'
<1>1. reqs'[r] = q /\ \A s \in Reqs \ {r} : reqs'[s] = reqs[s]
  BY ReqsStep
<1>2. \A s \in Reqs \ {r} : ~Syncing(s)'
  BY <1>1 DEF Syncing
<1>3. \A s \in Reqs : UpToDate(s)'
  <2> SUFFICES ASSUME NEW s \in Reqs PROVE UpToDate(s)'
    OBVIOUS
  <2>1. CASE s = r
    BY <1>1, <2>1 DEF UpToDate
  <2>2. CASE s # r
    BY <1>2, <2>2 DEF UpToDate, Syncing
  <2> QED BY <2>1, <2>2
<1> QED BY <1>2, <1>3 DEF OneSyncs

\* Who writes nothing and does not sync afterwards leaves the others' syncs as they are.
LEMMA SyncsElsewhere ==
  ASSUME KitchenSound, Synchronous, NEW r \in Reqs, NEW q, Becomes(r, q), q.pc \notin {"batch", "orders", "sync"},
         UNCHANGED <<batchOrders, batch>>
  PROVE  OneSyncs' /\ \A s \in Reqs : UpToDate(s)'
<1>1. reqs'[r] = q /\ \A s \in Reqs \ {r} : reqs'[s] = reqs[s]
  BY ReqsStep
<1>2. OneSyncs /\ \A s \in Reqs : UpToDate(s)
  BY DEF Synchronous
<1>3. \A s \in Reqs : UpToDate(s)'
  <2> SUFFICES ASSUME NEW s \in Reqs PROVE UpToDate(s)'
    OBVIOUS
  <2>1. CASE s = r
    BY <1>1, <2>1 DEF UpToDate
  <2>2. CASE s # r
    BY <1>1, <1>2, <2>2 DEF UpToDate
  <2> QED BY <2>1, <2>2
<1>4. OneSyncs'
  BY <1>1, <1>2 DEF OneSyncs, Syncing
<1> QED BY <1>3, <1>4

\* Nobody else syncs while this one does.
LEMMA AloneSyncing ==
  ASSUME Synchronous, NEW r \in Reqs, Syncing(r)
  PROVE  \A s \in Reqs \ {r} : ~Syncing(s)
BY DEF Synchronous, OneSyncs

\* A step that writes nothing, by who neither syncs nor sends the message.
LEMMA NothingWritten ==
  ASSUME KitchenSound, Synchronous, NEW r \in Reqs, NEW q, Becomes(r, q),
         q.pc \notin {"batch", "orders", "sync", "tell"}, reqs[r].pc \notin {"batch", "orders", "sync", "tell"},
         UNCHANGED <<batchOrders, batch, readyTold, stale, raced, mute, untold>>
  PROVE  Synchronous'
<1>1. reqs'[r] = q /\ \A s \in Reqs \ {r} : reqs'[s] = reqs[s]
  BY ReqsStep
<1>2. OneSyncs' /\ \A s \in Reqs : UpToDate(s)'
  BY SyncsElsewhere
<1>3. InSync' /\ ReadySettled'
  BY DEF Synchronous, InSync, ReadySettled, Open
<1>4. \A s \in Reqs : reqs'[s].pc = "tell" => reqs[s].pc = "tell"
  BY <1>1
<1>5. Told'
  BY <1>4 DEF Synchronous, Told
<1>6. \A s \in Reqs : reqs[s].pc = "tell" \/ Telling(s) => (reqs[s].pc = "tell" \/ Telling(s))'
  BY <1>1 DEF Telling, Syncing, Tells
<1>7. LastTells'
  BY <1>6 DEF Synchronous, LastTells, AllDone
<1> QED BY <1>2, <1>3, <1>5, <1>7 DEF Synchronous

LEMMA SaveOrderSynced ==
  ASSUME KitchenSound, Synchronous, NEW r \in Reqs, SaveOrder(r), ~interleaved'
  PROVE  Synchronous'
<1> DEFINE q == reqs[r]
           o == q.order
           p == IF q.by = "notes" THEN AtRest ELSE [q EXCEPT !.pc = "batch"]
<1>1. /\ q.pc = "save" /\ UNCHANGED <<batch, readyTold, untold>> /\ Becomes(r, p)
      /\ batchOrders' = [batchOrders EXCEPT ![o] = q.to] /\ stale' = (stale \/ batchOrders[o] # q.to)
      /\ raced' = (raced \/ batchOrders[o] # q.from) /\ mute' = (mute \/ (q.by = "core" /\ q.to = "READY"))
  BY DEF SaveOrder
<1>2. \A s \in Reqs \ {r} : ~Syncing(s)
  BY DEF SaveOrder, Crosses
<1>3. q \in KitchenRequest /\ WellMade(r) /\ o \in BatchOrders /\ batchOrders \in [BatchOrders -> Statuses \cup {"NONE"}]
      /\ q.from \in Statuses \cup {"NONE"}
  BY <1>1, AtWork DEF WellMade, KitchenRequest, KitchenSound, KitchenTypeOK
<1>4. p = AtRest \/ (q.by # "notes" /\ p.pc = "batch" /\ p.by = q.by /\ p.to = q.to)
  BY <1>3 DEF KitchenRequest
<1>5. q.by # "notes" => p.pc = "batch" /\ p.by = q.by /\ p.to = q.to
  BY <1>3 DEF KitchenRequest
<1>6. p.pc \notin {"orders", "sync", "tell"}
  BY <1>4, IdleRequest
<1> HIDE DEF p
<1>7. reqs'[r] = p /\ \A s \in Reqs \ {r} : reqs'[s] = reqs[s]
  BY <1>1, ReqsStep
<1>8. OneSyncs' /\ \A s \in Reqs : UpToDate(s)'
  BY <1>1, <1>2, <1>6, SyncsAlone
<1>9. InSync'
  <2>1. ASSUME ~stale' PROVE ~stale /\ batchOrders' = batchOrders
    BY <1>1, <1>3, <2>1
  <2> QED BY <1>1, <2>1 DEF Synchronous, InSync
<1>10. Told'
  <2>1. \A s \in Reqs : reqs'[s].pc = "tell" => reqs[s].pc = "tell"
    BY <1>6, <1>7
  <2> QED BY <1>1, <2>1 DEF Synchronous, Told
<1>11. ASSUME ~raced' PROVE batchOrders[o] = q.from /\ ~raced
  BY <1>1, <1>11
<1>12. q.by # "notes" => q.from \in {"PENDING", "ACCEPTED", "READY"} /\ (q.from = "READY" => q.to = "DELIVERED")
                         /\ (q.to = "DELIVERED" => q.from = "READY") /\ q.by \in {"admin", "core"}
  BY <1>1, <1>3, Moves DEF WellMade
<1>13. q.by = "notes" => q.from = "PENDING" /\ q.to = "PENDING"
  BY <1>1, <1>3 DEF WellMade, ValidTransitions
<1>14. ReadySettled'
  <2> SUFFICES ASSUME ~raced', "ready" \in batch.reached PROVE Open' = {} /\ With(batchOrders', Statuses) # {}
    BY <1>1 DEF ReadySettled
  <2>1. Open = {} /\ batchOrders[o] = q.from
    BY <1>11 DEF Synchronous, ReadySettled
  <2>2. q.from \notin {"PENDING", "ACCEPTED"}
    BY <1>3, <2>1 DEF Open, With
  <2>3. q.to = "DELIVERED"
    BY <1>12, <1>13, <2>2
  <2>4. batchOrders'[o] = "DELIVERED" /\ \A i \in BatchOrders \ {o} : batchOrders'[i] = batchOrders[i]
    BY <1>1, <1>3, <2>3
  <2> QED BY <1>3, <2>1, <2>4 DEF Open, With, Statuses, Final
<1>15. LastTells'
  <2> SUFFICES ASSUME ~raced', ~mute', ~untold, AllDone'
               PROVE  readyTold = 1 \/ \E s \in Reqs : (reqs[s].pc = "tell" \/ Telling(s))'
    BY <1>1 DEF LastTells
  <2>1. batchOrders[o] = q.from /\ ~raced /\ ~mute /\ ~(q.by = "core" /\ q.to = "READY")
    BY <1>1, <1>11
  <2>2. q.to \in {"READY", "DELIVERED"} /\ \A i \in BatchOrders \ {o} : batchOrders[i] \in {"READY", "DELIVERED"}
    BY <1>1, <1>3 DEF AllDone
  <2>3. CASE q.to = "DELIVERED"
    <3>1. q.from = "READY"
      BY <1>12, <1>13, <2>3
    <3>2. AllDone
      BY <1>3, <2>1, <2>2, <3>1 DEF AllDone
    <3>3. readyTold = 1 \/ \E s \in Reqs : reqs[s].pc = "tell" \/ Telling(s)
      BY <2>1, <3>2 DEF Synchronous, LastTells
    <3>4. \A s \in Reqs : ~Telling(s) /\ (reqs[s].pc = "tell" => s # r)
      BY <1>1, <1>2 DEF Telling, Syncing
    <3> QED BY <1>7, <3>3, <3>4
  <2>4. CASE q.to = "READY"
    <3>1. q.by # "notes" /\ q.from # "READY" /\ q.by = "admin"
      BY <1>12, <1>13, <2>1, <2>4
    <3>2. q.from \in {"PENDING", "ACCEPTED"}
      BY <1>12, <3>1
    <3>3. "ready" \notin batch.reached
      BY <1>3, <2>1, <3>2 DEF Synchronous, ReadySettled, Open, With
    <3>4. p.pc = "batch" /\ p.by = "admin" /\ p.to = "READY"
      BY <1>5, <2>4, <3>1
    <3>5. Telling(r)'
      BY <1>1, <1>7, <3>3, <3>4 DEF Telling, Syncing, Tells
    <3> QED BY <3>5
  <2> QED BY <2>2, <2>3, <2>4
<1> QED BY <1>8, <1>9, <1>10, <1>14, <1>15 DEF Synchronous

\* A request that reads goes on syncing.
LEMMA ReadSynced ==
  ASSUME KitchenSound, Synchronous, NEW r \in Reqs, NEW q, Becomes(r, q), Syncing(r), q.pc \in {"orders", "sync"},
         q.by = reqs[r].by, q.to = reqs[r].to, q.read = batch, q.pc = "sync" => q.row = Synced(batch, batchOrders),
         UNCHANGED <<batchOrders, batch, readyTold, stale, raced, mute, untold>>
  PROVE  Synchronous'
<1>1. reqs'[r] = q /\ \A s \in Reqs \ {r} : reqs'[s] = reqs[s]
  BY ReqsStep
<1>2. OneSyncs' /\ \A s \in Reqs : UpToDate(s)'
  BY AloneSyncing, SyncsAlone
<1>3. InSync' /\ ReadySettled'
  BY DEF Synchronous, InSync, ReadySettled, Open
<1>4. \A s \in Reqs : reqs'[s].pc = "tell" <=> reqs[s].pc = "tell"
  BY <1>1 DEF Syncing
<1>5. Told'
  BY <1>4 DEF Synchronous, Told
<1>6. \A s \in Reqs : Telling(s) => Telling(s)'
  BY <1>1 DEF Telling, Syncing, Tells
<1>7. LastTells'
  BY <1>4, <1>6 DEF Synchronous, LastTells, AllDone
<1> QED BY <1>2, <1>3, <1>5, <1>7 DEF Synchronous

LEMMA SaveBatchSynced ==
  ASSUME KitchenSound, Synchronous, NEW r \in Reqs, SaveBatch(r)
  PROVE  Synchronous'
<1> DEFINE q == reqs[r]
           p == IF Tells(r) /\ Reaches(r) THEN [q EXCEPT !.pc = "tell"] ELSE AtRest
<1>1. /\ q.pc = "sync" /\ UNCHANGED <<batchOrders, readyTold, raced, mute, untold>> /\ Becomes(r, p)
      /\ batch' = IF q.row # q.read THEN q.row ELSE batch
  BY DEF SaveBatch
<1>2. q \in KitchenRequest /\ WellMade(r) /\ batch \in BatchRows
  BY AtWork DEF KitchenSound, KitchenTypeOK
<1>3. Syncing(r) /\ \A s \in Reqs \ {r} : ~Syncing(s)
  BY <1>1, AloneSyncing DEF Syncing
<1>4. q.read = batch /\ q.row = Synced(batch, batchOrders)
  BY <1>1 DEF Synchronous, UpToDate
<1>5. batch' = Synced(batch, batchOrders)
  BY <1>1, <1>4
<1>6. batch'.status = DerivedStatus(batchOrders) /\ batch'.reached = batch.reached \cup ReachedNow(batchOrders)
  BY <1>2, <1>5, SyncedType
<1>7. Reaches(r) <=> "ready" \in ReachedNow(batchOrders) /\ "ready" \notin batch.reached
  <2>1. q.row.reached = batch.reached \cup ReachedNow(batchOrders)
    BY <1>2, <1>4, SyncedType
  <2> QED BY <1>4, <2>1 DEF Reaches
<1>8. /\ Tells(r) /\ Reaches(r) => p.pc = "tell"
      /\ ~(Tells(r) /\ Reaches(r)) => p = AtRest
      /\ p.pc \notin {"batch", "orders", "sync"}
      /\ p.pc = "tell" => Tells(r) /\ Reaches(r)
  BY <1>2, IdleRequest DEF KitchenRequest
<1> HIDE DEF p
<1>9. reqs'[r] = p /\ \A s \in Reqs \ {r} : reqs'[s] = reqs[s]
  BY <1>1, ReqsStep
<1>10. OneSyncs' /\ \A s \in Reqs : UpToDate(s)'
  BY <1>1, <1>3, <1>8, SyncsAlone
<1>11. InSync'
  BY <1>1, <1>6 DEF InSync
<1>12. Told'
  <2>1. CASE Tells(r) /\ Reaches(r)
    <3>1. readyTold = 0 /\ \A s \in Reqs : reqs[s].pc # "tell"
      BY <1>7, <2>1 DEF Synchronous, Told
    <3>2. "ready" \in batch'.reached
      BY <1>6, <1>7, <2>1
    <3>3. \A s \in Reqs : reqs'[s].pc = "tell" => s = r
      BY <1>9, <3>1
    <3> QED BY <1>1, <3>1, <3>2, <3>3 DEF Told
  <2>2. CASE ~(Tells(r) /\ Reaches(r))
    <3>1. \A s \in Reqs : reqs'[s].pc = "tell" => reqs[s].pc = "tell"
      BY <1>8, <1>9, <2>2, IdleRequest
    <3> QED BY <1>1, <1>6, <3>1 DEF Synchronous, Told
  <2> QED BY <2>1, <2>2
<1>13. ReadySettled'
  <2> SUFFICES ASSUME ~raced, "ready" \in batch'.reached PROVE Open' = {} /\ With(batchOrders', Statuses) # {}
    BY <1>1 DEF ReadySettled
  <2>1. CASE "ready" \in batch.reached
    BY <1>1, <2>1 DEF Synchronous, ReadySettled, Open
  <2>2. CASE "ready" \in ReachedNow(batchOrders)
    <3>1. ActiveOrders(batchOrders) # {} /\ ActiveOrders(batchOrders) \subseteq With(batchOrders, Statuses)
      BY <2>2, ReachedBy DEF ActiveOrders, With
    <3> QED BY <1>1, <2>2, <3>1, ReadyIsDone DEF Open
  <2> QED BY <1>6, <2>1, <2>2
<1>14. LastTells'
  <2> SUFFICES ASSUME ~raced, ~mute, ~untold, AllDone
               PROVE  readyTold = 1 \/ \E s \in Reqs : reqs'[s].pc = "tell"
    BY <1>1 DEF LastTells, AllDone
  <2>1. readyTold = 1 \/ \E s \in Reqs : reqs[s].pc = "tell" \/ Telling(s)
    BY DEF Synchronous, LastTells
  <2>2. ASSUME NEW s \in Reqs, reqs[s].pc = "tell" PROVE reqs'[s].pc = "tell"
    BY <1>1, <1>9, <2>2
  <2>3. ASSUME NEW s \in Reqs, Telling(s) PROVE reqs'[r].pc = "tell"
    <3>1. s = r /\ Tells(r) /\ "ready" \notin batch.reached
      BY <1>3, <2>3 DEF Telling
    <3>2. ActiveOrders(batchOrders) = BatchOrders /\ DoneOrders(batchOrders) = BatchOrders /\ BatchOrders # {}
      BY DEF AllDone, ActiveOrders, DoneOrders, With, Statuses, Final
    <3>3. "ready" \in ReachedNow(batchOrders)
      BY <3>2, ReachedBy
    <3> QED BY <1>7, <1>8, <1>9, <3>1, <3>3
  <2> QED BY <2>1, <2>2, <2>3
<1> QED BY <1>10, <1>11, <1>12, <1>13, <1>14 DEF Synchronous

LEMMA TellSynced ==
  ASSUME KitchenSound, Synchronous, NEW r \in Reqs, Tell(r)
  PROVE  Synchronous'
<1>1. /\ reqs[r].pc = "tell" /\ readyTold' = readyTold + 1 /\ Becomes(r, AtRest)
      /\ UNCHANGED <<batchOrders, batch, stale, raced, mute, untold>>
  BY DEF Tell, histories
<1>2. reqs'[r] = AtRest /\ \A s \in Reqs \ {r} : reqs'[s] = reqs[s]
  BY <1>1, ReqsStep
<1>3. OneSyncs' /\ \A s \in Reqs : UpToDate(s)'
  BY <1>1, IdleRequest, SyncsElsewhere
<1>4. InSync' /\ ReadySettled'
  BY <1>1 DEF Synchronous, InSync, ReadySettled, Open
<1>5. readyTold = 0 /\ "ready" \in batch.reached /\ \A s \in Reqs \ {r} : reqs[s].pc # "tell"
  BY <1>1 DEF Synchronous, Told
<1>6. readyTold' = 1 /\ \A s \in Reqs : reqs'[s].pc # "tell"
  BY <1>1, <1>2, <1>5, IdleRequest
<1>7. Told' /\ LastTells'
  BY <1>1, <1>5, <1>6 DEF Told, LastTells
<1> QED BY <1>3, <1>4, <1>7 DEF Synchronous

LEMMA FailsSynced ==
  ASSUME KitchenSound, Synchronous, NEW r \in Reqs, Fails(r)
  PROVE  Synchronous'
<1>1. /\ Becomes(r, AtRest) /\ UNCHANGED <<batchOrders, batch, readyTold, stale, raced, mute>>
      /\ reqs[r].pc \in {"save", "batch", "orders", "sync", "tell"}
      /\ untold' = (untold \/ (Tells(r) /\ reqs[r].pc # "save" /\ Open = {}))
  BY DEF Fails, Open
<1>2. reqs'[r] = AtRest /\ \A s \in Reqs \ {r} : reqs'[s] = reqs[s]
  BY <1>1, ReqsStep
<1>3. OneSyncs' /\ \A s \in Reqs : UpToDate(s)'
  BY <1>1, IdleRequest, SyncsElsewhere
<1>4. InSync' /\ ReadySettled'
  BY <1>1 DEF Synchronous, InSync, ReadySettled, Open
<1>5. \A s \in Reqs : reqs'[s].pc = "tell" => reqs[s].pc = "tell"
  BY <1>2, IdleRequest
<1>6. Told'
  BY <1>1, <1>5 DEF Synchronous, Told
<1>7. LastTells'
  <2> SUFFICES ASSUME ~raced, ~mute, ~untold', AllDone
               PROVE  readyTold = 1 \/ \E s \in Reqs : (reqs[s].pc = "tell" \/ Telling(s))'
    BY <1>1 DEF LastTells, AllDone
  <2>1. readyTold = 1 \/ \E s \in Reqs : reqs[s].pc = "tell" \/ Telling(s)
    BY <1>1 DEF Synchronous, LastTells
  <2>2. Open = {}
    BY DEF AllDone, Open, With
  <2>3. ASSUME NEW s \in Reqs, reqs[s].pc = "tell" \/ Telling(s) PROVE (reqs[s].pc = "tell" \/ Telling(s))'
    <3>1. Tells(s) /\ reqs[s].pc # "save"
      BY <2>3 DEF Telling, Syncing, KitchenSound, WellMade
    <3>2. s # r
      BY <1>1, <2>2, <3>1
    <3> QED BY <1>1, <1>2, <2>3, <3>2 DEF Telling, Syncing, Tells
  <2> QED BY <2>1, <2>3
<1> QED BY <1>3, <1>4, <1>6, <1>7 DEF Synchronous

\* A batch that is created: all its orders are pending, or still to be inserted.
LEMMA CreatedSynced ==
  ASSUME KitchenSound, Synchronous, batch = NoBatchRow, batch' = [NoBatchRow EXCEPT !.status = "PENDING"],
         \A o \in BatchOrders : batchOrders'[o] \in {"NONE", "PENDING"},
         \A s \in Reqs : reqs'[s].pc \in {"idle", "insert"}, UNCHANGED readyTold
  PROVE  Synchronous'
<1>1. batch'.status = "PENDING" /\ batch'.reached = {} /\ batch.reached = {}
  BY DEF NoBatchRow
<1>2. OneSyncs' /\ \A s \in Reqs : UpToDate(s)'
  BY DEF OneSyncs, UpToDate, Syncing
<1>3. InSync'
  BY <1>1, PendingOnly DEF InSync
<1>4. Told' /\ ReadySettled'
  BY <1>1 DEF Synchronous, Told, ReadySettled
<1>5. LastTells'
  BY DEF LastTells, AllDone
<1> QED BY <1>2, <1>3, <1>4, <1>5 DEF Synchronous

LEMMA InsertSynced ==
  ASSUME KitchenSound, Synchronous, NEW r \in Reqs, NEW o \in BatchOrders, InsertOrder(r, o), ~interleaved'
  PROVE  Synchronous'
<1> DEFINE p == IF reqs[r].todo = {o} THEN AtRest ELSE [reqs[r] EXCEPT !.todo = @ \ {o}]
<1>1. /\ UNCHANGED <<batch, readyTold, mute, untold>> /\ Becomes(r, p) /\ reqs[r].pc = "insert"
      /\ batchOrders' = [batchOrders EXCEPT ![o] = "PENDING"] /\ stale' = (stale \/ With(batchOrders, Statuses \ {"PENDING"}) # {})
      /\ (~raced' => With(batchOrders, Statuses \ {"PENDING"}) = {})
  BY DEF InsertOrder
<1>2. \A s \in Reqs \ {r} : ~Syncing(s)
  BY DEF InsertOrder, Crosses
<1>3. batchOrders \in [BatchOrders -> Statuses \cup {"NONE"}] /\ reqs[r] \in KitchenRequest
  BY AtWork DEF KitchenSound, KitchenTypeOK
<1>4. p.pc \in {"idle", "insert"}
  BY <1>1, <1>3, IdleRequest DEF KitchenRequest
<1> HIDE DEF p
<1>5. reqs'[r] = p /\ \A s \in Reqs \ {r} : reqs'[s] = reqs[s]
  BY <1>1, ReqsStep
<1>6. OneSyncs' /\ \A s \in Reqs : UpToDate(s)'
  BY <1>1, <1>2, <1>4, SyncsAlone
<1>7. ASSUME With(batchOrders, Statuses \ {"PENDING"}) = {}
      PROVE  /\ \A i \in BatchOrders : batchOrders[i] \in {"NONE", "PENDING"}
             /\ \A i \in BatchOrders : batchOrders'[i] \in {"NONE", "PENDING"}
  BY <1>1, <1>3, <1>7 DEF With, Statuses, Final
<1>8. InSync'
  <2> SUFFICES ASSUME ~stale', batch.status # "NONE", BatchOrders # {}
               PROVE  batch.status = DerivedStatus(batchOrders)' /\ ReachedNow(batchOrders)' \subseteq batch.reached
    BY <1>1 DEF InSync
  <2>1. ~stale /\ With(batchOrders, Statuses \ {"PENDING"}) = {}
    BY <1>1
  <2>2. DerivedStatus(batchOrders) = "PENDING"
    BY <1>7, <2>1, PendingOnly
  <2>3. DerivedStatus(batchOrders') = "PENDING" /\ ReachedNow(batchOrders') = {}
    BY <1>7, <2>1, PendingOnly
  <2>4. batch.status = "PENDING"
    BY <2>1, <2>2 DEF Synchronous, InSync
  <2> QED BY <2>3, <2>4
<1>9. Told'
  <2>1. \A s \in Reqs : reqs'[s].pc = "tell" => reqs[s].pc = "tell"
    BY <1>4, <1>5
  <2> QED BY <1>1, <2>1 DEF Synchronous, Told
<1>10. LastTells'
  BY <1>1, <1>3 DEF LastTells, AllDone
<1>11. ReadySettled'
  <2> SUFFICES ASSUME ~raced', "ready" \in batch.reached PROVE FALSE
    BY <1>1 DEF ReadySettled
  <2>1. ~raced /\ With(batchOrders, Statuses \ {"PENDING"}) = {}
    BY <1>1 DEF InsertOrder
  <2>2. Open = {} /\ With(batchOrders, Statuses) # {}
    BY <2>1 DEF Synchronous, ReadySettled
  <2> QED BY <1>3, <1>7, <2>1, <2>2 DEF Open, With, Statuses
<1> QED BY <1>6, <1>8, <1>9, <1>10, <1>11 DEF Synchronous

LEMMA SyncedStep ==
  ASSUME SyncedInv, [KitchenNext]_kitchenVars
  PROVE  SyncedInv'
<1>0. KitchenSound /\ KitchenSound' /\ MilestonesOrdered'
  BY KitchenStep, OrderedStep DEF SyncedInv
<1> SUFFICES ASSUME ~interleaved' PROVE Synchronous'
  BY <1>0 DEF SyncedInv
<1>1. ~interleaved => Synchronous
  BY DEF SyncedInv
<1>2. ASSUME NEW r \in Reqs, NEW by \in {"admin", "core"}, NEW o \in BatchOrders, NEW to \in Statuses,
             StatusRead(r, by, o, to)
      PROVE  Synchronous'
  <2>1. PICK q : q = [AtRest EXCEPT !.pc = "save", !.by = by, !.order = o, !.from = batchOrders[o], !.to = to]
    OBVIOUS
  <2>2. q.pc = "save" /\ reqs[r].pc = "idle"
    BY <1>2, <2>1, IdleRequest DEF AtRest, StatusRead, Begins
  <2>3. Becomes(r, q) /\ UNCHANGED <<batchOrders, batch, readyTold, stale, interleaved, raced, mute, untold>>
    BY <1>2, <2>1 DEF StatusRead, histories
  <2> QED BY <1>0, <1>1, <2>2, <2>3, NothingWritten
<1>3. ASSUME NEW r \in Reqs, NEW o \in BatchOrders, NotesRead(r, o)
      PROVE  Synchronous'
  <2>1. PICK q : q = [AtRest EXCEPT !.pc = "save", !.by = "notes", !.order = o, !.from = "PENDING", !.to = "PENDING"]
    OBVIOUS
  <2>2. q.pc = "save" /\ reqs[r].pc = "idle"
    BY <1>3, <2>1, IdleRequest DEF AtRest, NotesRead, Begins
  <2>3. Becomes(r, q) /\ UNCHANGED <<batchOrders, batch, readyTold, stale, interleaved, raced, mute, untold>>
    BY <1>3, <2>1 DEF NotesRead, histories
  <2> QED BY <1>0, <1>1, <2>2, <2>3, NothingWritten
<1>4. ASSUME NEW r \in Reqs, SaveOrder(r) PROVE Synchronous'
  <2>1. ~interleaved
    BY <1>4 DEF SaveOrder
  <2> QED BY <1>0, <1>1, <1>4, <2>1, SaveOrderSynced
<1>5. ASSUME NEW r \in Reqs, ReadBatch(r) PROVE Synchronous'
  <2>1. PICK q : q = [reqs[r] EXCEPT !.pc = "orders", !.read = batch]
    OBVIOUS
  <2>2. reqs[r] \in KitchenRequest /\ Syncing(r)
    BY <1>0, <1>5, AtWork DEF ReadBatch, Syncing
  <2>3. q.pc = "orders" /\ q.by = reqs[r].by /\ q.to = reqs[r].to /\ q.read = batch
    BY <2>1, <2>2 DEF KitchenRequest
  <2>4. Becomes(r, q) /\ UNCHANGED <<batchOrders, batch, readyTold, stale, interleaved, raced, mute, untold>>
    BY <1>5, <2>1 DEF ReadBatch, histories
  <2> QED BY <1>0, <1>1, <2>2, <2>3, <2>4, ReadSynced
<1>6. ASSUME NEW r \in Reqs, ReadOrders(r) PROVE Synchronous'
  <2>1. PICK q : q = [reqs[r] EXCEPT !.pc = "sync", !.row = Synced(reqs[r].read, batchOrders)]
    OBVIOUS
  <2>2. reqs[r] \in KitchenRequest /\ Syncing(r) /\ reqs[r].pc = "orders"
    BY <1>0, <1>6, AtWork DEF ReadOrders, Syncing
  <2>3. Becomes(r, q) /\ UNCHANGED <<batchOrders, batch, readyTold, stale, interleaved, raced, mute, untold>>
    BY <1>6, <2>1 DEF ReadOrders, histories
  <2>4. reqs[r].read = batch
    BY <1>1, <2>2, <2>3 DEF Synchronous, UpToDate
  <2>5. q.pc = "sync" /\ q.by = reqs[r].by /\ q.to = reqs[r].to /\ q.read = batch
        /\ q.row = Synced(batch, batchOrders)
    BY <2>1, <2>2, <2>4 DEF KitchenRequest
  <2> QED BY <1>0, <1>1, <2>2, <2>3, <2>5, ReadSynced
<1>7. ASSUME NEW r \in Reqs, SaveBatch(r) PROVE Synchronous'
  <2>1. ~interleaved
    BY <1>7 DEF SaveBatch
  <2> QED BY <1>0, <1>1, <1>7, <2>1, SaveBatchSynced
<1>8. ASSUME NEW r \in Reqs, Tell(r) \/ Fails(r) PROVE Synchronous'
  <2>1. ~interleaved
    BY <1>8 DEF Tell, Fails, histories
  <2> QED BY <1>0, <1>1, <1>8, <2>1, TellSynced, FailsSynced
<1>9. ASSUME NEW r \in Reqs, CreateManual(r) PROVE Synchronous'
  <2>1. /\ UNCHANGED <<reqs, readyTold, interleaved>> /\ batch = NoBatchRow
        /\ batch' = [NoBatchRow EXCEPT !.status = "PENDING"] /\ batchOrders' = [o \in BatchOrders |-> "PENDING"]
    BY <1>9 DEF CreateManual, histories
  <2>2. \A s \in Reqs : reqs'[s].pc = "idle"
    BY <1>0, <2>1, IdleRequest DEF KitchenSound, NotBegun, Quiet, NoBatchRow
  <2> QED BY <1>0, <1>1, <2>1, <2>2, CreatedSynced
<1>10. ASSUME NEW r \in Reqs, CreateBatch(r) PROVE Synchronous'
  <2>1. PICK q : q = [AtRest EXCEPT !.pc = "insert", !.by = "worker", !.todo = BatchOrders]
    OBVIOUS
  <2>2. /\ UNCHANGED <<batchOrders, readyTold, interleaved>> /\ Becomes(r, q) /\ batch = NoBatchRow
        /\ batch' = [NoBatchRow EXCEPT !.status = "PENDING"]
    BY <1>10, <2>1 DEF CreateBatch, histories
  <2>3. q.pc = "insert"
    BY <2>1 DEF AtRest
  <2>4. Quiet /\ \A o \in BatchOrders : batchOrders[o] = "NONE"
    BY <1>0, <2>2 DEF KitchenSound, NotBegun, NoBatchRow
  <2>5. \A s \in Reqs : reqs'[s].pc \in {"idle", "insert"}
    BY <1>0, <2>2, <2>3, <2>4, ReqsStep, IdleRequest DEF Quiet
  <2> QED BY <1>0, <1>1, <2>2, <2>4, <2>5, CreatedSynced
<1>11. ASSUME NEW r \in Reqs, NEW o \in BatchOrders, InsertOrder(r, o) PROVE Synchronous'
  <2>1. ~interleaved
    BY <1>11 DEF InsertOrder
  <2> QED BY <1>0, <1>1, <1>11, <2>1, InsertSynced
<1>12. ASSUME NEW r \in Reqs, InsertFails(r) PROVE Synchronous'
  <2>1. Becomes(r, AtRest) /\ UNCHANGED <<batchOrders, batch, readyTold, stale, interleaved, raced, mute, untold>>
        /\ reqs[r].pc = "insert"
    BY <1>12 DEF InsertFails, histories
  <2> QED BY <1>0, <1>1, <2>1, IdleRequest, NothingWritten
<1>13. CASE UNCHANGED kitchenVars
  BY <1>1, <1>13 DEF kitchenVars, histories, Synchronous, OneSyncs, UpToDate, InSync, Told, ReadySettled, LastTells,
     AllDone, Telling, Syncing, Tells, Open
<1> QED BY <1>2, <1>3, <1>4, <1>5, <1>6, <1>7, <1>8, <1>9, <1>10, <1>11, <1>12, <1>13 DEF KitchenNext

LEMMA SyncedInit == KitchenInit => SyncedInv
<1> SUFFICES ASSUME KitchenInit PROVE SyncedInv
  OBVIOUS
<1>1. PICK s \in {"NONE", "PENDING", "ACCEPTED"} :
        /\ batchOrders = [o \in BatchOrders |-> s]
        /\ batch = [status |-> s, reached |-> IF s = "ACCEPTED" THEN {"accepted"} ELSE {}]
  BY DEF KitchenInit
<1>2. (\A r \in Reqs : reqs[r] = AtRest) /\ readyTold = 0
  BY DEF KitchenInit
<1>3. InSync
  <2>1. CASE s = "NONE"
    BY <1>1, <2>1 DEF InSync
  <2>2. CASE s = "PENDING"
    BY <1>1, <2>2, PendingOnly DEF InSync
  <2>3. CASE s = "ACCEPTED"
    <3>1. /\ DoneOrders(batchOrders) = {} /\ With(batchOrders, {"PENDING"}) = {}
          /\ ActiveOrders(batchOrders) = BatchOrders /\ With(batchOrders, Statuses) = BatchOrders
             /\ With(batchOrders, {"DELIVERED"}) = {}
      BY <1>1, <2>3 DEF DoneOrders, With, ActiveOrders, Statuses, Final
    <3>2. BatchOrders # {} => ~AllActive(batchOrders, {"DELIVERED"})
      BY <3>1 DEF AllActive
    <3> QED BY <1>1, <2>3, <3>1, <3>2, Derived, ReachedBy DEF InSync, Milestones
  <2> QED BY <2>1, <2>2, <2>3
<1>4. Told /\ Ordered(batch) /\ ReadySettled
  BY <1>1, <1>2, IdleRequest DEF Told, Ordered, ReadySettled
<1>5. MilestonesOrdered
  BY <1>2, <1>4, IdleRequest DEF MilestonesOrdered, Ordered, NoBatchRow
<1>6. OneSyncs /\ \A r \in Reqs : UpToDate(r)
  BY <1>2, IdleRequest DEF OneSyncs, UpToDate, Syncing
<1>7. LastTells
  BY <1>1 DEF LastTells, AllDone
<1> QED BY <1>3, <1>4, <1>5, <1>6, <1>7, KitchenSoundInit DEF SyncedInv, Synchronous

\* KitchenOrders!SyncedBatchTrue: the row of a batch says what its orders are, whatever requests
\* failed half-way before the last that came to its end, if no order was written during another
\* request's sync; and the customer is told once that everything is ready, unless the request
\* that made the last order ready failed.
THEOREM SyncedBatchTrueHolds == KitchenSpec => []SyncedBatchTrue
<1>1. SyncedInv => SyncedBatchTrue
  <2> SUFFICES ASSUME SyncedInv, Quiet, ~interleaved, With(batchOrders, Statuses) # {} PROVE SyncedBatchTrue
    BY DEF SyncedBatchTrue
  <2> DEFINE live == ActiveOrders(batchOrders)
             done == With(batchOrders, {"READY", "DELIVERED"})
  <2>1. /\ Told /\ Ordered(batch) /\ batchOrders \in [BatchOrders -> Statuses \cup {"NONE"}] /\ InSync /\ LastTells
        /\ NotBegun
    BY DEF SyncedInv, Synchronous, MilestonesOrdered, KitchenSound, KitchenTypeOK
  <2>2. done = DoneOrders(batchOrders) /\ done \subseteq live
    BY DEF DoneOrders, With, ActiveOrders, Statuses, Final
  <2>3. AllActive(batchOrders, {"DELIVERED"}) <=> live # {} /\ \A o \in live : batchOrders[o] = "DELIVERED"
    BY DEF AllActive, With, ActiveOrders
  <2>4. /\ (live # {} /\ \A o \in live : batchOrders[o] = "DELIVERED") => done = live
        /\ live # {} /\ done = live
             => ((\E o \in live : batchOrders[o] = "READY") <=> ~(\A o \in live : batchOrders[o] = "DELIVERED"))
    <3>1. \A o \in done : o \in live /\ (batchOrders[o] = "READY" \/ batchOrders[o] = "DELIVERED")
      BY <2>2 DEF With
    <3>2. \A o \in live : batchOrders[o] = "DELIVERED" => o \in done
      BY DEF With, ActiveOrders
    <3> HIDE DEF live, done
    <3>3. "READY" # "DELIVERED"
      OBVIOUS
    <3> QED BY <2>2, <3>1, <3>2, <3>3
  <2>5. ASSUME ~stale
        PROVE  /\ (batch.status = "CANCELED") <=> (live = {})
               /\ (batch.status = "DELIVERED") <=> (live # {} /\ \A o \in live : batchOrders[o] = "DELIVERED")
               /\ (batch.status = "READY_PARTIAL") <=> (done # {} /\ done # live)
               /\ (batch.status = "READY") <=> (live # {} /\ done = live /\ \E o \in live : batchOrders[o] = "READY")
    <3>1. \/ live = {}
          \/ AllActive(batchOrders, {"DELIVERED"})
          \/ ~AllActive(batchOrders, {"DELIVERED"}) /\ live # {} /\ done = live
          \/ done # {} /\ done # live
          \/ live # {} /\ done = {} /\ With(batchOrders, {"PENDING"}) = {}
          \/ live # {} /\ done = {} /\ With(batchOrders, {"PENDING"}) # {}
      BY <2>2
    <3>2. batch.status # "NONE" /\ BatchOrders # {}
      BY <2>1 DEF NotBegun, With, Statuses, Final
    <3>3. batch.status = DerivedStatus(batchOrders)
      BY <2>1, <2>5, <3>2 DEF InSync
    <3> HIDE DEF live, done
    <3> QED BY <2>2, <2>3, <2>4, <3>1, <3>3, Derived DEF live
  <2>6. readyTold <= 1 /\ ("delivered" \in batch.reached => "ready" \in batch.reached)
    BY <2>1 DEF Told, Ordered
  <2>7. ASSUME done = BatchOrders, ~mute, ~raced, ~untold PROVE readyTold = 1
    <3>1. AllDone
      BY <2>7 DEF AllDone, With
    <3>2. \A r \in Reqs : reqs[r].pc # "tell" /\ ~Telling(r)
      BY IdleRequest DEF Quiet, Telling, Syncing
    <3> QED BY <2>1, <2>7, <3>1, <3>2 DEF LastTells
  <2> QED BY <2>5, <2>6, <2>7 DEF SyncedBatchTrue
<1>2. SyncedInv /\ [KitchenNext]_kitchenVars => SyncedInv'
  BY SyncedStep
<1> QED BY <1>1, <1>2, SyncedInit, PTL DEF KitchenSpec

---------------------------------------------------------------------------
(* StaffAccounts: users, and the requests that carry a copy of a row *)

Operations == {"login", "create", "role", "email", "status", "reset", "change", "found", "admin"}
UserRow == [email : Emails, role : Roles, active : BOOLEAN, pass : Nat, restaurant : Restaurants]
AccountsRequest == [op : Operations, at : {"load", "hash", "count", "save"}, by : Users \cup {Support}, role : Roles,
            of : Users, to : Emails \cup Roles \cup BOOLEAN \cup Nat, row : UserRow \cup {None}]

AccountsTypeOK ==
  /\ users \in [Users -> UserRow \cup {None}]
  /\ restaurants \subseteq Restaurants
  /\ desk \in [Desks -> AccountsRequest \cup {NoRequest}]
  /\ lastPassword \in Nat
  /\ crossed \in BOOLEAN
  /\ dismissed \subseteq Users
  /\ replaced \in [Users -> SUBSET Nat]

\* What a request asks for fits its operation; from the check on it carries a row.
WellAsked(d) ==
  /\ d.op \in {"login", "create", "found"} => d.at = "save"
  /\ d.op = "admin" => d.at \in {"hash", "save"}
  /\ d.at = "hash" => d.op \in {"reset", "change", "admin"}
  /\ d.at = "count" => d.op \in {"role", "status"}
  /\ d.op = "role" => d.to \in Roles
  /\ d.op = "email" => d.to \in Emails
  /\ d.op = "status" => d.to \in BOOLEAN
  /\ d.at # "load" => d.row \in UserRow

\* Two requests are about one user only when there is a row, and a request that
\* inserts one finds none.
NewAlone(h) ==
  LET u == desk[h].of
  IN /\ desk[h].op \in {"create", "found"} => users[u] = None
     /\ users[u] = None => desk[h].at = "save" /\ ~OthersOn(h, u)

AccountsSound ==
  /\ AccountsTypeOK
  /\ \A h \in Desks : desk[h] # NoRequest => WellAsked(desk[h]) /\ NewAlone(h)

\* Role, activity and restaurant of the row a request will save are those of the
\* table, but for what it was asked to change.
Fresh(h) ==
  LET d == desk[h]
      row == users[d.of]
  IN d.at # "load" /\ row # None =>
       /\ d.row.restaurant = row.restaurant
       /\ IF d.op = "role" THEN d.row.role = d.to ELSE d.row.role = row.role
       /\ IF d.op = "status" THEN d.row.active = d.to ELSE d.row.active = row.active

IsAdmin(row) == row.role = "ADMIN" /\ row.active

\* A request that takes an administrator away is the only one of its kind, and
\* when it comes to save, another administrator is there.
LeavesAnother(h) ==
  LET d == desk[h]
      row == users[d.of]
  IN TakesAdminAway(d) =>
       /\ \A k \in Desks : TakesAdminAway(desk[k]) => k = h
       /\ d.at = "save" /\ IsAdmin(row) /\ ~IsAdmin(d.row) => ActiveAdmins(row.restaurant) \ {d.of} # {}

AdminInv == AccountsSound /\ (~crossed => \A h \in Desks : desk[h] # NoRequest => Fresh(h) /\ LeavesAnother(h))

\* Nobody who was dismissed is active, and no request will activate one unless it was asked to.
DismissedAway ==
  \A u \in dismissed :
    /\ users[u] # None /\ ~users[u].active
    /\ \A h \in Desks : IsAbout(h, u) /\ desk[h].at # "load" /\ desk[h].op # "status" => ~desk[h].row.active

\* No row has a replaced password, in the table or at a desk.
ReplacedGone ==
  \A u \in Users :
    /\ replaced[u] \subseteq 1..lastPassword
    /\ users[u] = None => replaced[u] = {}
    /\ users[u] # None => users[u].pass \in 1..lastPassword \ replaced[u]
    /\ \A h \in Desks : IsAbout(h, u) /\ desk[h].at # "load" => desk[h].row.pass \in 1..lastPassword \ replaced[u]

RevokeInv == AccountsSound /\ DismissedAway /\ ReplacedGone /\ lastPassword # 0

---------------------------------------------------------------------------
(* what a step does to the requests *)

\* A request is put on a free desk; what it carries was read just now.
Begun(h, d) ==
  /\ desk[h] = NoRequest /\ desk' = [desk EXCEPT ![h] = d]
  /\ crossed' = (crossed \/ (TakesAdminAway(d) /\ \E k \in Desks \ {h} : TakesAdminAway(desk[k])))
  /\ UNCHANGED <<users, lastPassword, dismissed, replaced>>
  /\ d \in AccountsRequest /\ WellAsked(d)
  /\ d.by # Support => users[d.by] # None /\ users[d.by].active
  /\ d.op = "login" => d.to = users[d.of].pass /\ users[d.of] # None
  /\ d.op \in {"create", "found"} => users[d.of] = None
  /\ users[d.of] = None => /\ d.at = "save" /\ d.op \in {"create", "found", "admin"}
                           /\ d.row.pass \in {1, lastPassword}
                           /\ \A k \in Desks : ~IsAbout(k, d.of)
  /\ users[d.of] # None /\ d.at # "load" =>
       /\ d.op \notin {"role", "status"}
       /\ d.row.role = users[d.of].role /\ d.row.active = users[d.of].active
       /\ d.row.pass = users[d.of].pass /\ d.row.restaurant = users[d.of].restaurant

\* A row read, or read and changed in its e-mail, is a row.
LEMMA RowFacts ==
  /\ None \notin UserRow
  /\ \A row \in UserRow, e \in Emails : [row EXCEPT !.email = e] \in UserRow
  /\ \A row \in UserRow, r \in Roles : [row EXCEPT !.role = r] \in UserRow
  /\ \A row \in UserRow, a \in BOOLEAN : [row EXCEPT !.active = a] \in UserRow
  /\ \A row \in UserRow, n \in Nat : [row EXCEPT !.pass = n] \in UserRow
<1>1. None \notin UserRow
  BY AccountsAssumption DEF None, UserRow
<1> QED BY <1>1 DEF UserRow

LEMMA LoginBegins ==
  ASSUME AccountsSound, NEW h \in Desks, Login(h)
  PROVE  \E d : Begun(h, d)
<1>1. PICK u \in Rows, p \in 1..lastPassword :
        /\ users[u].active /\ users[u].pass = p
        /\ Start(h, [op |-> "login", at |-> "save", by |-> u, role |-> users[u].role,
                     of |-> u, to |-> p, row |-> users[u]])
  BY DEF Login
<1> DEFINE d == [op |-> "login", at |-> "save", by |-> u, role |-> users[u].role,
                 of |-> u, to |-> p, row |-> users[u]]
<1>2. u \in Users /\ users[u] # None /\ users[u] \in UserRow
  BY DEF Rows, AccountsSound, AccountsTypeOK
<1>3. d \in AccountsRequest
  BY <1>1, <1>2 DEF AccountsRequest, Operations, UserRow
<1>4. WellAsked(d)
  BY <1>2 DEF WellAsked
<1>5. d.op = "login" /\ d.at = "save" /\ d.by = u /\ d.of = u /\ d.to = users[u].pass /\ d.row = users[u]
  BY <1>1
<1>6. Start(h, d)
  BY <1>1
<1> HIDE DEF d
<1>7. ~TakesAdminAway(d)
  BY <1>5 DEF TakesAdminAway
<1>8. Begun(h, d)
  BY <1>1, <1>2, <1>3, <1>4, <1>5, <1>6 DEF Begun, Start
<1> QED BY <1>8

LEMMA CreateBegins ==
  ASSUME AccountsSound, NEW h \in Desks, StartCreateUser(h)
  PROVE  \E d : Begun(h, d)
<1>1. PICK u \in Rows, t \in Users \ Rows, role \in Roles, e \in Emails :
        /\ validate(u)
        /\ \A k \in Desks : ~IsAbout(k, t)
        /\ Start(h, [Asks("create", u, t, e) EXCEPT !.at = "save",
                       !.row = [email |-> e, role |-> role, active |-> TRUE, pass |-> 1,
                                restaurant |-> users[u].restaurant]])
  BY DEF StartCreateUser
<1> DEFINE row == [email |-> e, role |-> role, active |-> TRUE, pass |-> 1, restaurant |-> users[u].restaurant]
           d == [Asks("create", u, t, e) EXCEPT !.at = "save", !.row = row]
<1>2. u \in Users /\ users[u] # None /\ users[u] \in UserRow /\ users[t] = None
  BY DEF Rows, AccountsSound, AccountsTypeOK
<1>3. row \in UserRow
  BY <1>2 DEF UserRow
<1>4. d = [op |-> "create", at |-> "save", by |-> u, role |-> users[u].role, of |-> t, to |-> e, row |-> row]
  <2> HIDE DEF row
  <2>1. Asks("create", u, t, e)
          = [op |-> "create", at |-> "load", by |-> u, role |-> users[u].role, of |-> t, to |-> e, row |-> None]
    BY DEF Asks
  <2>2. [Asks("create", u, t, e) EXCEPT !.at = "save"]
          = [op |-> "create", at |-> "save", by |-> u, role |-> users[u].role, of |-> t, to |-> e, row |-> None]
    BY <2>1
  <2>3. d = [[Asks("create", u, t, e) EXCEPT !.at = "save"] EXCEPT !.row = row]
    BY <2>1
  <2>4. [[op |-> "create", at |-> "save", by |-> u, role |-> users[u].role, of |-> t, to |-> e, row |-> None]
           EXCEPT !.row = row]
          = [op |-> "create", at |-> "save", by |-> u, role |-> users[u].role, of |-> t, to |-> e, row |-> row]
    OBVIOUS
  <2> HIDE DEF d
  <2> QED BY <2>2, <2>3, <2>4
<1>5. d \in AccountsRequest
  <2>1. users[u].role \in Roles
    BY <1>2 DEF UserRow
  <2> HIDE DEF row
  <2> QED BY <1>2, <1>3, <1>4, <2>1 DEF AccountsRequest, Operations
<1>6. WellAsked(d)
  BY <1>3, <1>4 DEF WellAsked
<1>7. d.op = "create" /\ d.at = "save" /\ d.by = u /\ d.of = t /\ d.row.pass = 1
  BY <1>4
<1>8. Start(h, d) /\ users[u].active
  BY <1>1 DEF validate
<1> HIDE DEF d
<1>9. Begun(h, d)
  BY <1>1, <1>2, <1>5, <1>6, <1>7, <1>8 DEF Begun, Start, TakesAdminAway
<1> QED BY <1>9

\* A request of u about a colleague: nothing is read yet.
LEMMA AsksBegins ==
  ASSUME AccountsSound, NEW h \in Desks, NEW u \in Rows, NEW t \in Rows, NEW op, NEW to,
         validate(u),
         \/ op = "role" /\ to \in Roles
         \/ op = "email" /\ to \in Emails
         \/ op = "status" /\ to \in BOOLEAN
         \/ op \in {"reset", "change"} /\ to \in Nat,
         Start(h, Asks(op, u, t, to))
  PROVE  \E d : Begun(h, d)
<1> DEFINE d == Asks(op, u, t, to)
<1>1. u \in Users /\ t \in Users /\ users[u] # None /\ users[t] # None /\ users[u].role \in Roles
  BY RowFacts DEF Rows, AccountsSound, AccountsTypeOK, UserRow
<1>2. d = [op |-> op, at |-> "load", by |-> u, role |-> users[u].role, of |-> t, to |-> to, row |-> None]
  BY DEF Asks
<1>3. d \in AccountsRequest
  BY <1>1, <1>2 DEF AccountsRequest, Operations
<1>4. WellAsked(d)
  BY <1>2 DEF WellAsked
<1>5. d.op = op /\ d.at = "load" /\ d.by = u /\ d.of = t
  BY <1>2
<1>6. Start(h, d) /\ users[u].active
  BY DEF validate
<1> HIDE DEF d
<1>7. Begun(h, d)
  BY <1>1, <1>3, <1>4, <1>5, <1>6 DEF Begun, Start
<1> QED BY <1>7

LEMMA UpdateBegins ==
  ASSUME AccountsSound, NEW h \in Desks, StartUpdate(h)
  PROVE  \E d : Begun(h, d)
<1>1. PICK u \in Rows, t \in Rows :
        /\ validate(u)
        /\ \/ \E role \in Roles : Start(h, Asks("role", u, t, role))
           \/ \E e \in Emails : Start(h, Asks("email", u, t, e))
           \/ \E a \in BOOLEAN : Start(h, Asks("status", u, t, a))
           \/ Start(h, Asks("reset", u, t, 0))
           \/ Start(h, Asks("change", u, t, users[u].pass))
  BY DEF StartUpdate
<1>2. users[u].pass \in Nat
  BY DEF Rows, AccountsSound, AccountsTypeOK, UserRow
<1>3. CASE \E role \in Roles : Start(h, Asks("role", u, t, role))
  BY <1>1, <1>3, AsksBegins
<1>4. CASE \E e \in Emails : Start(h, Asks("email", u, t, e))
  BY <1>1, <1>4, AsksBegins
<1>5. CASE \E a \in BOOLEAN : Start(h, Asks("status", u, t, a))
  BY <1>1, <1>5, AsksBegins
<1>6. CASE Start(h, Asks("reset", u, t, 0))
  BY <1>1, <1>6, AsksBegins
<1>7. CASE Start(h, Asks("change", u, t, users[u].pass))
  BY <1>1, <1>2, <1>7, AsksBegins
<1> QED BY <1>1, <1>3, <1>4, <1>5, <1>6, <1>7

\* A request of the support for a new administrator, or about one.
LEMMA SupportBegins ==
  ASSUME AccountsSound, NEW h \in Desks, NEW u \in Users, NEW e \in Emails, NEW row \in UserRow, NEW op, NEW at,
         \/ /\ op \in {"found", "admin"} /\ at = "save" /\ u \in NewRow /\ row.pass = lastPassword
         \/ /\ op = "admin" /\ at \in {"save", "hash"} /\ users[u] # None
            /\ row.role = users[u].role /\ row.active = users[u].active
            /\ row.pass = users[u].pass /\ row.restaurant = users[u].restaurant,
         desk[h] = NoRequest,
         desk' = [desk EXCEPT ![h] = [op |-> op, at |-> at, by |-> Support, role |-> "ADMIN",
                                      of |-> u, to |-> e, row |-> row]],
         UNCHANGED <<users, lastPassword, crossed, dismissed, replaced>>
  PROVE  \E d : Begun(h, d)
<1> DEFINE d == [op |-> op, at |-> at, by |-> Support, role |-> "ADMIN", of |-> u, to |-> e, row |-> row]
<1>1. d \in AccountsRequest
  BY AccountsAssumption DEF AccountsRequest, Operations
<1>2. WellAsked(d)
  BY DEF WellAsked
<1>3. d.op = op /\ d.at = at /\ d.by = Support /\ d.of = u /\ d.row = row /\ ~TakesAdminAway(d)
  BY DEF TakesAdminAway
<1>4. u \in NewRow => users[u] = None /\ \A k \in Desks : ~IsAbout(k, u)
  BY DEF NewRow, Rows
<1>5. crossed' = (crossed \/ (TakesAdminAway(d) /\ \E k \in Desks \ {h} : TakesAdminAway(desk[k])))
  BY <1>3 DEF AccountsSound, AccountsTypeOK
<1> HIDE DEF d
<1>6. desk' = [desk EXCEPT ![h] = d]
  BY DEF d
<1>7. Begun(h, d)
  BY <1>1, <1>2, <1>3, <1>4, <1>5, <1>6 DEF Begun
<1> QED BY <1>7

LEMMA TenantBegins ==
  ASSUME AccountsSound, NEW h \in Desks, createTenant(h)
  PROVE  \E d : Begun(h, d)
<1>1. PICK r \in Restaurants \ restaurants, u \in NewRow, e \in Emails :
        /\ desk[h] = NoRequest
        /\ desk' = [desk EXCEPT ![h] = [op |-> "found", at |-> "save", by |-> Support, role |-> "ADMIN",
                                           of |-> u, to |-> e, row |-> AdminRow(r, e)]]
  BY DEF createTenant
<1>2. AdminRow(r, e) \in UserRow /\ AdminRow(r, e).pass = lastPassword
  BY AccountsAssumption DEF AdminRow, UserRow, AccountsSound, AccountsTypeOK
<1>3. UNCHANGED <<users, lastPassword, crossed, dismissed, replaced>>
  BY DEF createTenant, accountsGhosts
<1>4. u \in Users
  BY DEF NewRow
<1> QED BY <1>1, <1>2, <1>3, <1>4, SupportBegins

\* The first of the administrators is one of them.
LEMMA OldestIn ==
  ASSUME NEW S \in SUBSET Users, S # {}
  PROVE  Oldest(S) \in S
<1>1. S \subseteq Nat
  BY AccountsAssumption
<1>2. \E u \in S : \A w \in S : u <= w
  <2>1. PICK v \in S : \A w \in S : ~(<<w, v>> \in OpToRel(<, Nat))
    BY <1>1, NatLessThanWellFounded, WFMin
  <2>2. \A w \in S : ~(w < v)
    BY <1>1, <2>1 DEF OpToRel
  <2> QED BY <1>1, <2>2
<1> QED BY <1>2 DEF Oldest

LEMMA TenantUpdateBegins ==
  ASSUME AccountsSound, NEW h \in Desks, updateTenant(h)
  PROVE  \E d : Begun(h, d)
<1>1. PICK r \in restaurants, e \in Emails :
       IF Admins(r) = {}
       THEN \E u \in NewRow :
              Start(h, [op |-> "admin", at |-> "save", by |-> Support, role |-> "ADMIN",
                        of |-> u, to |-> e, row |-> AdminRow(r, e)])
       ELSE LET u == Oldest(Admins(r))
            IN \/ Start(h, [op |-> "admin", at |-> "save", by |-> Support, role |-> "ADMIN",
                            of |-> u, to |-> e, row |-> [users[u] EXCEPT !.email = e]])
               \/ Start(h, [op |-> "admin", at |-> "hash", by |-> Support, role |-> "ADMIN",
                            of |-> u, to |-> e, row |-> users[u]])
  BY DEF updateTenant
<1>2. r \in Restaurants
  BY DEF AccountsSound, AccountsTypeOK
<1>3. ASSUME NEW d, d.op = "admin", Start(h, d)
      PROVE  /\ desk[h] = NoRequest /\ desk' = [desk EXCEPT ![h] = d]
             /\ UNCHANGED <<users, lastPassword, crossed, dismissed, replaced>>
  <2>1. ~TakesAdminAway(d)
    BY <1>3 DEF TakesAdminAway
  <2> QED BY <1>3, <2>1 DEF Start, AccountsSound, AccountsTypeOK
<1>4. CASE Admins(r) = {}
  <2>1. PICK u \in NewRow :
          Start(h, [op |-> "admin", at |-> "save", by |-> Support, role |-> "ADMIN",
                    of |-> u, to |-> e, row |-> AdminRow(r, e)])
    BY <1>1, <1>4
  <2>2. AdminRow(r, e) \in UserRow /\ AdminRow(r, e).pass = lastPassword
    BY <1>2, AccountsAssumption DEF AdminRow, UserRow, AccountsSound, AccountsTypeOK
  <2>3. u \in Users
    BY DEF NewRow
  <2> QED BY <1>3, <2>1, <2>2, <2>3, SupportBegins
<1>5. CASE Admins(r) # {}
  <2> DEFINE u == Oldest(Admins(r))
  <2>1. u \in Users /\ users[u] # None /\ users[u] \in UserRow
    BY <1>5, OldestIn DEF Admins, Rows, AccountsSound, AccountsTypeOK
  <2>2. [users[u] EXCEPT !.email = e] \in UserRow
    BY <2>1, RowFacts
  <2>3. LET row == [users[u] EXCEPT !.email = e]
        IN row.role = users[u].role /\ row.active = users[u].active /\ row.pass = users[u].pass
           /\ row.restaurant = users[u].restaurant
    BY <2>1 DEF UserRow
  <2>4. \/ Start(h, [op |-> "admin", at |-> "save", by |-> Support, role |-> "ADMIN",
                     of |-> u, to |-> e, row |-> [users[u] EXCEPT !.email = e]])
        \/ Start(h, [op |-> "admin", at |-> "hash", by |-> Support, role |-> "ADMIN",
                     of |-> u, to |-> e, row |-> users[u]])
    BY <1>1, <1>5
  <2> HIDE DEF u
  <2>5. CASE Start(h, [op |-> "admin", at |-> "save", by |-> Support, role |-> "ADMIN",
                       of |-> u, to |-> e, row |-> [users[u] EXCEPT !.email = e]])
    <3> DEFINE row == [users[u] EXCEPT !.email = e]
    <3>1. row \in UserRow
      BY <2>2
    <3>2. row.role = users[u].role /\ row.active = users[u].active /\ row.pass = users[u].pass
          /\ row.restaurant = users[u].restaurant
      BY <2>3
    <3>3. Start(h, [op |-> "admin", at |-> "save", by |-> Support, role |-> "ADMIN",
                    of |-> u, to |-> e, row |-> row])
      BY <2>5
    <3> HIDE DEF row
    <3>4. desk[h] = NoRequest
          /\ desk' = [desk EXCEPT ![h] = [op |-> "admin", at |-> "save", by |-> Support, role |-> "ADMIN",
                                          of |-> u, to |-> e, row |-> row]]
          /\ UNCHANGED <<users, lastPassword, crossed, dismissed, replaced>>
      BY <1>3, <3>3
    <3> QED BY <2>1, <3>1, <3>2, <3>4, SupportBegins
  <2>6. CASE Start(h, [op |-> "admin", at |-> "hash", by |-> Support, role |-> "ADMIN",
                       of |-> u, to |-> e, row |-> users[u]])
    BY <1>3, <2>1, <2>6, SupportBegins
  <2> QED BY <2>4, <2>5, <2>6
<1> QED BY <1>4, <1>5

\* A request goes on: its row is loaded and changed, gets a new password, or the
\* administrators were counted.
Goes(h, e) ==
  LET d == desk[h]
      row == users[d.of]
  IN /\ desk' = [desk EXCEPT ![h] = e]
     /\ UNCHANGED <<users, crossed, dismissed, replaced>>
     /\ e \in AccountsRequest /\ WellAsked(e) /\ e.at # "load"
     /\ e.op = d.op /\ e.of = d.of /\ row # None
     /\ lastPassword' \in Nat /\ lastPassword' >= lastPassword
     /\ \/ /\ d.at = "load"
           /\ e.row.restaurant = row.restaurant /\ e.row.pass = row.pass
           /\ IF e.op = "role" THEN e.row.role = e.to ELSE e.row.role = row.role
           /\ IF e.op = "status" THEN e.row.active = e.to ELSE e.row.active = row.active
           /\ e.at = "save" /\ IsAdmin(row) => IsAdmin(e.row)
        \/ /\ d.at = "hash"
           /\ e.row.restaurant = d.row.restaurant /\ e.row.role = d.row.role /\ e.row.active = d.row.active
           /\ e.row.pass = lastPassword' /\ lastPassword' = lastPassword + 1
        \/ /\ d.at = "count" /\ e.row = d.row /\ e.to = d.to
           /\ ActiveAdmins(row.restaurant) \ {d.of} # {}

Dropped(h) ==
  /\ desk' = [desk EXCEPT ![h] = NoRequest]
  /\ UNCHANGED <<users, lastPassword, crossed, dismissed, replaced>>

Saved(h) ==
  /\ desk[h].at = "save"
  /\ users' = [users EXCEPT ![desk[h].of] = desk[h].row]
  /\ Noted(h, desk[h].row)
  /\ desk' = [desk EXCEPT ![h] = NoRequest]
  /\ UNCHANGED lastPassword

\* A request at a desk.
LEMMA RequestFacts ==
  ASSUME AccountsSound, NEW h \in Desks, desk[h] # NoRequest
  PROVE  /\ desk[h] \in AccountsRequest /\ WellAsked(desk[h]) /\ NewAlone(h)
         /\ desk[h].of \in Users
         /\ users[desk[h].of] # None => users[desk[h].of] \in UserRow
         /\ desk[h].at # "save" => users[desk[h].of] # None
BY DEF AccountsSound, AccountsTypeOK, AccountsRequest, NewAlone

\* A check that lets a request pass sets its row and its next step.
LEMMA LoadedGoes ==
  ASSUME AccountsSound, NEW h \in Desks, desk[h] # NoRequest, desk[h].at = "load",
         NEW allowed, NEW row \in UserRow, NEW next \in {"hash", "count", "save"}, Loaded(h, allowed, row, next),
         next = "hash" => desk[h].op \in {"reset", "change"},
         next = "count" => desk[h].op \in {"role", "status"},
         row.restaurant = users[desk[h].of].restaurant, row.pass = users[desk[h].of].pass,
         IF desk[h].op = "role" THEN row.role = desk[h].to ELSE row.role = users[desk[h].of].role,
         IF desk[h].op = "status" THEN row.active = desk[h].to ELSE row.active = users[desk[h].of].active,
         next = "save" /\ IsAdmin(users[desk[h].of]) => IsAdmin(row)
  PROVE  (\E e : Goes(h, e)) \/ Dropped(h)
<1>1. CASE ~allowed
  BY <1>1 DEF Loaded, Drop, Dropped, accountsGhosts
<1>2. CASE allowed
  <2> DEFINE e == [desk[h] EXCEPT !.row = row, !.at = next]
  <2>1. desk' = [desk EXCEPT ![h].row = row, ![h].at = next]
        /\ UNCHANGED <<users, lastPassword, crossed, dismissed, replaced>>
    BY <1>2 DEF Loaded, accountsGhosts
  <2>2. desk[h] \in AccountsRequest /\ WellAsked(desk[h]) /\ users[desk[h].of] # None
    BY RequestFacts
  <2>3. e \in AccountsRequest
    BY <2>2 DEF AccountsRequest
  <2>4. e.row = row /\ e.at = next /\ e.op = desk[h].op /\ e.of = desk[h].of /\ e.to = desk[h].to
    BY <2>2 DEF AccountsRequest
  <2>5. desk' = [desk EXCEPT ![h] = e]
    BY <2>1 DEF AccountsSound, AccountsTypeOK
  <2> HIDE DEF e
  <2>6. WellAsked(e)
    BY <2>2, <2>4 DEF WellAsked
  <2>7. lastPassword' \in Nat /\ lastPassword' >= lastPassword
    BY <2>1 DEF AccountsSound, AccountsTypeOK
  <2>8. Goes(h, e)
    BY <2>1, <2>2, <2>3, <2>4, <2>5, <2>6, <2>7 DEF Goes
  <2> QED BY <2>8
<1> QED BY <1>1, <1>2

\* The fields of a row with one of them changed.
LEMMA RowFields ==
  ASSUME NEW row \in UserRow
  PROVE  /\ \A v \in Emails : LET new == [row EXCEPT !.email = v]
                    IN new.role = row.role /\ new.active = row.active /\ new.pass = row.pass
                    /\ new.restaurant = row.restaurant
         /\ \A v \in Roles : LET new == [row EXCEPT !.role = v]
                    IN new.role = v /\ new.active = row.active /\ new.pass = row.pass
                    /\ new.restaurant = row.restaurant
         /\ \A v \in BOOLEAN : LET new == [row EXCEPT !.active = v]
                    IN new.role = row.role /\ new.active = v /\ new.pass = row.pass /\ new.restaurant = row.restaurant
         /\ \A v \in Nat : LET new == [row EXCEPT !.pass = v]
                    IN new.role = row.role /\ new.active = row.active /\ new.pass = v
                    /\ new.restaurant = row.restaurant
BY DEF UserRow

LEMMA UpdateGoes ==
  ASSUME AccountsSound, NEW h \in Desks, updateUser(h)
  PROVE  (\E e : Goes(h, e)) \/ Dropped(h)
<1> DEFINE d == desk[h]
           old == users[d.of]
<1>1. d # NoRequest /\ d.at = "load" /\ d.op \in {"role", "email"}
  BY DEF updateUser
<1>2. d \in AccountsRequest /\ WellAsked(d) /\ old \in UserRow
  BY <1>1, RequestFacts
<1>3. CASE d.op = "role"
  <2> DEFINE row == [old EXCEPT !.role = d.to]
             allowed == canActorManageTarget(d.role, old.role) /\ canActorAssignRole(d.role, d.to)
             next == IF old.role = "ADMIN" /\ d.to # "ADMIN" THEN "count" ELSE "save"
  <2>1. d.to \in Roles
    BY <1>2, <1>3 DEF WellAsked
  <2>2. row \in UserRow /\ row.role = d.to /\ row.active = old.active /\ row.pass = old.pass
        /\ row.restaurant = old.restaurant
    BY <1>2, <2>1, RowFacts, RowFields
  <2>3. Loaded(h, allowed, row, next)
    BY <1>3 DEF updateUser
  <2>4. next \in {"count", "save"}
    OBVIOUS
  <2>5. next = "save" /\ IsAdmin(old) => IsAdmin(row)
    BY <2>2 DEF IsAdmin
  <2> HIDE DEF row, allowed, next
  <2> QED BY <1>1, <1>3, <2>2, <2>3, <2>4, <2>5, LoadedGoes
<1>4. CASE d.op = "email"
  <2> DEFINE row == [old EXCEPT !.email = d.to]
             allowed == canActorManageTarget(d.role, old.role) /\ ~Taken(d.to, {d.of})
  <2>1. d.to \in Emails
    BY <1>2, <1>4 DEF WellAsked
  <2>2. row \in UserRow /\ row.role = old.role /\ row.active = old.active /\ row.pass = old.pass
        /\ row.restaurant = old.restaurant
    BY <1>2, <2>1, RowFacts, RowFields
  <2>3. Loaded(h, allowed, row, "save")
    BY <1>4 DEF updateUser
  <2>4. IsAdmin(old) => IsAdmin(row)
    BY <2>2 DEF IsAdmin
  <2> HIDE DEF row, allowed
  <2> QED BY <1>1, <1>4, <2>2, <2>3, <2>4, LoadedGoes
<1> QED BY <1>1, <1>3, <1>4

LEMMA StatusGoes ==
  ASSUME AccountsSound, NEW h \in Desks, updateUserStatus(h)
  PROVE  (\E e : Goes(h, e)) \/ Dropped(h)
<1> DEFINE d == desk[h]
           old == users[d.of]
           row == [old EXCEPT !.active = d.to]
           allowed == canActorManageTarget(d.role, old.role) /\ (d.to \/ d.by # d.of)
           next == IF ~d.to /\ old.role = "ADMIN" THEN "count" ELSE "save"
<1>1. d # NoRequest /\ d.at = "load" /\ d.op = "status"
  BY DEF updateUserStatus
<1>2. d \in AccountsRequest /\ WellAsked(d) /\ old \in UserRow
  BY <1>1, RequestFacts
<1>3. d.to \in BOOLEAN
  BY <1>1, <1>2 DEF WellAsked
<1>4. row \in UserRow /\ row.role = old.role /\ row.active = d.to /\ row.pass = old.pass
      /\ row.restaurant = old.restaurant
  BY <1>2, <1>3, RowFacts, RowFields
<1>5. Loaded(h, allowed, row, next)
  BY DEF updateUserStatus
<1>6. next \in {"count", "save"}
  OBVIOUS
<1>7. next = "save" /\ IsAdmin(old) => IsAdmin(row)
  BY <1>3, <1>4 DEF IsAdmin
<1> HIDE DEF row, allowed, next
<1> QED BY <1>1, <1>4, <1>5, <1>6, <1>7, LoadedGoes

LEMMA PasswordGoes ==
  ASSUME AccountsSound, NEW h \in Desks, resetUserPassword(h) \/ changePassword(h)
  PROVE  (\E e : Goes(h, e)) \/ Dropped(h)
<1> DEFINE d == desk[h]
           old == users[d.of]
<1>1. d # NoRequest /\ d.at = "load" /\ d.op \in {"reset", "change"}
  BY DEF resetUserPassword, changePassword
<1>2. old \in UserRow
  BY <1>1, RequestFacts
<1>3. PICK allowed : Loaded(h, allowed, old, "hash")
  BY DEF resetUserPassword, changePassword
<1> QED BY <1>1, <1>2, <1>3, LoadedGoes

LEMMA HashGoes ==
  ASSUME AccountsSound, NEW h \in Desks, HashPassword(h)
  PROVE  \E e : Goes(h, e)
<1> DEFINE d == desk[h]
           row == [d.row EXCEPT !.pass = lastPassword + 1]
           e == [d EXCEPT !.at = "save", !.row = row]
<1>1. d # NoRequest /\ d.at = "hash" /\ lastPassword' = lastPassword + 1
      /\ UNCHANGED <<users, crossed, dismissed, replaced>>
  BY DEF HashPassword, accountsGhosts
<1>2. d \in AccountsRequest /\ WellAsked(d) /\ users[d.of] # None /\ d.row \in UserRow /\ lastPassword \in Nat
  BY <1>1, RequestFacts DEF WellAsked, AccountsSound, AccountsTypeOK
<1>3. row \in UserRow /\ row.role = d.row.role /\ row.active = d.row.active /\ row.pass = lastPassword'
      /\ row.restaurant = d.row.restaurant
  BY <1>1, <1>2, RowFacts, RowFields
<1>4. e \in AccountsRequest /\ e.row = row /\ e.at = "save" /\ e.op = d.op /\ e.of = d.of /\ e.to = d.to
  BY <1>2, <1>3 DEF AccountsRequest
<1>5. desk' = [desk EXCEPT ![h] = e]
  <2>1. desk' = [desk EXCEPT ![h].at = "save", ![h].row.pass = lastPassword + 1]
    BY DEF HashPassword
  <2>2. desk \in [Desks -> AccountsRequest \cup {NoRequest}]
    BY DEF AccountsSound, AccountsTypeOK
  <2>3. DOMAIN d = {"op", "at", "by", "role", "of", "to", "row"}
    BY <1>2 DEF AccountsRequest
  <2>4. desk' = [desk EXCEPT ![h] = [[d EXCEPT !.at = "save"] EXCEPT !.row = [d.row EXCEPT !.pass = lastPassword + 1]]]
    BY <2>1, <2>2, <2>3
  <2>5. [[d EXCEPT !.at = "save"] EXCEPT !.row = row] = e
    BY <2>3
  <2> QED BY <2>4, <2>5
<1> HIDE DEF e, row
<1>6. WellAsked(e)
  BY <1>1, <1>2, <1>3, <1>4 DEF WellAsked
<1>7. Goes(h, e)
  BY <1>1, <1>2, <1>3, <1>4, <1>5, <1>6 DEF Goes
<1> QED BY <1>7

LEMMA CountGoes ==
  ASSUME AccountsSound, NEW h \in Desks, CountAdmins(h)
  PROVE  (\E e : Goes(h, e)) \/ Dropped(h)
<1> DEFINE d == desk[h]
           e == [d EXCEPT !.at = "save"]
<1>1. d # NoRequest /\ d.at = "count"
  BY DEF CountAdmins
<1>2. d \in AccountsRequest /\ WellAsked(d) /\ users[d.of] # None /\ lastPassword \in Nat
  BY <1>1, RequestFacts DEF AccountsSound, AccountsTypeOK
<1>3. CASE ~ensureAnotherActiveAdminExists(d.of)
  BY <1>3 DEF CountAdmins, Drop, Dropped, accountsGhosts
<1>4. CASE ensureAnotherActiveAdminExists(d.of)
  <2>1. desk' = [desk EXCEPT ![h].at = "save"] /\ UNCHANGED <<users, lastPassword, crossed, dismissed, replaced>>
    BY <1>4 DEF CountAdmins, Advance, accountsGhosts
  <2>2. e \in AccountsRequest /\ e.row = d.row /\ e.at = "save" /\ e.op = d.op /\ e.of = d.of /\ e.to = d.to
    BY <1>2 DEF AccountsRequest
  <2>3. desk' = [desk EXCEPT ![h] = e]
    BY <2>1 DEF AccountsSound, AccountsTypeOK
  <2> HIDE DEF e
  <2>4. WellAsked(e)
    BY <1>1, <1>2, <2>2 DEF WellAsked
  <2>5. ActiveAdmins(users[d.of].restaurant) \ {d.of} # {}
    BY <1>4 DEF ensureAnotherActiveAdminExists
  <2>6. lastPassword' \in Nat /\ lastPassword' >= lastPassword
    BY <1>2, <2>1
  <2>7. e.at # "load" /\ UNCHANGED <<users, crossed, dismissed, replaced>>
    BY <2>1, <2>2
  <2>8. d.at = "count" /\ e.row = d.row /\ e.to = d.to
    BY <1>1, <2>2
  <2>9. Goes(h, e)
    BY <1>2, <2>2, <2>3, <2>4, <2>5, <2>6, <2>7, <2>8 DEF Goes
  <2> QED BY <2>9
<1> QED BY <1>3, <1>4

LEMMA SaveSaves ==
  ASSUME AccountsSound, NEW h \in Desks, SaveUser(h) \/ SaveAdmin(h)
  PROVE  desk[h] # NoRequest /\ (Saved(h) \/ Dropped(h))
<1>1. desk[h] # NoRequest /\ desk[h].at = "save"
  BY DEF SaveUser, SaveAdmin
<1>2. CASE Taken(desk[h].row.email, {desk[h].of})
  BY <1>1, <1>2 DEF SaveUser, SaveAdmin, Drop, Dropped, accountsGhosts
<1>3. CASE ~Taken(desk[h].row.email, {desk[h].of})
  BY <1>1, <1>3 DEF SaveUser, SaveAdmin, Saved
<1> QED BY <1>1, <1>2, <1>3

\* What one step does to the rows of the staff and to the requests about them.
AtDesk(h) ==
  \/ \E d : Begun(h, d)
  \/ desk[h] # NoRequest /\ ((\E e : Goes(h, e)) \/ Dropped(h) \/ Saved(h))

LEMMA AccountsStep ==
  ASSUME AccountsSound, [AccountsNext]_accountsVars
  PROVE  /\ restaurants' \subseteq Restaurants
         /\ \/ UNCHANGED <<users, desk, lastPassword, crossed, dismissed, replaced>>
            \/ \E h \in Desks : AtDesk(h)
<1>1. ASSUME NEW h \in Desks, Desk(h)
      PROVE  restaurants' \subseteq Restaurants /\ AtDesk(h)
  <2>0. restaurants \subseteq Restaurants
    BY DEF AccountsSound, AccountsTypeOK
  <2>1. CASE Login(h)
    BY <2>0, <2>1, LoginBegins DEF Login, Start, AtDesk
  <2>2. CASE StartCreateUser(h)
    BY <2>0, <2>2, CreateBegins DEF StartCreateUser, Start, AtDesk
  <2>3. CASE StartUpdate(h)
    BY <2>0, <2>3, UpdateBegins DEF StartUpdate, Start, AtDesk
  <2>4. CASE createTenant(h)
    BY <2>0, <2>4, TenantBegins DEF createTenant, AtDesk
  <2>5. CASE updateTenant(h)
    <3>1. UNCHANGED restaurants
      BY <2>5 DEF updateTenant, Start
    <3> QED BY <2>0, <2>5, <3>1, TenantUpdateBegins DEF AtDesk
  <2>6. CASE updateUser(h)
    <3>1. UNCHANGED restaurants /\ desk[h] # NoRequest
      BY <2>6 DEF updateUser, Loaded, Drop
    <3> QED BY <2>0, <2>6, <3>1, UpdateGoes DEF AtDesk
  <2>7. CASE updateUserStatus(h)
    <3>1. UNCHANGED restaurants /\ desk[h] # NoRequest
      BY <2>7 DEF updateUserStatus, Loaded, Drop
    <3> QED BY <2>0, <2>7, <3>1, StatusGoes DEF AtDesk
  <2>8. CASE resetUserPassword(h) \/ changePassword(h)
    <3>1. UNCHANGED restaurants /\ desk[h] # NoRequest
      BY <2>8 DEF resetUserPassword, changePassword, Loaded, Drop
    <3> QED BY <2>0, <2>8, <3>1, PasswordGoes DEF AtDesk
  <2>9. CASE HashPassword(h)
    BY <2>0, <2>9, HashGoes DEF HashPassword, AtDesk
  <2>10. CASE CountAdmins(h)
    <3>1. UNCHANGED restaurants /\ desk[h] # NoRequest
      BY <2>10 DEF CountAdmins, Advance, Drop
    <3> QED BY <2>0, <2>10, <3>1, CountGoes DEF AtDesk
  <2>11. CASE SaveUser(h) \/ SaveAdmin(h)
    <3>1. UNCHANGED restaurants
      BY <2>11 DEF SaveUser, SaveAdmin, Drop
    <3> QED BY <2>0, <2>11, <3>1, SaveSaves DEF AtDesk
  <2> QED BY <1>1, <2>1, <2>2, <2>3, <2>4, <2>5, <2>6, <2>7, <2>8, <2>9, <2>10, <2>11 DEF Desk
<1>2. CASE SupportLogin \/ logoutSession \/ SessionExpires \/ UNCHANGED accountsVars
  BY <1>2 DEF SupportLogin, logoutSession, SessionExpires, accountsVars, accountsGhosts, AccountsSound, AccountsTypeOK
<1> QED BY <1>1, <1>2 DEF AccountsNext

\* The desk after a step: one request is replaced, the others stay.
LEMMA DeskStep ==
  ASSUME AccountsSound, NEW h \in Desks, NEW new, desk' = [desk EXCEPT ![h] = new]
  PROVE  desk'[h] = new /\ \A k \in Desks \ {h} : desk'[k] = desk[k]
BY DEF AccountsSound, AccountsTypeOK

LEMMA SoundStep ==
  ASSUME AccountsSound, [AccountsNext]_accountsVars
  PROVE  AccountsSound'
<1>0. NoRequest \notin AccountsRequest
  BY DEF NoRequest, AccountsRequest, Operations
<1>1. restaurants' \subseteq Restaurants
  BY AccountsStep
<1>2. CASE UNCHANGED <<users, desk, lastPassword, crossed, dismissed, replaced>>
  BY <1>1, <1>2 DEF AccountsSound, AccountsTypeOK, NewAlone, OthersOn, IsAbout
<1>3. ASSUME NEW h \in Desks, NEW d, Begun(h, d) PROVE AccountsSound'
  <2>1. desk'[h] = d /\ \A k \in Desks \ {h} : desk'[k] = desk[k]
    BY <1>3, DeskStep DEF Begun
  <2>2. AccountsTypeOK'
    BY <1>1, <1>3 DEF Begun, AccountsSound, AccountsTypeOK
  <2>3. WellAsked(d)
    BY <1>3 DEF Begun
  <2>4. NewAlone(h)'
    BY <1>3, <2>1 DEF Begun, NewAlone, OthersOn, IsAbout
  <2>5. ASSUME NEW k \in Desks \ {h}, desk'[k] # NoRequest PROVE NewAlone(k)'
    <3>1. NewAlone(k) /\ desk[k] # NoRequest /\ desk'[k] = desk[k] /\ users' = users
      BY <1>3, <2>1, <2>5 DEF AccountsSound, Begun
    <3>2. users[desk[k].of] = None => d.of # desk[k].of
      <4>1. IsAbout(k, desk[k].of)
        BY <3>1 DEF IsAbout
      <4> QED BY <1>3, <4>1 DEF Begun
    <3> QED BY <2>1, <3>1, <3>2 DEF NewAlone, OthersOn, IsAbout
  <2> QED BY <2>1, <2>2, <2>3, <2>4, <2>5 DEF AccountsSound
<1>4. ASSUME NEW h \in Desks, desk[h] # NoRequest, NEW e, Goes(h, e) PROVE AccountsSound'
  <2>1. desk'[h] = e /\ \A k \in Desks \ {h} : desk'[k] = desk[k]
    BY <1>4, DeskStep DEF Goes
  <2>2. AccountsTypeOK'
    BY <1>1, <1>4 DEF Goes, AccountsSound, AccountsTypeOK
  <2>3. WellAsked(e) /\ e.of = desk[h].of /\ e.op = desk[h].op /\ users' = users /\ users[desk[h].of] # None
    BY <1>4 DEF Goes
  <2>4. NewAlone(h)'
    BY <1>4, <2>1, <2>3 DEF NewAlone, AccountsSound
  <2>5. ASSUME NEW k \in Desks \ {h}, desk'[k] # NoRequest PROVE NewAlone(k)'
    <3>1. NewAlone(k) /\ desk[k] # NoRequest /\ desk'[k] = desk[k]
      BY <2>1, <2>5 DEF AccountsSound
    <3> QED BY <1>4, <2>1, <2>3, <3>1 DEF NewAlone, OthersOn, IsAbout
  <2> QED BY <2>1, <2>2, <2>3, <2>4, <2>5 DEF AccountsSound
<1>5. ASSUME NEW h \in Desks, Dropped(h) PROVE AccountsSound'
  <2>1. desk'[h] = NoRequest /\ \A k \in Desks \ {h} : desk'[k] = desk[k]
    BY <1>5, DeskStep DEF Dropped
  <2>2. AccountsTypeOK'
    BY <1>1, <1>5 DEF Dropped, AccountsSound, AccountsTypeOK
  <2>3. ASSUME NEW k \in Desks \ {h}, desk'[k] # NoRequest PROVE NewAlone(k)'
    <3>1. NewAlone(k) /\ desk[k] # NoRequest /\ desk'[k] = desk[k] /\ users' = users
      BY <1>5, <2>1, <2>3 DEF AccountsSound, Dropped
    <3> QED BY <2>1, <3>1 DEF NewAlone, OthersOn, IsAbout
  <2> QED BY <2>1, <2>2, <2>3 DEF AccountsSound
<1>6. ASSUME NEW h \in Desks, desk[h] # NoRequest, Saved(h) PROVE AccountsSound'
  <2>1. desk'[h] = NoRequest /\ \A k \in Desks \ {h} : desk'[k] = desk[k]
    BY <1>6, DeskStep DEF Saved
  <2>2. desk[h] \in AccountsRequest /\ WellAsked(desk[h]) /\ desk[h].of \in Users /\ desk[h].row \in UserRow /\ NewAlone(h)
    BY <1>6, RequestFacts DEF WellAsked, Saved
  <2>3. AccountsTypeOK'
    <3>1. users' \in [Users -> UserRow \cup {None}] /\ lastPassword' \in Nat
      BY <1>6, <2>2 DEF Saved, AccountsSound, AccountsTypeOK
    <3>2. desk' \in [Desks -> AccountsRequest \cup {NoRequest}]
      BY <1>6 DEF Saved, AccountsSound, AccountsTypeOK
    <3>3. dismissed' \subseteq Users /\ crossed' \in BOOLEAN
      BY <1>6, <2>2 DEF Saved, Noted, AccountsSound, AccountsTypeOK
    <3>4. replaced' \in [Users -> SUBSET Nat]
      <4> DEFINE u == desk[h].of
                 new == (replaced[u] \cup {users[u].pass}) \ {desk[h].row.pass}
      <4>1. replaced \in [Users -> SUBSET Nat] /\ u \in Users
        BY <2>2 DEF AccountsSound, AccountsTypeOK
      <4>2. replaced' = replaced \/ (users[u] # None /\ replaced' = [replaced EXCEPT ![u] = new])
        BY <1>6 DEF Saved, Noted
      <4>3. users[u] # None => new \in SUBSET Nat
        BY <2>2, <4>1 DEF AccountsSound, AccountsTypeOK, UserRow
      <4> HIDE DEF new, u
      <4> QED BY <4>1, <4>2, <4>3
    <3> QED BY <1>1, <3>1, <3>2, <3>3, <3>4 DEF AccountsTypeOK
  <2>4. ASSUME NEW k \in Desks \ {h}, desk'[k] # NoRequest PROVE NewAlone(k)'
    <3>1. NewAlone(k) /\ desk[k] # NoRequest /\ desk'[k] = desk[k] /\ desk[k].of \in Users
      BY <2>1, <2>4, RequestFacts
    <3>2. CASE desk[k].of = desk[h].of
      <4>1. OthersOn(k, desk[k].of) /\ OthersOn(h, desk[h].of)
        BY <1>6, <2>1, <3>1, <3>2 DEF OthersOn, IsAbout
      <4>2. users[desk[k].of] # None
        BY <3>1, <4>1 DEF NewAlone
      <4>3. users'[desk[k].of] # None
        BY <1>6, <2>2, <3>2, RowFacts DEF Saved, AccountsSound, AccountsTypeOK
      <4> QED BY <3>1, <4>2, <4>3 DEF NewAlone
    <3>3. CASE desk[k].of # desk[h].of
      <4>1. users'[desk[k].of] = users[desk[k].of]
        BY <1>6, <3>1, <3>3 DEF Saved, AccountsSound, AccountsTypeOK
      <4> QED BY <2>1, <3>1, <4>1 DEF NewAlone, OthersOn, IsAbout
    <3> QED BY <3>2, <3>3
  <2> QED BY <2>1, <2>3, <2>4 DEF AccountsSound
<1> QED BY <1>2, <1>3, <1>4, <1>5, <1>6, AccountsStep DEF AtDesk

LEMMA SoundInit == AccountsInit => AccountsSound
<1> SUFFICES ASSUME AccountsInit PROVE AccountsSound
  OBVIOUS
<1>1. users \in [Users -> UserRow \cup {None}] /\ restaurants \subseteq Restaurants
  <2> DEFINE first == CHOOSE u \in Users : \A w \in Users : u <= w
             second == CHOOSE u \in Users \ {first} : \A w \in Users \ {first} : u <= w
             home == CHOOSE r \in Restaurants : TRUE
  <2>1. home \in Restaurants
    BY AccountsAssumption
  <2>2. PICK role \in {"ADMIN", "MANAGER"} :
          /\ users = [u \in Users |->
               IF u \in {first, second}
               THEN [email |-> u, role |-> IF u = first THEN "ADMIN" ELSE role,
                     active |-> TRUE, pass |-> 1, restaurant |-> home]
               ELSE None]
          /\ restaurants = {home}
    BY Zenon DEF AccountsInit
  <2> HIDE DEF first, second, home
  <2>3. ASSUME NEW u \in Users, NEW r \in {"ADMIN", role}
        PROVE  [email |-> u, role |-> r, active |-> TRUE, pass |-> 1, restaurant |-> home] \in UserRow
    BY <2>1, AccountsAssumption DEF UserRow
  <2> QED BY <2>1, <2>2, <2>3
<1>2. /\ desk = [h \in Desks |-> NoRequest] /\ lastPassword = 1
      /\ crossed = FALSE /\ dismissed = {} /\ replaced = [u \in Users |-> {}]
  BY DEF AccountsInit
<1> QED BY <1>1, <1>2 DEF AccountsSound, AccountsTypeOK

\* The rows of the staff and the requests about them are well-typed, and only one request
\* is about somebody who has no row yet (StaffAccounts).
THEOREM AccountsTypeCorrect == AccountsSpec => []AccountsSound
BY SoundInit, SoundStep, PTL DEF AccountsSpec

---------------------------------------------------------------------------
(* a restaurant keeps an active administrator *)

\* What a save does to the administrators, as long as no requests crossed: nobody else
\* is touched, only a request of two kinds ends one's being an administrator, and then
\* there is another one.
LEMMA SavedAdmins ==
  ASSUME AdminInv, NEW h \in Desks, desk[h] # NoRequest, Saved(h), ~crossed', NEW r
  PROVE  /\ ActiveAdmins(r) \ {desk[h].of} \subseteq ActiveAdmins(r)'
         /\ ~TakesAdminAway(desk[h]) => ActiveAdmins(r) \subseteq ActiveAdmins(r)'
         /\ ActiveAdmins(r) # {} => ActiveAdmins(r)' # {}
<1> DEFINE d == desk[h]
           u == d.of
<1>1. /\ AccountsSound /\ ~crossed /\ d.at = "save" /\ u \in Users /\ d.row \in UserRow
      /\ users \in [Users -> UserRow \cup {None}]
  BY RequestFacts DEF AdminInv, Saved, Noted, AccountsSound, AccountsTypeOK, WellAsked
<1>2. Fresh(h) /\ LeavesAnother(h)
  BY <1>1 DEF AdminInv
<1>3. users'[u] = d.row /\ (\A w \in Users \ {u} : users'[w] = users[w]) /\ d.row # None
  BY <1>1, RowFacts DEF Saved
<1>4. ActiveAdmins(r) \ {u} \subseteq ActiveAdmins(r)'
  BY <1>3 DEF ActiveAdmins, Rows
<1>5. ASSUME u \in ActiveAdmins(r), ~TakesAdminAway(d) PROVE u \in ActiveAdmins(r)'
  <2>1. users[u] # None /\ users[u].restaurant = r /\ users[u].role = "ADMIN" /\ users[u].active
    BY <1>5 DEF ActiveAdmins, Rows
  <2>2. d.op # "role" /\ d.op # "status"
    BY <1>5 DEF TakesAdminAway
  <2>3. d.row.restaurant = r /\ d.row.role = "ADMIN" /\ d.row.active
    BY <1>1, <1>2, <2>1, <2>2 DEF Fresh
  <2> QED BY <1>1, <1>3, <2>3 DEF ActiveAdmins, Rows
<1>6. ASSUME u \in ActiveAdmins(r), u \notin ActiveAdmins(r)', TakesAdminAway(d)
      PROVE  ActiveAdmins(r) \ {u} # {}
  <2>1. users[u] # None /\ users[u].restaurant = r /\ IsAdmin(users[u])
    BY <1>6 DEF ActiveAdmins, Rows, IsAdmin
  <2>2. d.row.restaurant = r
    BY <1>1, <1>2, <2>1 DEF Fresh
  <2>3. ~IsAdmin(d.row)
    BY <1>1, <1>3, <1>6, <2>2 DEF ActiveAdmins, Rows, IsAdmin
  <2> QED BY <1>1, <1>2, <1>6, <2>1, <2>3 DEF LeavesAnother
<1> QED BY <1>4, <1>5, <1>6

LEMMA AdminStep ==
  ASSUME AdminInv, [AccountsNext]_accountsVars
  PROVE  AdminInv'
<1> SUFFICES ASSUME ~crossed', NEW k \in Desks, desk'[k] # NoRequest
             PROVE  Fresh(k)' /\ LeavesAnother(k)'
  BY SoundStep DEF AdminInv
<1>0. AccountsSound /\ AccountsSound'
  BY SoundStep DEF AdminInv
<1>00. ~TakesAdminAway(NoRequest)
  BY DEF TakesAdminAway
<1>1. CASE UNCHANGED <<users, desk, lastPassword, crossed, dismissed, replaced>>
  BY <1>1 DEF AdminInv, Fresh, LeavesAnother, ActiveAdmins, Rows, TakesAdminAway
<1>2. ASSUME NEW h \in Desks, NEW d, Begun(h, d) PROVE Fresh(k)' /\ LeavesAnother(k)'
  <2>1. desk'[h] = d /\ (\A j \in Desks \ {h} : desk'[j] = desk[j]) /\ users' = users /\ ~crossed
        /\ desk[h] = NoRequest
    BY <1>0, <1>2, DeskStep DEF Begun
  <2>2. TakesAdminAway(d) => \A j \in Desks \ {h} : ~TakesAdminAway(desk[j])
    BY <1>2 DEF Begun
  <2>3. CASE k = h
    <3>1. Fresh(k)'
      BY <1>2, <2>1, <2>3 DEF Begun, Fresh
    <3>2. TakesAdminAway(d) => d.at # "save"
      BY <1>2, <2>1 DEF Begun, TakesAdminAway, WellAsked, AdminInv
    <3> QED BY <2>1, <2>2, <2>3, <3>1, <3>2 DEF LeavesAnother
  <2>4. CASE k # h
    <3>1. desk'[k] = desk[k] /\ Fresh(k) /\ LeavesAnother(k)
      BY <2>1, <2>4 DEF AdminInv
    <3>2. Fresh(k)'
      BY <2>1, <3>1 DEF Fresh
    <3>3. ASSUME TakesAdminAway(desk[k])
          PROVE  \A j \in Desks : TakesAdminAway(desk'[j]) => j = k
      BY <2>1, <2>2, <2>4, <3>1, <3>3 DEF LeavesAnother
    <3>4. \A r : ActiveAdmins(r)' = ActiveAdmins(r)
      BY <2>1 DEF ActiveAdmins, Rows
    <3> QED BY <2>1, <3>1, <3>2, <3>3, <3>4 DEF LeavesAnother
  <2> QED BY <2>3, <2>4
<1>3. ASSUME NEW h \in Desks, desk[h] # NoRequest, NEW e, Goes(h, e) PROVE Fresh(k)' /\ LeavesAnother(k)'
  <2>1. /\ desk'[h] = e /\ (\A j \in Desks \ {h} : desk'[j] = desk[j]) /\ users' = users /\ ~crossed
        /\ e.op = desk[h].op /\ e.of = desk[h].of
    BY <1>0, <1>3, DeskStep DEF Goes
  <2>2. e # NoRequest
    BY <1>3 DEF Goes, NoRequest, AccountsRequest, Operations
  <2>3. \A j \in Desks : TakesAdminAway(desk'[j]) = TakesAdminAway(desk[j])
    BY <1>3, <2>1, <2>2 DEF TakesAdminAway
  <2>4. \A r : ActiveAdmins(r)' = ActiveAdmins(r)
    BY <2>1 DEF ActiveAdmins, Rows
  <2>5. CASE k = h
    <3>1. Fresh(h) /\ LeavesAnother(h) /\ WellAsked(desk[h])
      BY <1>0, <1>3, <2>1 DEF AdminInv, AccountsSound
    <3>2. Fresh(k)'
      BY <1>3, <2>1, <2>5, <3>1 DEF Goes, Fresh, WellAsked
    <3>3. TakesAdminAway(e) /\ e.at = "save" /\ IsAdmin(users[e.of]) /\ ~IsAdmin(e.row)
            => ActiveAdmins(users[e.of].restaurant) \ {e.of} # {}
      BY <1>3, <2>1, <3>1 DEF Goes, TakesAdminAway, WellAsked
    <3> QED BY <2>1, <2>3, <2>4, <2>5, <3>1, <3>2, <3>3 DEF LeavesAnother
  <2>6. CASE k # h
    <3>1. desk'[k] = desk[k] /\ Fresh(k) /\ LeavesAnother(k)
      BY <2>1, <2>6 DEF AdminInv
    <3>2. Fresh(k)'
      BY <2>1, <3>1 DEF Fresh
    <3> QED BY <2>1, <2>3, <2>4, <3>1, <3>2 DEF LeavesAnother
  <2> QED BY <2>5, <2>6
<1>4. ASSUME NEW h \in Desks, Dropped(h) PROVE Fresh(k)' /\ LeavesAnother(k)'
  <2>1. desk'[h] = NoRequest /\ (\A j \in Desks \ {h} : desk'[j] = desk[j]) /\ users' = users /\ ~crossed
    BY <1>0, <1>4, DeskStep DEF Dropped
  <2>2. k # h /\ desk'[k] = desk[k] /\ Fresh(k) /\ LeavesAnother(k)
    BY <2>1 DEF AdminInv
  <2>3. \A r : ActiveAdmins(r)' = ActiveAdmins(r)
    BY <2>1 DEF ActiveAdmins, Rows
  <2>4. Fresh(k)'
    BY <2>1, <2>2 DEF Fresh
  <2> QED BY <1>00, <2>1, <2>2, <2>3, <2>4 DEF LeavesAnother
<1>5. ASSUME NEW h \in Desks, desk[h] # NoRequest, Saved(h) PROVE Fresh(k)' /\ LeavesAnother(k)'
  <2>1. desk'[h] = NoRequest /\ (\A j \in Desks \ {h} : desk'[j] = desk[j]) /\ ~crossed
    BY <1>0, <1>5, DeskStep DEF Saved, Noted
  <2>2. k # h /\ desk'[k] = desk[k] /\ desk[k] # NoRequest /\ Fresh(k) /\ LeavesAnother(k)
    BY <2>1 DEF AdminInv
  <2>3. desk[k].of \in Users /\ desk[h].of \in Users
    BY <1>0, <1>5, <2>2, RequestFacts
  <2>4. desk[k].of # desk[h].of
    <3> SUFFICES ASSUME desk[k].of = desk[h].of PROVE FALSE
      OBVIOUS
    <3>1. OthersOn(h, desk[h].of) /\ OthersOn(k, desk[k].of)
      BY <1>5, <2>2 DEF OthersOn, IsAbout
    <3>2. users[desk[h].of] = None
      BY <1>5, <3>1 DEF Saved, Noted
    <3> QED BY <1>0, <2>2, <3>1, <3>2, RequestFacts DEF NewAlone
  <2>5. users'[desk[k].of] = users[desk[k].of]
    BY <1>5, <2>3, <2>4 DEF Saved, AdminInv, AccountsSound, AccountsTypeOK
  <2>6. Fresh(k)'
    BY <2>2, <2>5 DEF Fresh
  <2>7. ASSUME TakesAdminAway(desk[k])
        PROVE  \A r : ActiveAdmins(r) \subseteq ActiveAdmins(r)'
    <3>1. ~TakesAdminAway(desk[h])
      BY <2>2, <2>7 DEF LeavesAnother
    <3> QED BY <1>5, <3>1, SavedAdmins
  <2>8. \A j \in Desks : TakesAdminAway(desk'[j]) => TakesAdminAway(desk[j])
    BY <1>00, <2>1
  <2> QED BY <2>2, <2>5, <2>6, <2>7, <2>8 DEF LeavesAnother
<1> QED BY <1>0, <1>1, <1>2, <1>3, <1>4, <1>5, AccountsStep DEF AtDesk

\* StaffAccounts!AdminRemains: while no requests that take an administrator away overlap and
\* none saves a row that another request was changing, no restaurant loses its last active
\* administrator, however many requests are under way.
THEOREM AdminRemainsHolds == AccountsSpec => AdminRemains
<1>1. AccountsInit => AdminInv
  <2> SUFFICES ASSUME AccountsInit PROVE AdminInv
    OBVIOUS
  <2>1. \A h \in Desks : desk[h] = NoRequest
    BY DEF AccountsInit
  <2> QED BY <2>1, SoundInit DEF AdminInv
<1>2. AdminInv /\ [AccountsNext]_accountsVars => AdminInv'
  BY AdminStep
<1>3. ASSUME AdminInv, [AccountsNext]_accountsVars, NEW r \in restaurants, ~crossed', ActiveAdmins(r) # {}
      PROVE  ActiveAdmins(r)' # {}
  <2>1. CASE UNCHANGED users
    BY <1>3, <2>1 DEF ActiveAdmins, Rows
  <2>2. ASSUME NEW h \in Desks, desk[h] # NoRequest, Saved(h) PROVE ActiveAdmins(r)' # {}
    BY <1>3, <2>2, SavedAdmins
  <2>3. AccountsSound
    BY <1>3 DEF AdminInv
  <2> QED BY <1>3, <2>1, <2>2, <2>3, AccountsStep DEF AtDesk, Begun, Goes, Dropped
<1>4. AdminInv /\ [AccountsNext]_accountsVars
        => [\A r \in restaurants : ~crossed' /\ ActiveAdmins(r) # {} => ActiveAdmins(r)' # {}]_accountsVars
  BY <1>3
<1> QED BY <1>1, <1>2, <1>4, PTL DEF AccountsSpec, AdminRemains

---------------------------------------------------------------------------
(* what was taken back stays so *)

LEMMA BegunOf ==
  ASSUME NEW h, NEW d, Begun(h, d)
  PROVE  d.of \in Users
<1>1. d \in AccountsRequest
  BY DEF Begun
<1> QED BY <1>1 DEF AccountsRequest

\* No step brings a dismissed user or a replaced password back: a row that is loaded is the
\* one of the table, and a request that saves an older one was not alone.
LEMMA RevokeStep ==
  ASSUME RevokeInv, [AccountsNext]_accountsVars
  PROVE  RevokeInv'
<1>0. AccountsSound /\ AccountsSound' /\ DismissedAway /\ ReplacedGone /\ lastPassword \in Nat \ {0}
  BY SoundStep DEF RevokeInv, AccountsSound, AccountsTypeOK
<1>00. dismissed \subseteq Users /\ replaced \in [Users -> SUBSET Nat]
  BY <1>0 DEF AccountsSound, AccountsTypeOK
<1>1. CASE UNCHANGED <<users, desk, lastPassword, crossed, dismissed, replaced>>
  BY <1>0, <1>1 DEF RevokeInv, DismissedAway, ReplacedGone, IsAbout
<1>2. ASSUME NEW h \in Desks, NEW d, Begun(h, d) PROVE RevokeInv'
  <2>1. /\ desk'[h] = d /\ (\A j \in Desks \ {h} : desk'[j] = desk[j]) /\ desk[h] = NoRequest
        /\ UNCHANGED <<users, lastPassword, dismissed, replaced>>
        /\ d.of \in Users
    <3>1. desk' = [desk EXCEPT ![h] = d] /\ desk[h] = NoRequest
          /\ UNCHANGED <<users, lastPassword, dismissed, replaced>>
      BY <1>2 DEF Begun
    <3> QED BY <1>0, <1>2, <3>1, DeskStep, BegunOf
  <2>2. d.at # "load" /\ users[d.of] # None =>
          d.row.active = users[d.of].active /\ d.row.pass = users[d.of].pass
    BY <1>2 DEF Begun
  <2>3. d.at # "load" /\ users[d.of] = None => d.row.pass \in {1, lastPassword}
    BY <1>2 DEF Begun
  <2>4. DismissedAway'
    BY <1>0, <2>1, <2>2 DEF DismissedAway, IsAbout
  <2>5. ASSUME d.at # "load" PROVE d.row.pass \in 1..lastPassword \ replaced[d.of]
    BY <1>0, <2>1, <2>2, <2>3, <2>5 DEF ReplacedGone
  <2>6. ReplacedGone'
    BY <1>0, <2>1, <2>5 DEF ReplacedGone, IsAbout
  <2> QED BY <1>0, <2>1, <2>4, <2>6 DEF RevokeInv
<1>3. ASSUME NEW h \in Desks, desk[h] # NoRequest, NEW e, Goes(h, e) PROVE RevokeInv'
  <2>1. /\ desk'[h] = e /\ (\A j \in Desks \ {h} : desk'[j] = desk[j])
        /\ UNCHANGED <<users, dismissed, replaced>>
        /\ e.of = desk[h].of /\ e.op = desk[h].op /\ e.of \in Users /\ users[e.of] # None
        /\ lastPassword' \in Nat /\ lastPassword' >= lastPassword
    BY <1>0, <1>3, DeskStep, RequestFacts DEF Goes
  <2>2. ASSUME e.of \in dismissed, e.op # "status" PROVE ~e.row.active
    <3>1. IsAbout(h, e.of) /\ ~users[e.of].active
      BY <1>0, <1>3, <2>1, <2>2 DEF IsAbout, DismissedAway
    <3>2. desk[h].at # "load" => ~desk[h].row.active
      BY <1>0, <2>1, <2>2, <3>1 DEF DismissedAway
    <3> QED BY <1>3, <2>1, <2>2, <3>1, <3>2 DEF Goes
  <2>3. DismissedAway'
    BY <1>0, <2>1, <2>2 DEF DismissedAway, IsAbout
  <2>4. e.row.pass \in 1..lastPassword' \ replaced[e.of]
    <3>1. IsAbout(h, e.of)
      BY <1>3, <2>1 DEF IsAbout
    <3>2. /\ replaced[e.of] \subseteq 1..lastPassword
          /\ users[e.of].pass \in 1..lastPassword \ replaced[e.of]
          /\ desk[h].at # "load" => desk[h].row.pass \in 1..lastPassword \ replaced[e.of]
      BY <1>0, <2>1, <3>1 DEF ReplacedGone
    <3>3. \/ e.row.pass = users[e.of].pass
          \/ e.row.pass = lastPassword' /\ lastPassword' = lastPassword + 1
          \/ desk[h].at # "load" /\ e.row.pass = desk[h].row.pass
      BY <1>3, <2>1 DEF Goes
    <3> QED BY <1>0, <2>1, <3>2, <3>3
  <2>5. 1..lastPassword \subseteq 1..lastPassword'
    BY <1>0, <2>1
  <2>6. ReplacedGone'
    BY <1>0, <2>1, <2>4, <2>5 DEF ReplacedGone, IsAbout
  <2> QED BY <1>0, <2>1, <2>3, <2>6 DEF RevokeInv
<1>4. ASSUME NEW h \in Desks, Dropped(h) PROVE RevokeInv'
  <2>1. /\ desk'[h] = NoRequest /\ (\A j \in Desks \ {h} : desk'[j] = desk[j])
        /\ UNCHANGED <<users, lastPassword, dismissed, replaced>>
    BY <1>0, <1>4, DeskStep DEF Dropped
  <2>2. \A j \in Desks : \A u : IsAbout(j, u)' => j # h /\ IsAbout(j, u) /\ desk'[j] = desk[j]
    BY <2>1 DEF IsAbout
  <2> QED BY <1>0, <2>1, <2>2 DEF RevokeInv, DismissedAway, ReplacedGone
<1>5. ASSUME NEW h \in Desks, desk[h] # NoRequest, Saved(h) PROVE RevokeInv'
  <2> DEFINE d == desk[h]
             u == d.of
             alone == ~OthersOn(h, u)
  <2>1. /\ desk'[h] = NoRequest /\ (\A j \in Desks \ {h} : desk'[j] = desk[j])
        /\ lastPassword' = lastPassword
    BY <1>0, <1>5, DeskStep DEF Saved
  <2>2. \A j \in Desks : \A w : IsAbout(j, w)' => j # h /\ IsAbout(j, w) /\ desk'[j] = desk[j]
    BY <2>1 DEF IsAbout
  <2>3. d \in AccountsRequest /\ WellAsked(d) /\ u \in Users /\ d.row \in UserRow /\ d.at = "save" /\ IsAbout(h, u)
    BY <1>0, <1>5, RequestFacts DEF WellAsked, Saved, IsAbout
  <2>4. users'[u] = d.row /\ (\A w \in Users \ {u} : users'[w] = users[w]) /\ d.row # None
    BY <1>0, <1>5, <2>3, RowFacts DEF Saved, AccountsSound, AccountsTypeOK
  <2>5. alone => \A j \in Desks \ {h} : ~IsAbout(j, u)
    BY DEF OthersOn
  <2>6. dismissed' = IF users[u] # None /\ users[u].active /\ ~d.row.active /\ alone THEN dismissed \cup {u}
                     ELSE IF d.op = "status" /\ d.row.active THEN dismissed \ {u} ELSE dismissed
    BY <1>5 DEF Saved, Noted
  <2>7. replaced' = IF users[u] # None /\ users[u].pass # d.row.pass /\ alone
                    THEN [replaced EXCEPT ![u] = (@ \cup {users[u].pass}) \ {d.row.pass}] ELSE replaced
    BY <1>5 DEF Saved, Noted
  <2>8. DismissedAway'
    <3> SUFFICES ASSUME NEW w \in dismissed'
                 PROVE  /\ users'[w] # None /\ ~users'[w].active
                        /\ \A j \in Desks : IsAbout(j, w)' /\ desk'[j].at # "load" /\ desk'[j].op # "status"
                                              => ~desk'[j].row.active
      BY DEF DismissedAway
    <3>1. CASE w # u
      <4>1. w \in dismissed /\ w \in Users
        BY <1>00, <2>6, <3>1
      <4> QED BY <1>0, <2>2, <2>4, <3>1, <4>1 DEF DismissedAway
    <3>2. CASE w = u
      <4>1. ~d.row.active
        <5>1. d.row.active \in BOOLEAN
          BY <2>3 DEF UserRow
        <5>2. CASE d.row.active
          BY <1>0, <2>3, <2>6, <3>2, <5>2 DEF DismissedAway
        <5> QED BY <5>1, <5>2
      <4>2. CASE w \in dismissed
        BY <1>0, <2>2, <2>4, <3>2, <4>1, <4>2 DEF DismissedAway
      <4>3. CASE w \notin dismissed
        BY <2>2, <2>4, <2>5, <2>6, <3>2, <4>1, <4>3
      <4> QED BY <4>2, <4>3
    <3> QED BY <3>1, <3>2
  <2>9. ReplacedGone'
    <3> SUFFICES ASSUME NEW w \in Users
                 PROVE  /\ replaced'[w] \subseteq 1..lastPassword'
                        /\ users'[w] = None => replaced'[w] = {}
                        /\ users'[w] # None => users'[w].pass \in 1..lastPassword' \ replaced'[w]
                        /\ \A j \in Desks : IsAbout(j, w)' /\ desk'[j].at # "load"
                                              => desk'[j].row.pass \in 1..lastPassword' \ replaced'[w]
      BY DEF ReplacedGone
    <3>0. /\ replaced[w] \subseteq 1..lastPassword
          /\ users[w] # None => users[w].pass \in 1..lastPassword \ replaced[w]
          /\ users[w] = None => replaced[w] = {}
          /\ \A j \in Desks : IsAbout(j, w) /\ desk[j].at # "load"
                                => desk[j].row.pass \in 1..lastPassword \ replaced[w]
      BY <1>0 DEF ReplacedGone
    <3>1. CASE w # u
      <4>1. replaced'[w] = replaced[w]
        BY <1>00, <2>3, <2>7, <3>1
      <4> QED BY <2>1, <2>2, <2>4, <3>0, <3>1, <4>1
    <3>2. CASE w = u
      <4>1. d.row.pass \in 1..lastPassword \ replaced[u]
        BY <2>3, <3>0, <3>2
      <4>2. CASE replaced'[u] = replaced[u]
        BY <2>1, <2>2, <2>4, <3>0, <3>2, <4>1, <4>2
      <4>3. CASE replaced'[u] # replaced[u]
        <5>1. /\ replaced'[u] = (replaced[u] \cup {users[u].pass}) \ {d.row.pass}
              /\ users[u] # None /\ \A j \in Desks \ {h} : ~IsAbout(j, u)
          BY <1>00, <2>3, <2>5, <2>7, <4>3
        <5> QED BY <2>1, <2>2, <2>4, <3>0, <3>2, <4>1, <5>1
      <4> QED BY <4>2, <4>3
    <3> QED BY <3>1, <3>2
  <2> QED BY <1>0, <2>1, <2>8, <2>9 DEF RevokeInv
<1> QED BY <1>1, <1>2, <1>3, <1>4, <1>5, <1>0, AccountsStep DEF AtDesk

\* StaffAccounts!RevocationsHold: whoever was dismissed and whichever password was replaced, while
\* no other request about that user was under way, starts no request again before the user
\* is activated again.
THEOREM RevocationsKept == AccountsSpec => RevocationsHold
<1>1. AccountsInit => RevokeInv
  <2> SUFFICES ASSUME AccountsInit PROVE RevokeInv
    OBVIOUS
  <2>1. desk = [h \in Desks |-> NoRequest] /\ lastPassword = 1 /\ dismissed = {} /\ replaced = [u \in Users |-> {}]
    BY DEF AccountsInit
  <2>2. \A u \in Users : users[u] # None => users[u].pass = 1
    BY DEF AccountsInit
  <2>3. DismissedAway /\ ReplacedGone
    BY <2>1, <2>2 DEF DismissedAway, ReplacedGone, IsAbout
  <2> QED BY <2>1, <2>3, SoundInit DEF RevokeInv
<1>2. RevokeInv /\ [AccountsNext]_accountsVars => RevokeInv'
  BY RevokeStep
<1>3. ASSUME RevokeInv, [AccountsNext]_accountsVars, NEW h \in Desks, desk[h] = NoRequest, desk'[h] # NoRequest
      PROVE  /\ desk'[h].by \notin dismissed
             /\ desk'[h].op = "login" => desk'[h].to \notin replaced[desk'[h].of]
  <2>1. AccountsSound /\ DismissedAway /\ ReplacedGone /\ dismissed \subseteq Users
    BY <1>3 DEF RevokeInv, AccountsSound, AccountsTypeOK
  <2>2. PICK k \in Desks : AtDesk(k)
    BY <1>3, <2>1, AccountsStep
  <2>3. PICK d : Begun(h, d)
    <3>1. ASSUME NEW e, Goes(k, e) PROVE k = h
      BY <1>3, <2>1, <3>1, DeskStep DEF Goes
    <3>2. ASSUME Dropped(k) PROVE k = h
      BY <1>3, <2>1, <3>2, DeskStep DEF Dropped
    <3>3. ASSUME Saved(k) PROVE k = h
      BY <1>3, <2>1, <3>3, DeskStep DEF Saved
    <3>4. ASSUME NEW d, Begun(k, d) PROVE k = h
      BY <1>3, <2>1, <3>4, DeskStep DEF Begun
    <3> QED BY <1>3, <2>2, <3>1, <3>2, <3>3, <3>4 DEF AtDesk
  <2>4. desk'[h] = d /\ d.of \in Users
    <3>1. desk' = [desk EXCEPT ![h] = d]
      BY <2>3 DEF Begun
    <3> QED BY <2>1, <2>3, <3>1, DeskStep, BegunOf
  <2>5. d.by \notin dismissed
    BY <2>1, <2>3, AccountsAssumption DEF Begun, DismissedAway, Support
  <2>6. d.op = "login" => d.to \notin replaced[d.of]
    BY <2>1, <2>3, <2>4 DEF Begun, ReplacedGone
  <2> QED BY <2>4, <2>5, <2>6
<1>4. RevokeInv /\ [AccountsNext]_accountsVars
        => [\A h \in Desks : desk[h] = NoRequest /\ desk'[h] # NoRequest =>
              /\ desk'[h].by \notin dismissed
              /\ desk'[h].op = "login" => desk'[h].to \notin replaced[desk'[h].of]]_accountsVars
  BY <1>3
<1> QED BY <1>1, <1>2, <1>4, PTL DEF AccountsSpec, RevocationsHold

---------------------------------------------------------------------------
(* DeliveryLifecycle: deliveries, their orders and slots, for whatever the *)
(* operators report and whether servers die or not                         *)

USE VersionAssumption, NobodyAssumption, OperatorAssumption

---------------------------------------------------------------------------
(* the status machine *)

\* DELIVERY_STATUS_TRANSITIONS leads from no terminal status anywhere.
LEMMA TerminalIsFinal ==
  ASSUME NEW from \in Terminal, NEW to
  PROVE  <<from, to>> \notin Transitions
BY DEF Terminal, Transitions

\* Both ends of a transition are statuses.
LEMMA TransitionStatus ==
  ASSUME NEW from, NEW to, <<from, to>> \in Transitions
  PROVE  from \in Status /\ to \in Status
<1>1. from = <<from, to>>[1] /\ to = <<from, to>>[2]
  OBVIOUS
<1> QED BY <1>1 DEF Status

\* The statuses the commands name.
LEMMA StatusNames ==
  {"PENDING", "ACCEPTED", "PREPARING", "READY", "ASSIGNED", "PICKED_UP", "IN_TRANSIT", "ARRIVED",
   "DELIVERED", "FAILED"} \subseteq Status
<1>1. /\ <<"PENDING", "ACCEPTED">> \in Transitions /\ <<"ACCEPTED", "PREPARING">> \in Transitions
      /\ <<"PREPARING", "READY">> \in Transitions /\ <<"READY", "ASSIGNED">> \in Transitions
      /\ <<"ASSIGNED", "PICKED_UP">> \in Transitions /\ <<"PICKED_UP", "IN_TRANSIT">> \in Transitions
      /\ <<"IN_TRANSIT", "ARRIVED">> \in Transitions /\ <<"ARRIVED", "DELIVERED">> \in Transitions
      /\ <<"ARRIVED", "FAILED">> \in Transitions
  BY DEF Transitions
<1> QED BY <1>1, TransitionStatus

---------------------------------------------------------------------------
(* type correctness *)

\* Saving a status with the next version keeps the rows well-typed.
LEMMA SaveType ==
  ASSUME TypeOK, NEW d, NEW s \in Status, Save(d, s)
  PROVE  rows' \in [Deliveries -> Row]
<1>1. ASSUME NEW r \in Row PROVE [r EXCEPT !.status = s, !.version = r.version + 1] \in Row
  <2>1. ASSUME NEW n \in Nat PROVE [r EXCEPT !.status = s, !.version = n] \in Row
    BY DEF Row
  <2>2. r.version + 1 \in Nat
    BY DEF Row
  <2> QED BY <2>1, <2>2
<1>2. rows' = [e \in Deliveries |-> IF e = d THEN [rows[e] EXCEPT !.status = s, !.version = rows[e].version + 1]
                                   ELSE rows[e]]
  BY DEF Save, TypeOK, Row
<1>3. \A e \in Deliveries : rows[e] \in Row
  BY DEF TypeOK
<1> QED BY <1>1, <1>2, <1>3

\* A handler that starts, goes on or ends stays well-typed.
LEMMA HandlerType ==
  ASSUME TypeOK, NEW h \in Handlers
  PROVE  /\ Done(h) => handlers' \in [Handlers -> Handler]
         /\ \A d \in Deliveries, p \in {"prepare", "ready", "release"} :
              Run(h, p, d) => handlers' \in [Handlers -> Handler]
         /\ handlers[h] \in Handler
<1>1. Idle \in Handler
  BY DEF Idle, Handler
<1>2. ASSUME NEW d \in Deliveries, NEW p \in {"prepare", "ready", "release"}
      PROVE  [Idle EXCEPT !.pc = p, !.delivery = d] \in Handler
  BY DEF Idle, Handler
<1>3. ASSUME NEW r \in Handler PROVE [handlers EXCEPT ![h] = r] \in [Handlers -> Handler]
  BY DEF TypeOK
<1>4. Done(h) => handlers' \in [Handlers -> Handler]
  BY <1>1, <1>3 DEF Done
<1>5. ASSUME NEW d \in Deliveries, NEW p \in {"prepare", "ready", "release"}, Run(h, p, d)
      PROVE  handlers' \in [Handlers -> Handler]
  BY <1>2, <1>3, <1>5 DEF Run
<1>6. handlers[h] \in Handler
  BY DEF TypeOK
<1> QED BY <1>4, <1>5, <1>6

\* A handler that runs has a delivery.
HandlersRun == \A h \in Handlers : handlers[h].pc # "idle" => handlers[h].delivery \in Deliveries
RowsOK == TypeOK /\ HandlersRun

\* Only deliveries are asked for, and only theirs come to nothing.
LEMMA AskingStep ==
  ASSUME RowsOK, [Next]_vars
  PROVE  requested' \subseteq Deliveries /\ missed' \subseteq Deliveries
<1>0. TypeOK /\ HandlersRun
  BY DEF RowsOK
<1>a. UNCHANGED asking => requested' \subseteq Deliveries /\ missed' \subseteq Deliveries
  BY <1>0 DEF asking, TypeOK
<1>b. ASSUME NEW d \in Deliveries, AskFor(d) PROVE requested' \subseteq Deliveries /\ missed' \subseteq Deliveries
  BY <1>0, <1>b DEF AskFor, TypeOK
<1>1. ASSUME NEW d \in Deliveries, PaymentNotice(d) \/ RequestLost(d) \/ \E o \in Orders : OrderMoves(d, o)
      PROVE  requested' \subseteq Deliveries /\ missed' \subseteq Deliveries
  BY <1>0, <1>1, <1>a, <1>b DEF PaymentNotice, RequestLost, OrderMoves, TypeOK
<1>2. ASSUME NEW d \in Deliveries, NEW h \in Handlers, ReconcileRead(h, d)
      PROVE  requested' \subseteq Deliveries /\ missed' \subseteq Deliveries
  BY <1>0, <1>2 DEF ReconcileRead, TypeOK
<1>3. ASSUME NEW h \in Handlers, ReconcileRefused(h) \/ Dies(h)
      PROVE  requested' \subseteq Deliveries /\ missed' \subseteq Deliveries
  <2>1. handlers[h].pc # "idle" => handlers[h].delivery \in Deliveries
    BY <1>0 DEF HandlersRun
  <2>2. \/ UNCHANGED asking
        \/ handlers[h].delivery \in Deliveries /\ requested' = requested /\ missed' = missed \cup {handlers[h].delivery}
    BY <1>3, <2>1 DEF ReconcileRefused, Dies, asking
  <2> QED BY <1>0, <1>a, <2>2 DEF TypeOK
<1>4. ASSUME NEW d \in Deliveries
      PROVE  /\ Accept(d) \/ Return(d) \/ Override(d) \/ StartOwn(d) \/ ConvertToOwn(d) => UNCHANGED asking
             /\ \A s : DriverMoves(d, s) \/ OperatorReports(d, s) => UNCHANGED asking
  BY DEF Accept, Return, Override, StartOwn, ConvertToOwn, DriverMoves, OperatorReports
<1>5. ASSUME NEW d \in Deliveries, NEW h \in Handlers
      PROVE  /\ Cancel(h, d) \/ Reject(h, d) \/ CompleteOwn(h, d) \/ CompleteOwnAgain(h, d) => UNCHANGED asking
             /\ \A driver : AssignCheck(h, d, driver) => UNCHANGED asking
  BY DEF Cancel, Reject, CompleteOwn, CompleteOwnAgain, AssignCheck
<1>6. ASSUME NEW h \in Handlers
      PROVE  /\ ReconcilePrepare(h) \/ ReconcileReady(h) \/ ReleaseSlot(h) => UNCHANGED asking
             /\ AssignRead(h) \/ AssignWrite(h) => UNCHANGED asking
  BY DEF ReconcilePrepare, ReconcileReady, ReleaseSlot, AssignRead, AssignWrite
<1>7. UNCHANGED vars => UNCHANGED asking
  BY DEF vars
<1> QED BY <1>a, <1>1, <1>2, <1>3, <1>4, <1>5, <1>6, <1>7 DEF Next, HandlerStep

\* Type correctness and the handlers' deliveries are inductive.
LEMMA RowsStep ==
  ASSUME RowsOK, [Next]_vars
  PROVE  RowsOK'
<1> USE StatusNames
<1>0. TypeOK /\ HandlersRun /\ requested' \subseteq Deliveries /\ missed' \subseteq Deliveries
  BY AskingStep DEF RowsOK
<1>a. ASSUME NEW h \in Handlers, UNCHANGED <<rows, trips, slots, orders>>, Done(h) PROVE RowsOK'
  BY <1>0, <1>a, HandlerType DEF RowsOK, TypeOK, HandlersRun, Done, Idle
<1>b. ASSUME NEW h \in Handlers, NEW r \in Handler, r.delivery \in Deliveries,
             handlers' = [handlers EXCEPT ![h] = r]
      PROVE  handlers' \in [Handlers -> Handler] /\ HandlersRun'
  BY <1>0, <1>b DEF TypeOK, HandlersRun
<1>c. ASSUME NEW d \in Deliveries, NEW p \in {"prepare", "ready", "release"}
      PROVE  /\ [Idle EXCEPT !.pc = p, !.delivery = d] \in Handler
             /\ [Idle EXCEPT !.pc = p, !.delivery = d].delivery \in Deliveries
  BY DEF Idle, Handler
<1>d. ASSUME NEW h \in Handlers, Done(h) PROVE handlers' \in [Handlers -> Handler] /\ HandlersRun'
  BY <1>0, <1>d, HandlerType DEF TypeOK, HandlersRun, Done, Idle
<1>e. ASSUME UNCHANGED handlers PROVE handlers' \in [Handlers -> Handler] /\ HandlersRun'
  BY <1>0, <1>e DEF TypeOK, HandlersRun
<1>f. ASSUME NEW d, NEW to, Transition(d, to) PROVE rows' \in [Deliveries -> Row]
  BY <1>0, <1>f, TransitionStatus, SaveType DEF Transition
<1>1. ASSUME NEW d \in Deliveries, NEW o \in Orders, OrderMoves(d, o) PROVE RowsOK'
  <2>1. orders' \in [Deliveries -> [Orders -> {"PENDING", "ACCEPTED", "READY", "DELIVERED", "CANCELED"}]]
    BY <1>0, <1>1 DEF OrderMoves, TypeOK
  <2> QED BY <1>0, <1>1, <1>e, <2>1 DEF OrderMoves, RowsOK, TypeOK
<1>2. ASSUME NEW d \in Deliveries, Accept(d) \/ Return(d) PROVE RowsOK'
  BY <1>0, <1>2, <1>e, <1>f DEF Accept, Return, RowsOK, TypeOK
<1>3. ASSUME NEW d \in Deliveries, Override(d) PROVE RowsOK'
  BY <1>0, <1>3, <1>e, SaveType DEF Override, RowsOK, TypeOK
<1>4. ASSUME NEW d \in Deliveries, StartOwn(d) PROVE RowsOK'
  <2>1. trips' \in [Deliveries -> Trip]
    BY <1>0, <1>4 DEF StartOwn, TypeOK, Trip
  <2> QED BY <1>0, <1>4, <1>e, <2>1, SaveType DEF StartOwn, RowsOK, TypeOK
<1>5. ASSUME NEW d \in Deliveries, ConvertToOwn(d) PROVE RowsOK'
  <2>1. trips' \in [Deliveries -> Trip] /\ slots' \in [Deliveries -> {"NONE", "CONFIRMED", "RELEASED"}]
    BY <1>0, <1>5 DEF ConvertToOwn, TypeOK, Trip
  <2>2. rows' \in [Deliveries -> Row]
    BY <1>0, <1>5, SaveType DEF ConvertToOwn, TypeOK
  <2> QED BY <1>0, <1>5, <1>e, <2>1, <2>2 DEF ConvertToOwn, RowsOK, TypeOK
<1>6. ASSUME NEW d \in Deliveries, NEW to \in {"PICKED_UP", "ARRIVED", "DELIVERED", "FAILED"},
             DriverMoves(d, to)
      PROVE  RowsOK'
  BY <1>0, <1>6, <1>e, SaveType DEF DriverMoves, RowsOK, TypeOK
<1>7. ASSUME NEW d \in Deliveries, NEW status \in Reports, OperatorReports(d, status) PROVE RowsOK'
  <2>1. status \in Status /\ Undone(rows[d], status) \in BOOLEAN
    BY <1>0 DEF Undone, TypeOK, Row
  <2>2. \A e \in Deliveries : rows[e] \in Row
    BY <1>0 DEF TypeOK
  <2>3. [rows[d] EXCEPT !.status = status, !.undone = Undone(rows[d], status)] \in Row
    BY <2>1, <2>2 DEF Row
  <2>4. rows' = [rows EXCEPT ![d] = [rows[d] EXCEPT !.status = status, !.undone = Undone(rows[d], status)]]
    BY <1>7 DEF OperatorReports
  <2>5. rows' \in [Deliveries -> Row]
    BY <1>0, <2>3, <2>4 DEF TypeOK
  <2>6. trips' \in [Deliveries -> Trip]
    BY <1>0, <1>7 DEF OperatorReports, TypeOK, Trip
  <2> QED BY <1>0, <1>7, <1>e, <2>5, <2>6 DEF OperatorReports, RowsOK, TypeOK
<1>8. ASSUME NEW d \in Deliveries, NEW h \in Handlers, ReconcileRead(h, d) PROVE RowsOK'
  <2>1. AllReady(d) \in BOOLEAN
    BY DEF AllReady, AllIn
  <2>2. ASSUME NEW p \in {"prepare", "ready"}, NEW b \in BOOLEAN
        PROVE  /\ [Idle EXCEPT !.pc = p, !.delivery = d, !.ready = b] \in Handler
               /\ [Idle EXCEPT !.pc = p, !.delivery = d, !.ready = b].delivery \in Deliveries
    BY DEF Idle, Handler
  <2>3. handlers' \in [Handlers -> Handler] /\ HandlersRun'
    <3>1. \/ UNCHANGED handlers
          \/ \E p \in {"prepare", "ready"} :
               handlers' = [handlers EXCEPT ![h] = [Idle EXCEPT !.pc = p, !.delivery = d, !.ready = AllReady(d)]]
      BY <1>8 DEF ReconcileRead
    <3> QED BY <1>b, <1>e, <2>1, <2>2, <3>1
  <2> QED BY <1>0, <1>8, <2>3 DEF ReconcileRead, RowsOK, TypeOK
<1>9. ASSUME NEW d \in Deliveries, NEW h \in Handlers, Cancel(h, d) \/ Reject(h, d) PROVE RowsOK'
  <2>1. rows' \in [Deliveries -> Row]
    BY <1>9, <1>f DEF Cancel, Reject
  <2>2. handlers' \in [Handlers -> Handler] /\ HandlersRun'
    BY <1>9, <1>b, <1>c DEF Cancel, Reject, Run
  <2> QED BY <1>0, <1>9, <2>1, <2>2 DEF Cancel, Reject, RowsOK, TypeOK
<1>10. ASSUME NEW d \in Deliveries, NEW h \in Handlers, CompleteOwn(h, d) PROVE RowsOK'
  <2>1. rows' \in [Deliveries -> Row]
    BY <1>0, <1>10, SaveType DEF CompleteOwn
  <2>2. handlers' \in [Handlers -> Handler] /\ HandlersRun'
    BY <1>10, <1>b, <1>c DEF CompleteOwn, Run
  <2>3. trips' \in [Deliveries -> Trip]
    BY <1>0, <1>10 DEF CompleteOwn, TypeOK, Trip
  <2> QED BY <1>0, <1>10, <2>1, <2>2, <2>3 DEF CompleteOwn, RowsOK, TypeOK
<1>11. ASSUME NEW d \in Deliveries, NEW h \in Handlers, CompleteOwnAgain(h, d) PROVE RowsOK'
  <2>1. handlers' \in [Handlers -> Handler] /\ HandlersRun'
    BY <1>11, <1>b, <1>c DEF CompleteOwnAgain, Run
  <2> QED BY <1>0, <1>11, <2>1 DEF CompleteOwnAgain, RowsOK, TypeOK
<1>12. ASSUME NEW d \in Deliveries, NEW h \in Handlers, NEW driver \in Drivers, AssignCheck(h, d, driver)
       PROVE  RowsOK'
  <2>1. rows[d].version \in Nat
    BY <1>0 DEF TypeOK, Row
  <2>2. ASSUME NEW n \in Nat
        PROVE  LET r == [Idle EXCEPT !.pc = "assign", !.delivery = d, !.driver = driver, !.seen = n]
               IN  r \in Handler /\ r.delivery \in Deliveries
    BY DEF Idle, Handler
  <2>3. handlers' \in [Handlers -> Handler] /\ HandlersRun'
    BY <1>12, <1>b, <2>1, <2>2 DEF AssignCheck
  <2> QED BY <1>0, <1>12, <2>3 DEF AssignCheck, RowsOK, TypeOK
<1>13. ASSUME NEW h \in Handlers, ReconcilePrepare(h) \/ ReconcileReady(h) PROVE RowsOK'
  <2>1. handlers[h].delivery \in Deliveries
    BY <1>0, <1>13 DEF ReconcilePrepare, ReconcileReady, HandlersRun
  <2>2. rows' \in [Deliveries -> Row]
    BY <1>13, <1>f DEF ReconcilePrepare, ReconcileReady
  <2>3. handlers' \in [Handlers -> Handler] /\ HandlersRun'
    BY <1>13, <1>b, <1>c, <1>d, <2>1 DEF ReconcilePrepare, ReconcileReady, Run
  <2> QED BY <1>0, <1>13, <2>2, <2>3 DEF ReconcilePrepare, ReconcileReady, RowsOK, TypeOK
<1>14. ASSUME NEW h \in Handlers, ReconcileRefused(h) \/ Dies(h) PROVE RowsOK'
  BY <1>14, <1>a DEF ReconcileRefused, Dies
<1>15. ASSUME NEW h \in Handlers, ReleaseSlot(h) PROVE RowsOK'
  <2>1. slots' \in [Deliveries -> {"NONE", "CONFIRMED", "RELEASED"}]
    BY <1>0, <1>15 DEF ReleaseSlot, TypeOK
  <2> QED BY <1>0, <1>15, <1>d, <2>1 DEF ReleaseSlot, RowsOK, TypeOK
<1>16. ASSUME NEW h \in Handlers, AssignRead(h) PROVE RowsOK'
  <2>1. [handlers[h] EXCEPT !.pc = "write"] \in Handler
    BY HandlerType, <1>0 DEF Handler
  <2>2. [handlers[h] EXCEPT !.pc = "write"].delivery \in Deliveries
    BY <1>0, <1>16, HandlerType DEF AssignRead, HandlersRun, Handler
  <2>3. handlers' = [handlers EXCEPT ![h] = [handlers[h] EXCEPT !.pc = "write"]] \/ Done(h)
    BY <1>16 DEF AssignRead, Done
  <2>4. handlers' \in [Handlers -> Handler] /\ HandlersRun'
    BY <1>b, <1>d, <2>1, <2>2, <2>3
  <2> QED BY <1>0, <1>16, <2>4 DEF AssignRead, RowsOK, TypeOK
<1>17. ASSUME NEW h \in Handlers, AssignWrite(h) PROVE RowsOK'
  <2> DEFINE d == handlers[h].delivery
  <2>1. d \in Deliveries /\ handlers[h] \in Handler
    BY <1>0, <1>17, HandlerType DEF AssignWrite, HandlersRun
  <2>2. handlers[h].seen + 1 \in Nat /\ handlers[h].driver \in Drivers \cup {NoDriver}
    BY <2>1 DEF Handler
  <2>3. Undone(rows[d], "ASSIGNED") \in BOOLEAN
    BY <1>0, <2>1 DEF Undone, TypeOK, Row
  <2>4. [status |-> "ASSIGNED", version |-> handlers[h].seen + 1, driver |-> handlers[h].driver,
         undone |-> Undone(rows[d], "ASSIGNED")] \in Row
    BY <2>2, <2>3 DEF Row
  <2>5. rows' \in [Deliveries -> Row]
    BY <1>0, <1>17, <2>1, <2>4 DEF AssignWrite, TypeOK
  <2> QED BY <1>0, <1>17, <1>d, <2>5 DEF AssignWrite, RowsOK, TypeOK
<1>18. ASSUME NEW d \in Deliveries, PaymentNotice(d) \/ RequestLost(d) PROVE RowsOK'
  BY <1>0, <1>18, <1>e DEF PaymentNotice, RequestLost, RowsOK, TypeOK
<1>19. CASE UNCHANGED vars
  BY <1>0, <1>19 DEF vars, RowsOK, TypeOK, HandlersRun
<1> QED
  BY <1>1, <1>2, <1>3, <1>4, <1>5, <1>6, <1>7, <1>8, <1>9, <1>10, <1>11, <1>12, <1>13, <1>14,
     <1>15, <1>16, <1>17, <1>18, <1>19 DEF Next, HandlerStep

\* A paid delivery starts well-typed, with every handler idle.
LEMMA RowsInit ==
  ASSUME Init
  PROVE  RowsOK
<1>1. ASSUME NEW s \in {"PENDING", "ACCEPTED"} PROVE [NoRow EXCEPT !.status = s, !.version = 1] \in Row
  BY StatusNames DEF NoRow, Row
<1>2. rows \in [Deliveries -> Row] /\ trips \in [Deliveries -> Trip]
  BY <1>1 DEF Init, Trip
<1>3. slots \in [Deliveries -> {"NONE", "CONFIRMED", "RELEASED"}]
  BY DEF Init
<1> QED BY <1>2, <1>3 DEF Init, RowsOK, TypeOK, HandlersRun, Idle, Handler

\* The type invariant of deliveries, fulfillments, slots, orders and handlers.
THEOREM TypeCorrect == Spec => []TypeOK
<1>1. RowsOK => TypeOK
  BY DEF RowsOK
<1> QED BY RowsInit, RowsStep, <1>1, PTL DEF Spec

---------------------------------------------------------------------------
(* the end of a delivery *)

\* A handler is about to save an assignment over the row it read.
AssignmentPending(d) == \E h \in Handlers : handlers[h].pc = "write" /\ handlers[h].delivery = d

\* What a step may do to a row: leave it, move it on from where it had not
\* ended, or, by a report or a stale assignment, take it anywhere.
RowMoves(d) ==
  \/ rows'[d] = rows[d]
  \/ rows[d].status \notin Terminal /\ rows'[d].undone = rows[d].undone
  \/ /\ trips[d] = "EXTERNAL" \/ AssignmentPending(d)
     /\ rows'[d].undone = Undone(rows[d], rows'[d].status)

\* A save touches one row and does not mark it as taken back.
LEMMA SaveMoves ==
  ASSUME TypeOK, NEW e \in Deliveries, NEW s, Save(e, s), rows[e].status \notin Terminal,
         NEW d \in Deliveries
  PROVE  RowMoves(d)
<1>1. CASE d # e
  BY <1>1 DEF Save, TypeOK, RowMoves
<1>2. CASE d = e
  BY <1>2 DEF Save, TypeOK, Row, RowMoves
<1> QED BY <1>1, <1>2

\* Every step moves every row in one of these ways.
LEMMA EveryRowMoves ==
  ASSUME RowsOK, [Next]_vars, NEW d \in Deliveries
  PROVE  RowMoves(d)
<1>0. TypeOK /\ HandlersRun
  BY DEF RowsOK
<1>a. ASSUME NEW e \in Deliveries, NEW to, Transition(e, to) PROVE RowMoves(d)
  BY <1>0, <1>a, SaveMoves, TerminalIsFinal DEF Transition
<1>b. ASSUME UNCHANGED rows PROVE RowMoves(d)
  BY <1>b DEF RowMoves
<1>1. ASSUME NEW e \in Deliveries, Accept(e) \/ Return(e) PROVE RowMoves(d)
  BY <1>1, <1>a DEF Accept, Return
<1>2. ASSUME NEW e \in Deliveries, Override(e) \/ StartOwn(e) \/ ConvertToOwn(e) PROVE RowMoves(d)
  BY <1>0, <1>2, <1>b, SaveMoves DEF Override, StartOwn, ConvertToOwn, Terminal
<1>3. ASSUME NEW e \in Deliveries, NEW to, DriverMoves(e, to) PROVE RowMoves(d)
  BY <1>0, <1>3, SaveMoves DEF DriverMoves, Terminal
<1>4. ASSUME NEW e \in Deliveries, NEW h \in Handlers, Cancel(h, e) \/ Reject(h, e) PROVE RowMoves(d)
  BY <1>4, <1>a DEF Cancel, Reject
<1>5. ASSUME NEW e \in Deliveries, NEW h \in Handlers, CompleteOwn(h, e) PROVE RowMoves(d)
  BY <1>0, <1>5, SaveMoves DEF CompleteOwn, Terminal
<1>6. ASSUME NEW h \in Handlers, ReconcilePrepare(h) \/ ReconcileReady(h) PROVE RowMoves(d)
  <2>1. handlers[h].delivery \in Deliveries
    BY <1>0, <1>6 DEF ReconcilePrepare, ReconcileReady, HandlersRun
  <2> QED BY <1>6, <1>a, <2>1 DEF ReconcilePrepare, ReconcileReady
<1>7. ASSUME NEW e \in Deliveries, NEW status, OperatorReports(e, status) PROVE RowMoves(d)
  <2>1. CASE d # e
    BY <1>0, <1>7, <2>1 DEF OperatorReports, TypeOK, RowMoves
  <2>2. CASE d = e
    BY <1>0, <1>7, <2>2 DEF OperatorReports, TypeOK, Row, RowMoves
  <2> QED BY <2>1, <2>2
<1>8. ASSUME NEW h \in Handlers, AssignWrite(h) PROVE RowMoves(d)
  <2>1. CASE d # handlers[h].delivery
    BY <1>0, <1>8, <2>1 DEF AssignWrite, TypeOK, RowMoves
  <2>2. CASE d = handlers[h].delivery
    <3>1. rows'[d].status = "ASSIGNED" /\ rows'[d].undone = Undone(rows[d], "ASSIGNED")
      BY <1>0, <1>8, <2>2 DEF AssignWrite, TypeOK
    <3> QED BY <1>8, <2>2, <3>1 DEF AssignWrite, AssignmentPending, RowMoves
  <2> QED BY <2>1, <2>2
<1> QED
  BY <1>b, <1>1, <1>2, <1>3, <1>4, <1>5, <1>6, <1>7, <1>8
     DEF Next, HandlerStep, OrderMoves, PaymentNotice, RequestLost, ReconcileRead, CompleteOwnAgain, AssignCheck,
         ReconcileRefused, ReleaseSlot, AssignRead, Dies, vars

\* A finished delivery stays as it finished, but for a stale assignment and an
\* operator's report.
THEOREM FinishedStays == Spec => TerminalKept
<1>1. ASSUME RowsOK, [Next]_vars, NEW d \in Deliveries, NEW s \in Terminal,
             rows[d].status = s, trips[d] # "EXTERNAL"
      PROVE  rows'[d].status = s \/ AssignmentPending(d)
  BY <1>1, EveryRowMoves DEF RowMoves
<1>2. RowsOK /\ [Next]_vars =>
        [\A d \in Deliveries : \A s \in Terminal :
           rows[d].status = s /\ trips[d] # "EXTERNAL" =>
             \/ rows'[d].status = s
             \/ \E h \in Handlers : handlers[h].pc = "write" /\ handlers[h].delivery = d]_vars
  BY <1>1 DEF AssignmentPending
<1> QED BY RowsInit, RowsStep, <1>2, PTL DEF Spec, TerminalKept

\* The delivery has ended, or had and was taken back.
Over(d) == rows[d].status \in Terminal \/ rows[d].undone

\* Slots are freed after the end; a handler about to free one saw the end.
SlotInv ==
  /\ RowsOK
  /\ SlotUntilTheEnd
  /\ \A h \in Handlers : handlers[h].pc = "release" => Over(handlers[h].delivery)

\* What is over stays over: an end that is taken back is marked.
LEMMA OverStays ==
  ASSUME RowsOK, [Next]_vars, NEW d \in Deliveries, Over(d)
  PROVE  Over(d)'
<1>1. CASE rows'[d] = rows[d]
  BY <1>1 DEF Over
<1>2. CASE rows[d].status \notin Terminal /\ rows'[d].undone = rows[d].undone
  BY <1>2 DEF Over
<1>3. CASE rows'[d].undone = Undone(rows[d], rows'[d].status)
  BY <1>3 DEF Over, Undone
<1> QED BY <1>1, <1>2, <1>3, EveryRowMoves DEF RowMoves

\* Only ReleaseSlot frees a slot, and only cancel, reject and completeOwn, in
\* the transaction that ends the delivery, send a handler there.
LEMMA SlotStep ==
  ASSUME SlotInv, [Next]_vars
  PROVE  SlotInv'
<1>0. RowsOK /\ RowsOK' /\ TypeOK /\ HandlersRun
  BY RowsStep DEF SlotInv, RowsOK
<1>1. ASSUME NEW d \in Deliveries, slots'[d] = "RELEASED" PROVE Over(d)'
  <2>1. slots[d] = "RELEASED" \/ \E h \in Handlers : handlers[h].pc = "release" /\ handlers[h].delivery = d
    <3>1. ASSUME NEW e \in Deliveries, ConvertToOwn(e) PROVE slots[d] = "RELEASED"
      BY <1>0, <1>1, <3>1 DEF ConvertToOwn, TypeOK
    <3>2. ASSUME NEW h \in Handlers, ReleaseSlot(h)
          PROVE  slots[d] = "RELEASED" \/ (handlers[h].pc = "release" /\ handlers[h].delivery = d)
      BY <1>0, <1>1, <3>2 DEF ReleaseSlot, TypeOK
    <3>3. CASE UNCHANGED slots
      BY <1>1, <3>3
    <3>4. ASSUME NEW e \in Deliveries
          PROVE  /\ \A o : OrderMoves(e, o) => UNCHANGED slots
                 /\ PaymentNotice(e) \/ RequestLost(e) => UNCHANGED slots
                 /\ Accept(e) \/ Return(e) \/ Override(e) \/ StartOwn(e) => UNCHANGED slots
                 /\ \A s : DriverMoves(e, s) \/ OperatorReports(e, s) => UNCHANGED slots
      BY DEF OrderMoves, PaymentNotice, RequestLost, Accept, Return, Override, StartOwn, DriverMoves,
             OperatorReports
    <3>5. ASSUME NEW e \in Deliveries, NEW h \in Handlers
          PROVE  /\ ReconcileRead(h, e) \/ Cancel(h, e) \/ Reject(h, e) => UNCHANGED slots
                 /\ CompleteOwn(h, e) \/ CompleteOwnAgain(h, e) => UNCHANGED slots
                 /\ \A driver : AssignCheck(h, e, driver) => UNCHANGED slots
      BY DEF ReconcileRead, Cancel, Reject, CompleteOwn, CompleteOwnAgain, AssignCheck
    <3>6. ASSUME NEW h \in Handlers
          PROVE  /\ ReconcilePrepare(h) \/ ReconcileReady(h) \/ ReconcileRefused(h) => UNCHANGED slots
                 /\ AssignRead(h) \/ AssignWrite(h) \/ Dies(h) => UNCHANGED slots
      BY DEF ReconcilePrepare, ReconcileReady, ReconcileRefused, AssignRead, AssignWrite, Dies
    <3>7. UNCHANGED vars => UNCHANGED slots
      BY DEF vars
    <3> QED
      BY <3>1, <3>2, <3>3, <3>4, <3>5, <3>6, <3>7 DEF Next, HandlerStep
  <2>2. Over(d)
    BY <2>1 DEF SlotInv, SlotUntilTheEnd, Over
  <2> QED BY <1>0, <2>2, OverStays
<1>2. ASSUME NEW h \in Handlers, handlers'[h].pc = "release",
             NEW d, d = handlers'[h].delivery
      PROVE  Over(d)'
  <2>1. d \in Deliveries
    BY <1>0, <1>2 DEF RowsOK, HandlersRun
  <2>2. CASE handlers'[h] = handlers[h]
    BY <1>0, <1>2, <2>1, <2>2, OverStays DEF SlotInv
  <2>3. ASSUME NEW e \in Deliveries, Cancel(h, e) \/ Reject(h, e) \/ CompleteOwn(h, e) PROVE Over(d)'
    <3>1. d = e
      <4>1. handlers'[h] = [Idle EXCEPT !.pc = "release", !.delivery = e]
        BY <1>0, <2>3 DEF Cancel, Reject, CompleteOwn, Run, TypeOK
      <4> QED BY <1>2, <4>1 DEF Idle
    <3>2. rows'[e].status \in Terminal
      BY <1>0, <2>3 DEF Cancel, Reject, CompleteOwn, Transition, Save, TypeOK, Row, Terminal
    <3> QED BY <3>1, <3>2 DEF Over
  <2>4. ASSUME NEW e \in Deliveries, CompleteOwnAgain(h, e) PROVE Over(d)'
    <3>1. d = e /\ Over(e)
      BY <1>0, <1>2, <2>4 DEF CompleteOwnAgain, Run, Idle, TypeOK, Over, Terminal
    <3> QED BY <1>0, <3>1, OverStays
  <2>5. \/ handlers'[h] = handlers[h]
        \/ \E e \in Deliveries : \/ Cancel(h, e) \/ Reject(h, e) \/ CompleteOwn(h, e)
                               \/ CompleteOwnAgain(h, e)
    <3>1. ASSUME NEW e \in Deliveries
          PROVE  /\ \A o : OrderMoves(e, o) => UNCHANGED handlers
                 /\ PaymentNotice(e) \/ RequestLost(e) => UNCHANGED handlers
                 /\ \/ Accept(e) \/ Return(e) \/ Override(e) \/ StartOwn(e) \/ ConvertToOwn(e)
                    => UNCHANGED handlers
                 /\ \A s : DriverMoves(e, s) \/ OperatorReports(e, s) => UNCHANGED handlers
      BY DEF OrderMoves, PaymentNotice, RequestLost, Accept, Return, Override, StartOwn, ConvertToOwn, DriverMoves,
             OperatorReports
    <3>2. ASSUME NEW g \in Handlers, g # h, NEW e \in Deliveries
          PROVE  /\ ReconcileRead(g, e) \/ Cancel(g, e) \/ Reject(g, e) => handlers'[h] = handlers[h]
                 /\ CompleteOwn(g, e) \/ CompleteOwnAgain(g, e) => handlers'[h] = handlers[h]
                 /\ \A driver : AssignCheck(g, e, driver) => handlers'[h] = handlers[h]
      BY <1>0, <3>2 DEF TypeOK, ReconcileRead, Cancel, Reject, CompleteOwn, CompleteOwnAgain,
                        AssignCheck, Run
    <3>3. ASSUME NEW g \in Handlers, g # h
          PROVE  HandlerStep(g) \/ Dies(g) => handlers'[h] = handlers[h]
      BY <1>0, <3>3 DEF TypeOK, HandlerStep, ReconcilePrepare, ReconcileReady, ReconcileRefused,
                        ReleaseSlot, AssignRead, AssignWrite, Dies, Run, Done
    <3>4. ASSUME NEW e \in Deliveries
          PROVE  /\ ReconcileRead(h, e) => handlers'[h] = handlers[h]
                 /\ \A driver : ~AssignCheck(h, e, driver)
      <4>1. ReconcileRead(h, e) => UNCHANGED handlers \/ handlers'[h].pc \in {"prepare", "ready"}
        <5>1. ASSUME NEW p, NEW r PROVE [Idle EXCEPT !.pc = p, !.delivery = e, !.ready = r].pc = p
          BY DEF Idle
        <5>2. ASSUME ReconcileRead(h, e), handlers' # handlers
              PROVE  \E p \in {"prepare", "ready"} : handlers' =
                       [handlers EXCEPT ![h] = [Idle EXCEPT !.pc = p, !.delivery = e, !.ready = AllReady(e)]]
          BY <5>2 DEF ReconcileRead
        <5>3. ASSUME NEW p, handlers' =
                       [handlers EXCEPT ![h] = [Idle EXCEPT !.pc = p, !.delivery = e, !.ready = AllReady(e)]]
              PROVE  handlers'[h].pc = p
          BY <1>0, <5>1, <5>3 DEF TypeOK
        <5> QED BY <5>2, <5>3
      <4>2. ASSUME NEW driver PROVE AssignCheck(h, e, driver) => handlers'[h].pc = "assign"
        <5>1. ASSUME NEW v PROVE [Idle EXCEPT !.pc = "assign", !.delivery = e, !.driver = driver, !.seen = v].pc = "assign"
          BY DEF Idle
        <5> QED BY <1>0, <5>1 DEF AssignCheck, TypeOK
      <4> QED BY <1>2, <4>1, <4>2
    <3>5. ~HandlerStep(h) /\ ~Dies(h)
      <4>1. ~Done(h) /\ \A e : ~Run(h, "ready", e)
        <5>1. ASSUME NEW e PROVE /\ Idle.pc = "idle"
                                 /\ [Idle EXCEPT !.pc = "ready", !.delivery = e].pc = "ready"
          BY DEF Idle
        <5> QED BY <1>0, <1>2, <5>1 DEF Done, Run, TypeOK
      <4>2. ~AssignRead(h)
        BY <1>0, <1>2 DEF AssignRead, TypeOK, Handler, Idle
      <4> QED BY <4>1, <4>2 DEF HandlerStep, ReconcilePrepare, ReconcileReady, ReconcileRefused,
                              ReleaseSlot, AssignWrite, Dies
    <3>6. ASSUME NEW g \in Handlers, HandlerStep(g) \/ Dies(g) PROVE handlers'[h] = handlers[h]
      BY <3>3, <3>5, <3>6
    <3>7. ASSUME NEW e \in Deliveries, NEW g \in Handlers
          PROVE  /\ ReconcileRead(g, e) => handlers'[h] = handlers[h]
                 /\ \A driver : AssignCheck(g, e, driver) => handlers'[h] = handlers[h]
      BY <3>2, <3>4
    <3> QED BY <3>1, <3>2, <3>6, <3>7 DEF Next, vars
  <2> QED BY <2>2, <2>3, <2>4, <2>5
<1> QED BY <1>0, <1>1, <1>2 DEF SlotInv, SlotUntilTheEnd, Over

\* While its delivery is still to be made, nobody frees its slot.
THEOREM SlotKept == Spec => []SlotUntilTheEnd
<1>1. Init => SlotInv
  BY RowsInit DEF Init, SlotInv, SlotUntilTheEnd, Idle
<1>2. SlotInv /\ [Next]_vars => SlotInv'
  BY SlotStep
<1>3. SlotInv => SlotUntilTheEnd
  BY DEF SlotInv
<1> QED BY <1>1, <1>2, <1>3, PTL DEF Spec

---------------------------------------------------------------------------
(* DeliveryTracking: the estimate of the arrival *)

\* The newest position is one of the samples.
SamplesBounded ==
  /\ samples \subseteq Nat
  /\ samples # {} => \E t \in samples : \A u \in samples : u <= t

Calculates(j) == estimate.running[j] # NoPlace

EstimatesTypeOK ==
  /\ SamplesBounded /\ clock \in Nat
  /\ estimate \in [timer : BOOLEAN, running : [Timers -> Nat \cup {NoPlace}], of : Nat]
  /\ excused \in BOOLEAN
  /\ delivery.status \in Located \cup Ended

\* While nothing excuses the estimate, one calculation runs at most, and the newest position
\* is the estimate's, or on its way there: to be published, on the timer, or in that calculation.
NewestOnItsWay ==
  \/ estimate.timer
  \/ \E said \in unsaid : said.kind = "location"
  \/ \E j \in Timers : Calculates(j) /\ estimate.running[j] = Newest
  \/ estimate.of = Newest /\ \A j \in Timers : ~Calculates(j)

EstimateInv ==
  /\ EstimatesTypeOK
  /\ ~excused => /\ \A j, k \in Timers : Calculates(j) /\ Calculates(k) => j = k
                 /\ NewestOnItsWay

\* A step that leaves the positions, the estimate and what is said of positions alone.
LEMMA EstimateLeft ==
  ASSUME EstimateInv, EstimatesTypeOK',
         UNCHANGED <<samples, estimate, excused>>,
         \A said \in unsaid : said.kind = "location" => said \in unsaid'
  PROVE  EstimateInv'
BY DEF EstimateInv, NewestOnItsWay, Calculates, Newest

LEMMA NewestIsNumber == SamplesBounded => Newest \in Nat
<1> SUFFICES ASSUME SamplesBounded, samples # {} PROVE Newest \in Nat
  BY DEF Newest
<1>1. \E t \in samples : \A u \in samples : u <= t
  BY DEF SamplesBounded
<1>2. Newest \in samples
  BY <1>1 DEF Newest
<1> QED BY <1>2 DEF SamplesBounded

LEMMA EstimateStep == EstimateInv /\ [TrackNext]_trackVars => EstimateInv'
<1> SUFFICES ASSUME EstimateInv, [TrackNext]_trackVars PROVE EstimateInv'
  OBVIOUS
<1>0. /\ EstimatesTypeOK /\ Newest \in Nat /\ NoPlace \notin Nat
      /\ MaxClock \in Nat
  BY NewestIsNumber, NowhereAssumption, TrackBounds DEF EstimateInv, EstimatesTypeOK
<1>a. estimate.running \in [Timers -> Nat \cup {NoPlace}]
  BY <1>0 DEF EstimatesTypeOK
<1>1. ASSUME NEW to \in {"PICKED_UP", "CANCELED", "DELIVERED"}, Command(to) PROVE EstimateInv'
  <2>1. EstimatesTypeOK'
    <3>1. delivery'.status = to
      BY <1>1 DEF Command
    <3> QED BY <1>0, <1>1, <3>1 DEF Command, EstimatesTypeOK, SamplesBounded, Located, Ended
  <2> QED BY <1>1, <2>1, EstimateLeft DEF Command
<1>2. ASSUME NEW status \in {"IN_TRANSIT", "DELIVERED"}, Report(status) PROVE EstimateInv'
  <2>1. EstimatesTypeOK'
    <3>1. delivery'.status = status
      BY <1>2 DEF Report
    <3> QED BY <1>0, <1>2, <3>1 DEF Report, EstimatesTypeOK, SamplesBounded, Located, Ended
  <2> QED BY <1>2, <2>1, EstimateLeft DEF Report
<1>3. ASSUME NEW time \in 0..MaxClock + 1, RecordLocation(time) PROVE EstimateInv'
  <2>1. samples' = samples \cup {time} /\ time \in Nat /\ \A u \in samples : u <= time
    <3>1. time >= Newest /\ time \in Nat /\ samples' = samples \cup {time}
      BY <1>0, <1>3 DEF RecordLocation
    <3>2. ASSUME samples # {} PROVE \A u \in samples : u <= Newest
      BY <1>0, <3>2 DEF EstimatesTypeOK, SamplesBounded, Newest
    <3> QED BY <1>0, <3>1, <3>2 DEF EstimatesTypeOK, SamplesBounded
  <2>2. SamplesBounded'
    BY <1>0, <2>1 DEF EstimatesTypeOK, SamplesBounded
  <2>3. EstimatesTypeOK'
    BY <1>0, <1>3, <2>2 DEF RecordLocation, EstimatesTypeOK
  <2>4. \E said \in unsaid' : said.kind = "location"
    <3> DEFINE said == [kind |-> "location", status |-> "NONE", place |-> time]
    <3>1. said \in unsaid'
      BY <1>3 DEF RecordLocation
    <3> QED BY <3>1
  <2> QED BY <1>3, <2>3, <2>4 DEF EstimateInv, RecordLocation, NewestOnItsWay, Calculates
<1>4. ASSUME NEW said \in unsaid, PublishRealtime(said) \/ PublishRealtimeFails(said) PROVE EstimateInv'
  <2>1. /\ estimate' = [estimate EXCEPT !.timer = @ \/ said.kind = "location"]
        /\ unsaid' = unsaid \ {said} /\ UNCHANGED <<samples, excused, delivery>> /\ clock' \in Nat
    BY <1>0, <1>4 DEF PublishRealtime, PublishRealtimeFails, Schedule, EstimatesTypeOK
  <2>2. /\ estimate'.timer = (estimate.timer \/ said.kind = "location")
        /\ estimate'.running = estimate.running /\ estimate'.of = estimate.of
        /\ estimate' \in [timer : BOOLEAN, running : [Timers -> Nat \cup {NoPlace}], of : Nat]
    BY <1>0, <2>1 DEF EstimatesTypeOK
  <2>3. EstimatesTypeOK'
    BY <1>0, <2>1, <2>2 DEF EstimatesTypeOK, SamplesBounded
  <2>4. Newest' = Newest
    BY <2>1 DEF Newest
  <2>5. NewestOnItsWay => NewestOnItsWay'
    BY <2>1, <2>2, <2>4 DEF NewestOnItsWay, Calculates
  <2> QED BY <2>1, <2>2, <2>3, <2>5 DEF EstimateInv, Calculates
<1>5. ASSUME NEW j \in Timers, StartEstimate(j) PROVE EstimateInv'
  <2> DEFINE read == IF delivery.status \in Located THEN Newest ELSE NoPlace
  <2>1. /\ estimate' = [estimate EXCEPT !.timer = FALSE, !.running[j] = read]
        /\ UNCHANGED <<samples, unsaid, clock, delivery>> /\ ~Calculates(j)
        /\ excused' = (excused \/ delivery.status \in Ended \/ \E k \in Timers : Calculates(k))
    BY <1>5 DEF StartEstimate, Calculates
  <2>2. read \in Nat \cup {NoPlace}
    BY <1>0
  <2>3. /\ estimate'.timer = FALSE /\ estimate'.of = estimate.of
        /\ estimate'.running = [estimate.running EXCEPT ![j] = read]
        /\ estimate' \in [timer : BOOLEAN, running : [Timers -> Nat \cup {NoPlace}], of : Nat]
    <3> HIDE DEF read
    <3> QED BY <1>0, <2>1, <2>2 DEF EstimatesTypeOK
  <2>4. EstimatesTypeOK'
    BY <1>0, <2>1, <2>3 DEF EstimatesTypeOK, SamplesBounded
  <2>5. Newest' = Newest
    BY <2>1 DEF Newest
  <2>6. ASSUME ~excused' PROVE /\ \A k, l \in Timers : Calculates(k)' /\ Calculates(l)' => k = l
                               /\ Calculates(j)' /\ estimate'.running[j] = Newest'
    <3>1. read = Newest /\ \A k \in Timers : ~Calculates(k)
      BY <1>0, <2>1, <2>6 DEF EstimatesTypeOK
    <3>2. estimate'.running[j] = Newest /\ \A k \in Timers \ {j} : estimate'.running[k] = estimate.running[k]
      BY <1>a, <2>3, <3>1
    <3> QED BY <1>0, <2>5, <3>1, <3>2 DEF Calculates
  <2> QED BY <2>4, <2>6 DEF EstimateInv, NewestOnItsWay
<1>6. ASSUME NEW j \in Timers, SaveEstimate(j) PROVE EstimateInv'
  <2> DEFINE saved == IF delivery.status \in Located THEN estimate.running[j] ELSE estimate.of
  <2>1. /\ Calculates(j) /\ estimate.running[j] \in Nat /\ UNCHANGED <<samples, clock, delivery>>
        /\ excused' = (excused \/ delivery.status \in Ended)
        /\ unsaid \subseteq unsaid'
    BY <1>0, <1>6, <1>a DEF SaveEstimate, Calculates
  <2>2. /\ estimate'.timer = estimate.timer /\ estimate'.of = saved
        /\ estimate'.running = [estimate.running EXCEPT ![j] = NoPlace]
        /\ estimate' \in [timer : BOOLEAN, running : [Timers -> Nat \cup {NoPlace}], of : Nat]
    <3>1. CASE delivery.status \in Located
      <4>1. estimate' = [estimate EXCEPT !.running[j] = NoPlace, !.of = estimate.running[j]]
        BY <1>6, <3>1 DEF SaveEstimate
      <4> QED BY <1>0, <2>1, <3>1, <4>1 DEF EstimatesTypeOK
    <3>2. CASE delivery.status \notin Located
      <4>1. estimate' = [estimate EXCEPT !.running[j] = NoPlace]
        BY <1>6, <3>2 DEF SaveEstimate
      <4> QED BY <1>0, <3>2, <4>1 DEF EstimatesTypeOK
    <3> QED BY <3>1, <3>2
  <2>3. EstimatesTypeOK'
    BY <1>0, <2>1, <2>2 DEF EstimatesTypeOK, SamplesBounded
  <2>4. Newest' = Newest
    BY <2>1 DEF Newest
  <2>5. ASSUME ~excused' PROVE NewestOnItsWay' /\ \A k \in Timers : ~Calculates(k)'
    <3>1. saved = estimate.running[j] /\ \A k \in Timers : Calculates(k) => k = j
      BY <1>0, <2>1, <2>5 DEF EstimateInv, EstimatesTypeOK
    <3>2. \A k \in Timers : ~Calculates(k)'
      BY <1>a, <2>2, <3>1 DEF Calculates
    <3>3. NewestOnItsWay
      BY <2>1, <2>5 DEF EstimateInv
    <3>4. CASE \E k \in Timers : Calculates(k) /\ estimate.running[k] = Newest
      BY <2>2, <2>4, <3>1, <3>2, <3>4 DEF NewestOnItsWay
    <3>5. CASE estimate.timer \/ \E said \in unsaid : said.kind = "location"
      BY <2>1, <2>2, <3>2, <3>5 DEF NewestOnItsWay
    <3> QED BY <2>1, <3>2, <3>3, <3>4, <3>5 DEF NewestOnItsWay
  <2> QED BY <2>3, <2>5 DEF EstimateInv
<1>7. ASSUME NEW j \in Timers, EstimateFails(j) PROVE EstimateInv'
  <2>1. estimate' = [estimate EXCEPT !.running[j] = NoPlace] /\ excused' = TRUE
        /\ UNCHANGED <<samples, clock, delivery>>
    BY <1>7 DEF EstimateFails
  <2>2. estimate' \in [timer : BOOLEAN, running : [Timers -> Nat \cup {NoPlace}], of : Nat]
    BY <1>0, <2>1 DEF EstimatesTypeOK
  <2> QED BY <1>0, <2>1, <2>2 DEF EstimateInv, EstimatesTypeOK, SamplesBounded
<1>8. CASE AdminRestarts
  <2>1. /\ excused' = TRUE /\ UNCHANGED <<samples, clock, delivery>>
        /\ estimate' = [estimate EXCEPT !.timer = FALSE, !.running = [j \in Timers |-> NoPlace]]
    BY <1>8 DEF AdminRestarts
  <2>2. estimate' \in [timer : BOOLEAN, running : [Timers -> Nat \cup {NoPlace}], of : Nat]
    BY <1>0, <2>1 DEF EstimatesTypeOK
  <2> QED BY <1>0, <2>1, <2>2 DEF EstimateInv, EstimatesTypeOK, SamplesBounded
<1>9. ASSUME UNCHANGED <<delivery, samples, unsaid, clock, estimate, excused>> PROVE EstimateInv'
  BY <1>0, <1>9, EstimateLeft DEF EstimatesTypeOK, SamplesBounded
<1>10. CASE NewLink \/ HandleEvent \/ HandleUnacked \/ HubRestarts
  BY <1>9, <1>10 DEF NewLink, HandleEvent, HandleUnacked, HubRestarts
<1>11. CASE HearEvent \/ Reconnect \/ Poll \/ LookAgain \/ SnapshotArrives
  BY <1>9, <1>11 DEF HearEvent, Reconnect, Poll, LookAgain, Request, SnapshotArrives, applySnapshot
<1>12. CASE UNCHANGED trackVars
  BY <1>9, <1>12 DEF trackVars
<1> QED
  BY <1>1, <1>2, <1>3, <1>4, <1>5, <1>6, <1>7, <1>8, <1>10, <1>11, <1>12 DEF TrackNext

\* DeliveryTracking!EstimateOfNewest: the estimate that is left behind is the newest position's.
THEOREM EstimateHolds == TrackSpec => []EstimateOfNewest
<1>1. TrackInit => EstimateInv
  <2> SUFFICES ASSUME TrackInit PROVE EstimateInv
    OBVIOUS
  <2>1. /\ estimate.running = [j \in Timers |-> NoPlace] /\ estimate.of = 0 /\ estimate.timer = FALSE
        /\ estimate \in [timer : BOOLEAN, running : [Timers -> Nat \cup {NoPlace}], of : Nat]
        /\ samples = {} /\ clock = 1 /\ excused = FALSE /\ delivery.status = "ASSIGNED"
    BY DEF TrackInit
  <2>2. EstimatesTypeOK
    BY <2>1 DEF EstimatesTypeOK, SamplesBounded, Located
  <2> QED BY <2>1, <2>2 DEF EstimateInv, NewestOnItsWay, Calculates, Newest
<1>2. EstimateInv => EstimateOfNewest
  <2> SUFFICES ASSUME EstimateInv, ~excused, ~estimate.timer,
                      \A j \in DOMAIN estimate.running : estimate.running[j] = NoPlace,
                      \A said \in unsaid : said.kind # "location"
               PROVE  estimate.of = Newest
    BY DEF EstimateOfNewest
  <2>1. DOMAIN estimate.running = Timers
    BY DEF EstimateInv, EstimatesTypeOK
  <2> QED BY <2>1 DEF EstimateInv, NewestOnItsWay, Calculates
<1> QED BY <1>1, <1>2, EstimateStep, PTL DEF TrackSpec
==============================================================================
