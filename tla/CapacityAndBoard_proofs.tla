---------------------- MODULE CapacityAndBoard_proofs ----------------------
(* Theorems about OwnCapacity, for every set of keys, capacity and clock,   *)
(* and about KitchenBoard, for every set of orders and requests and every   *)
(* bound of changes, polls and the channel.                                 *)
EXTENDS OwnCapacity, KitchenBoard, FiniteSetTheorems, SequenceTheorems, TLAPS

---------------------------------------------------------------------------
(* type correctness *)

\* Expiring rows keeps the table well-typed.
LEMMA WithExpiredType ==
  ASSUME TypeOK, NEW S
  PROVE  WithExpired(S) \in [Keys -> Row]
<1>1. ASSUME NEW k \in Keys
      PROVE  [rows[k] EXCEPT !.status = "EXPIRED"] \in Row
  BY DEF TypeOK, Row, Status
<1> QED BY <1>1 DEF WithExpired, TypeOK

\* The tables and the open transaction stay well-typed through every step.
LEMMA TypeStep ==
  ASSUME TypeOK, [Next]_vars
  PROVE  TypeOK'
<1> USE KeysAssumption, TimeAssumption
<1>1. ASSUME NEW k \in Keys, HoldBegin(k) PROVE TypeOK'
  BY <1>1 DEF TypeOK, HoldBegin, Transaction, DueHolds
<1>2. ASSUME NEW k \in Keys, Release(k) PROVE TypeOK'
  BY <1>2 DEF TypeOK, Release, Row, Status
<1>3. CASE HoldReuse
  BY <1>3, WithExpiredType DEF TypeOK, HoldReuse, NoTransaction, Transaction
<1>4. CASE HoldCount
  BY <1>4 DEF TypeOK, HoldCount, Transaction, Active
<1>5. CASE HoldRefuse
  BY <1>5 DEF TypeOK, HoldRefuse, NoTransaction, Transaction
<1>6. CASE HoldGrant
  <2>1. [status |-> "HELD", delivery |-> NoDelivery, expiresAt |-> hold.at + HoldTime] \in Row
    BY DEF TypeOK, Row, Status, Transaction
  <2> QED BY <1>6, <2>1, WithExpiredType
          DEF TypeOK, HoldGrant, NoTransaction, Transaction
<1>7. CASE HoldAbort
  BY <1>7 DEF TypeOK, HoldAbort, NoTransaction, Transaction
<1>8. ASSUME NEW k \in Keys, NEW d \in Deliveries \cup {NoDelivery}, Confirm(k, d)
      PROVE  TypeOK'
  BY <1>8 DEF TypeOK, Confirm, Row, Status
<1>9. ASSUME NEW d \in Deliveries, ReleaseForDelivery(d) PROVE TypeOK'
  BY <1>2, <1>9 DEF ReleaseForDelivery
<1>10. CASE Expire
  BY <1>10, WithExpiredType DEF TypeOK, Expire
<1>11. ASSUME NEW c \in Capacities, SetCapacity(c) PROVE TypeOK'
  BY <1>11 DEF TypeOK, SetCapacity
<1>12. CASE Tick
  BY <1>12 DEF TypeOK, Tick
<1>13. CASE UNCHANGED vars
  BY <1>13 DEF TypeOK, vars
<1> QED
  BY <1>1, <1>2, <1>3, <1>4, <1>5, <1>6, <1>7, <1>8, <1>9, <1>10, <1>11, <1>12, <1>13 DEF Next

\* The type invariant of the reservation table and of the open hold.
THEOREM TypeCorrect == Spec => []TypeOK
<1>1. Init => TypeOK
  BY KeysAssumption DEF Init, TypeOK, NoRow, Row, Status, NoTransaction, Transaction
<1>2. TypeOK /\ [Next]_vars => TypeOK'
  BY TypeStep
<1> QED BY <1>1, <1>2, PTL DEF Spec

---------------------------------------------------------------------------
(* what an open hold transaction knows, although other transactions commit *)

\* The rows it expired are still HELD and were due at its `now', since it has
\* locked them; its `now' is not in the future.
LocksKept ==
  hold.pc # "idle" =>
    /\ hold.key \in Keys
    /\ hold.at <= now
    /\ \A k \in hold.expiring : rows[k].status = "HELD" /\ rows[k].expiresAt <= hold.at

\* Its count is still an upper bound, and the row of its key is still dead.
CountKept ==
  hold.pc = "counted" =>
    /\ Active \ hold.expiring \subseteq hold.counted
    /\ ~Reusable

HoldInv == TypeOK /\ LocksKept /\ CountKept

\* A commit that only touches unlocked rows, and only to end or confirm active
\* ones, leaves the open transaction's knowledge intact.
LEMMA UnlockedStep ==
  ASSUME HoldInv, TypeOK', UNCHANGED hold, now' >= now,
         \A k \in Locked : rows'[k] = rows[k],
         Active' \subseteq Active
  PROVE  HoldInv'
<1>1. LocksKept'
  BY DEF HoldInv, TypeOK, LocksKept, Locked, Transaction
<1>2. CountKept'
  <2>1. hold.pc = "counted" => hold.key \in Keys /\ rows'[hold.key] = rows[hold.key]
    BY DEF HoldInv, LocksKept, Locked
  <2> QED BY <2>1 DEF HoldInv, CountKept, Reusable, ActiveRow
<1> QED BY <1>1, <1>2 DEF HoldInv

\* The inductive step: every statement of a hold adds knowledge that is true
\* when it is read, and every other transaction satisfies UnlockedStep.
LEMMA HoldStep ==
  ASSUME HoldInv, [Next]_vars
  PROVE  HoldInv'
<1> USE KeysAssumption, TimeAssumption
<1>0. TypeOK' BY TypeStep DEF HoldInv
<1>1. ASSUME NEW k \in Keys, HoldBegin(k) PROVE HoldInv'
  BY <1>0, <1>1 DEF HoldBegin, HoldInv, TypeOK, LocksKept, CountKept, DueHolds
<1>2. ASSUME NEW k \in Keys, Release(k) PROVE HoldInv'
  <2>1. \A j \in Locked : rows'[j] = rows[j]
    BY <1>2 DEF Release, HoldInv, TypeOK, Locked, LocksKept, Transaction
  <2>2. Active' \subseteq Active
    BY <1>2 DEF Release, HoldInv, TypeOK, Active, ActiveRow, Row
  <2> QED BY <1>0, <1>2, <2>1, <2>2, UnlockedStep DEF Release, HoldInv, TypeOK
<1>3. CASE HoldReuse \/ HoldRefuse \/ HoldGrant \/ HoldAbort
  BY <1>0, <1>3 DEF HoldReuse, HoldRefuse, HoldGrant, HoldAbort, NoTransaction,
                    HoldInv, LocksKept, CountKept
<1>4. CASE HoldCount
  BY <1>0, <1>4 DEF HoldCount, HoldInv, TypeOK, LocksKept, CountKept, Active, Reusable, Transaction
<1>5. ASSUME NEW k \in Keys, NEW d \in Deliveries \cup {NoDelivery}, Confirm(k, d)
      PROVE  HoldInv'
  <2>1. \A j \in Locked : rows'[j] = rows[j]
    BY <1>5 DEF Confirm, HoldInv, TypeOK, Locked, LocksKept, Transaction
  <2>2. Active' \subseteq Active
    BY <1>5 DEF Confirm, HoldInv, TypeOK, Active, ActiveRow, Row
  <2>3. now' >= now /\ UNCHANGED hold
    BY <1>5 DEF Confirm, HoldInv, TypeOK
  <2> QED BY <1>0, <2>1, <2>2, <2>3, UnlockedStep
<1>6. ASSUME NEW d \in Deliveries, ReleaseForDelivery(d) PROVE HoldInv'
  BY <1>2, <1>6 DEF ReleaseForDelivery
<1>7. CASE Expire
  <2>1. \A j \in Locked : rows'[j] = rows[j]
    BY <1>7 DEF Expire, WithExpired, HoldInv, TypeOK, Locked, LocksKept, Transaction
  <2>2. Active' \subseteq Active
    BY <1>7 DEF Expire, WithExpired, HoldInv, TypeOK, Active, ActiveRow, Row
  <2> QED BY <1>0, <1>7, <2>1, <2>2, UnlockedStep DEF Expire, HoldInv, TypeOK
<1>8. ASSUME NEW c \in Capacities, SetCapacity(c) PROVE HoldInv'
  BY <1>0, <1>8 DEF SetCapacity, HoldInv, LocksKept, CountKept
<1>9. CASE Tick
  <2>1. now' >= now BY <1>9 DEF Tick, HoldInv, TypeOK
  <2>2. Active' = Active BY <1>9 DEF Tick, Active
  <2> QED BY <1>0, <1>9, <2>1, <2>2, UnlockedStep DEF Tick
<1>10. CASE UNCHANGED vars
  <2>1. now' >= now /\ Active' = Active BY <1>10 DEF vars, HoldInv, TypeOK, Active
  <2> QED BY <1>0, <1>10, <2>1, UnlockedStep DEF vars
<1> QED
  BY <1>1, <1>2, <1>3, <1>4, <1>5, <1>6, <1>7, <1>8, <1>9, <1>10 DEF Next

\* What a hold transaction has read stays true until it ends.
THEOREM HoldKnowledge == Spec => []HoldInv
<1>1. Init => HoldInv
  BY KeysAssumption DEF Init, HoldInv, TypeOK, LocksKept, CountKept,
                        NoRow, Row, Status, NoTransaction, Transaction
<1>2. HoldInv /\ [Next]_vars => HoldInv'
  BY HoldStep
<1> QED BY <1>1, <1>2, PTL DEF Spec

---------------------------------------------------------------------------
(* no slot is taken twice *)

\* Only a granted hold makes a row active, and then the active rows are the
\* counted ones and the new one at most.
LEMMA GrantBound ==
  ASSUME HoldInv, HoldGrant
  PROVE  /\ Active' = (Active \ hold.expiring) \cup {hold.key}
         /\ IsFiniteSet(Active')
         /\ Cardinality(Active') <= capacity
<1>1. hold.key \in Keys /\ hold.counted \subseteq Keys /\ capacity \in Nat
  BY CapacitiesAssumption DEF HoldInv, TypeOK, LocksKept, HoldGrant, Transaction
<1>2. Active' = (Active \ hold.expiring) \cup {hold.key}
  BY <1>1 DEF HoldGrant, WithExpired, HoldInv, TypeOK, LocksKept, Active, ActiveRow, Row
<1>3. Active' \subseteq hold.counted \cup {hold.key}
  BY <1>2 DEF HoldGrant, HoldInv, CountKept
<1>4. IsFiniteSet(hold.counted)
  BY <1>1, FS_Subset, KeysAssumption
<1>5. /\ IsFiniteSet(hold.counted \cup {hold.key})
      /\ Cardinality(hold.counted \cup {hold.key}) <= capacity
  <2>1. Cardinality(hold.counted) \in Nat /\ Cardinality(hold.counted) < capacity
    BY <1>4, FS_CardinalityType DEF HoldGrant
  <2>2. Cardinality(hold.counted) + 1 <= capacity BY <1>1, <2>1
  <2>3. /\ IsFiniteSet(hold.counted \cup {hold.key})
        /\ \/ Cardinality(hold.counted \cup {hold.key}) = Cardinality(hold.counted)
           \/ Cardinality(hold.counted \cup {hold.key}) = Cardinality(hold.counted) + 1
    BY <1>4, FS_AddElement
  <2> QED BY <1>1, <2>1, <2>2, <2>3
<1>6. IsFiniteSet(Active') /\ Cardinality(Active') <= Cardinality(hold.counted \cup {hold.key})
  BY <1>3, <1>5, FS_Subset
<1>7. Cardinality(Active') \in Nat /\ Cardinality(hold.counted \cup {hold.key}) \in Nat
  BY <1>5, <1>6, FS_CardinalityType
<1> QED BY <1>1, <1>2, <1>5, <1>6, <1>7

\* Every step but a grant leaves no new active row.
LEMMA OthersTakeNothing ==
  ASSUME HoldInv, [Next]_vars, ~HoldGrant
  PROVE  Active' \subseteq Active
<1>1. ASSUME NEW k \in Keys, HoldBegin(k) \/ Release(k) PROVE Active' \subseteq Active
  BY <1>1 DEF HoldBegin, Release, HoldInv, TypeOK, Active, ActiveRow, Row
<1>2. CASE HoldReuse \/ HoldCount \/ HoldRefuse \/ HoldAbort
  BY <1>2 DEF HoldReuse, HoldCount, HoldRefuse, HoldAbort, WithExpired,
              HoldInv, TypeOK, Active, ActiveRow, Row
<1>3. ASSUME NEW k \in Keys, NEW d \in Deliveries \cup {NoDelivery}, Confirm(k, d)
      PROVE  Active' \subseteq Active
  BY <1>3 DEF Confirm, HoldInv, TypeOK, Active, ActiveRow, Row
<1>4. ASSUME NEW d \in Deliveries, ReleaseForDelivery(d) PROVE Active' \subseteq Active
  BY <1>1, <1>4 DEF ReleaseForDelivery
<1>5. CASE Expire
  BY <1>5 DEF Expire, WithExpired, HoldInv, TypeOK, Active, ActiveRow, Row
<1>6. ASSUME NEW c \in Capacities, SetCapacity(c) PROVE Active' \subseteq Active
  BY <1>6 DEF SetCapacity, Active
<1>7. CASE Tick \/ UNCHANGED vars
  BY <1>7 DEF Tick, vars, Active
<1> QED BY <1>1, <1>2, <1>3, <1>4, <1>5, <1>6, <1>7 DEF Next

\* Two checkouts never consume one slot, whatever interleaves with a hold.
THEOREM NoOvercommitHolds == Spec => NoOvercommit
<1>1. HoldInv /\ [Next]_vars =>
        [Active' \ Active # {} => Cardinality(Active') <= capacity']_vars
  <2> SUFFICES ASSUME HoldInv, [Next]_vars, Active' \ Active # {}
               PROVE  Cardinality(Active') <= capacity'
    OBVIOUS
  <2>1. HoldGrant BY OthersTakeNothing
  <2> QED BY <2>1, GrantBound DEF HoldGrant
<1> QED BY <1>1, HoldKnowledge, PTL DEF Spec, NoOvercommit

---------------------------------------------------------------------------
(* a paid reservation is stable while its window lasts *)

\* No hold, expiry or maintenance step touches a confirmed row whose window
\* is not over; a release ends it.
THEOREM ConfirmedHolds == Spec => ConfirmedHeldWithinWindow
<1> DEFINE Kept(k) == rows[k].status = "CONFIRMED" /\ rows[k].expiresAt > now =>
                        /\ rows'[k].status \in {"CONFIRMED", "RELEASED"}
                        /\ rows'[k].delivery = rows[k].delivery
<1>1. ASSUME HoldInv, [Next]_vars, NEW k \in Keys PROVE Kept(k)
  <2>1. ASSUME NEW j \in Keys, HoldBegin(j) PROVE Kept(k)
    BY <2>1 DEF HoldBegin
  <2>2. ASSUME NEW j \in Keys, Release(j) PROVE Kept(k)
    BY <1>1, <2>2 DEF Release, HoldInv, TypeOK, Row
  <2>3. CASE HoldReuse
    BY <1>1, <2>3 DEF HoldReuse, WithExpired, HoldInv, LocksKept
  <2>4. CASE HoldCount \/ HoldRefuse \/ HoldAbort
    BY <2>4 DEF HoldCount, HoldRefuse, HoldAbort
  <2>5. CASE HoldGrant
    <3>1. rows[k].status = "CONFIRMED" /\ rows[k].expiresAt > now => k # hold.key
      BY <1>1, <2>5 DEF HoldGrant, HoldInv, TypeOK, LocksKept, CountKept, Reusable,
                        ActiveRow, Row, Transaction
    <3> QED BY <1>1, <2>5, <3>1 DEF HoldGrant, WithExpired, HoldInv, TypeOK, LocksKept
  <2>6. ASSUME NEW j \in Keys, NEW d \in Deliveries \cup {NoDelivery}, Confirm(j, d)
        PROVE  Kept(k)
    BY <1>1, <2>6 DEF Confirm, HoldInv, TypeOK, Row
  <2>7. ASSUME NEW d \in Deliveries, ReleaseForDelivery(d) PROVE Kept(k)
    BY <2>2, <2>7 DEF ReleaseForDelivery
  <2>8. CASE Expire
    BY <1>1, <2>8 DEF Expire, WithExpired, DueHolds
  <2>9. ASSUME NEW c \in Capacities, SetCapacity(c) PROVE Kept(k)
    BY <2>9 DEF SetCapacity
  <2>10. CASE Tick \/ UNCHANGED vars
    BY <2>10 DEF Tick, vars
  <2> QED BY <1>1, <2>1, <2>2, <2>3, <2>4, <2>5, <2>6, <2>7, <2>8, <2>9, <2>10 DEF Next
<1>2. HoldInv /\ [Next]_vars => [\A k \in Keys : Kept(k)]_vars
  BY <1>1
<1> QED BY <1>2, HoldKnowledge, PTL DEF Spec, ConfirmedHeldWithinWindow

---------------------------------------------------------------------------
(* the service implements the pool of slots *)

\* The pool's variables, as the refinement mapping gives them.
poolHeld == {k \in Keys : rows[k].status = "HELD"}
poolConfirmed == {k \in Keys : rows[k].status = "CONFIRMED"}

\* The pool's cardinality is the library's.
LEMMA PoolCardinality == \A S : Pool!Cardinality(S) = Cardinality(S)
  BY DEF Cardinality, Pool!Cardinality

\* Every committed step of the service is one atomic step of the pool, and
\* every other step leaves the pool alone.
LEMMA PoolStep ==
  ASSUME HoldInv, [Next]_vars
  PROVE  [Pool!Next]_(Pool!vars)
<1> USE DEF poolHeld, poolConfirmed
<1>1. CASE UNCHANGED rows /\ UNCHANGED capacity
  BY <1>1 DEF Pool!vars
<1>2. ASSUME NEW k \in Keys, Release(k) PROVE [Pool!Next]_(Pool!vars)
  <2>1. Pool!Release(k)
    BY <1>2 DEF Release, Pool!Release, HoldInv, TypeOK, ActiveRow, Row
  <2> QED BY <2>1 DEF Pool!Next
<1>3. ASSUME NEW k \in Keys, NEW d \in Deliveries \cup {NoDelivery}, Confirm(k, d)
      PROVE  [Pool!Next]_(Pool!vars)
  <2>1. Pool!Confirm(k)
    BY <1>3 DEF Confirm, Pool!Confirm, HoldInv, TypeOK, Row
  <2> QED BY <2>1 DEF Pool!Next
<1>4. ASSUME NEW d \in Deliveries, ReleaseForDelivery(d) PROVE [Pool!Next]_(Pool!vars)
  BY <1>2, <1>4 DEF ReleaseForDelivery
<1>5. CASE HoldReuse
  <2>1. PICK lapsed \in SUBSET Keys : lapsed = hold.expiring
    BY <1>5 DEF HoldInv, TypeOK, Transaction
  <2>2. Pool!Lapse(lapsed)
    BY <1>5, <2>1 DEF HoldReuse, Pool!Lapse, WithExpired, HoldInv, TypeOK, LocksKept, Row
  <2> QED BY <2>2 DEF Pool!Next
<1>6. CASE Expire
  <2>1. PICK lapsed \in SUBSET Keys : lapsed = DueHolds
    BY DEF DueHolds
  <2>2. Pool!Lapse(lapsed)
    BY <1>6, <2>1 DEF Expire, Pool!Lapse, WithExpired, DueHolds, HoldInv, TypeOK, Row
  <2> QED BY <2>2 DEF Pool!Next
<1>7. CASE HoldGrant
  <2>1. PICK k \in Keys, lapsed \in SUBSET Keys :
          k = hold.key /\ lapsed = hold.expiring \ {hold.key}
    BY <1>7 DEF HoldGrant, HoldInv, TypeOK, LocksKept, Transaction
  <2>2. /\ lapsed \subseteq poolHeld \ {k}
        /\ poolHeld' = (poolHeld \ lapsed) \cup {k}
        /\ poolConfirmed' = poolConfirmed \ {k}
    BY <1>7, <2>1 DEF HoldGrant, WithExpired, HoldInv, TypeOK, LocksKept, Row
  <2>3. poolHeld' \cup poolConfirmed' = Active'
    BY DEF Active, ActiveRow
  <2>4. Pool!Cardinality(poolHeld' \cup poolConfirmed') <= capacity
    BY <1>7, <2>3, GrantBound, PoolCardinality
  <2>5. capacity' = capacity BY <1>7 DEF HoldGrant
  <2>6. Pool!Grant(k, lapsed)
    BY <2>2, <2>4, <2>5 DEF Pool!Grant
  <2> QED BY <2>6 DEF Pool!Next
<1>8. ASSUME NEW c \in Capacities, SetCapacity(c) PROVE [Pool!Next]_(Pool!vars)
  <2>1. Pool!Resize(c)
    BY <1>8 DEF SetCapacity, Pool!Resize
  <2> QED BY <2>1 DEF Pool!Next
<1>9. ASSUME NEW k \in Keys, HoldBegin(k) PROVE UNCHANGED rows /\ UNCHANGED capacity
  BY <1>9 DEF HoldBegin
<1>10. CASE HoldCount \/ HoldRefuse \/ HoldAbort \/ Tick \/ UNCHANGED vars
  BY <1>1, <1>10 DEF HoldCount, HoldRefuse, HoldAbort, Tick, vars
<1> QED
  BY <1>1, <1>2, <1>3, <1>4, <1>5, <1>6, <1>7, <1>8, <1>9, <1>10 DEF Next

\* The reservation table, seen through its active rows, is the pool of slots.
THEOREM Refinement == Spec => ImplementsPool
<1>1. Init => Pool!Init
  BY DEF Init, NoRow, Pool!Init
<1> QED BY <1>1, PoolStep, HoldKnowledge, PTL DEF Spec, ImplementsPool, Pool!Spec

---------------------------------------------------------------------------
(* the board of the kitchen: its inductive invariant *)

Requests ==
  {Idle} \cup
  [pc: {"reload", "relay", "publish", "answer"}, by: {"page", "staff", "core", "worker"},
   type: {"created", "status", "updated"}, order: Orders, to: Rows, op: 1..MaxOps]

\* What is still on its way to the page, in the order it will come.
Stream == chan \o relayQueue

\* The events that were said, by the relay or through the queue, and are not lost.
Told == seen \cup Range(Stream)

UnderWay(r) == reqs[r].pc # "idle"
Changed(r) == reqs[r].pc \in {"relay", "publish", "answer"}

BoardTypes ==
  /\ orders \in [Orders -> Rows] /\ cards \in [Orders -> Rows]
  /\ reqs \in [Reqs -> Requests]
  /\ relayQueue \in Seq(Events) /\ chan \in Seq(Events) /\ Len(chan) <= ChanCap
  /\ seen \subseteq Events
  /\ polls \in Seq([Orders -> Rows \ Final]) /\ Len(polls) <= MaxPolls
  /\ registered \in BOOLEAN /\ online \in BOOLEAN /\ overlapped \in BOOLEAN /\ missed \in BOOLEAN
  /\ ops \in 0..MaxOps /\ drops \in 0..MaxDrops
  /\ ~online => ~registered /\ chan = <<>>

\* Each request has a number of its own, and what it changed exists.
RequestsApart ==
  /\ \A r \in Reqs : UnderWay(r) => reqs[r].op <= ops /\ orders[reqs[r].order] # "NONE"
  /\ \A r \in Reqs : Changed(r) => reqs[r].to # "NONE"
  /\ \A r, q \in Reqs : UnderWay(r) /\ UnderWay(q) /\ r # q => reqs[r].op # reqs[q].op

\* A number is of one event, and nobody says it before the request does.
ToldOnce ==
  /\ \A e \in Told : e.op <= ops
  /\ \A e, f \in Told : e.op = f.op => e = f
  /\ \A r \in Reqs, e \in Told :
       UnderWay(r) /\ e.op = reqs[r].op => reqs[r].pc \in {"publish", "answer"} /\ e = EventOf(r)

\* Without overlap a request is alone with its order, and its event is the last.
OneAtATime ==
  /\ \A r, q \in Reqs : UnderWay(r) /\ UnderWay(q) /\ r # q => reqs[r].order # reqs[q].order
  /\ \A r \in Reqs : Changed(r) => reqs[r].to = orders[reqs[r].order]
  /\ \A r \in Reqs : UnderWay(r) /\ reqs[r].type # "status" => orders[reqs[r].order] \notin Final
  /\ \A r \in Reqs, e \in Told : UnderWay(r) /\ e.order = reqs[r].order => e.op <= reqs[r].op

\* The first a in the sequence is before the first b.
Before(a, b, s) == \E k \in DOMAIN s : s[k] = a /\ \A j \in 1..k : s[j] # b

Coming == Range(Stream) \ seen
Due(o) == {e \in Coming : e.order = o}
Newest(e, S) == \A f \in S : f.op <= e.op
Shown(e) == IF e.type = "status" /\ e.status \in Final THEN "NONE" ELSE e.status

\* A change of the order that nobody has said yet.
Unsaid(o) ==
  \E r \in Reqs : reqs[r].order = o /\ reqs[r].pc \in {"relay", "publish"} /\ EventOf(r) \notin Told

InOrder == \A a, b \in Coming : a.order = b.order /\ a.op < b.op => Before(a, b, Stream)
SeenFirst == \A a \in seen, b \in Coming : a.order = b.order => a.op < b.op
AnswersTold == \A r \in Reqs : reqs[r].pc = "answer" => EventOf(r) \in Told
CardsLead ==
  \A o \in Orders : ~Unsaid(o) =>
    /\ Due(o) = {} => cards[o] = Open(orders)[o]
    /\ \A e \in Due(o) : Newest(e, Due(o)) => Shown(e) = Open(orders)[o]

Following == online /\ registered /\ ~missed /\ ~overlapped

BoardInv ==
  /\ BoardTypes /\ RequestsApart /\ ToldOnce
  /\ ~overlapped => OneAtATime
  /\ Following => polls = <<>> /\ InOrder /\ SeenFirst /\ AnswersTold /\ CardsLead

---------------------------------------------------------------------------
(* what comes to the page *)

LEMMA RangeOfAppend ==
  ASSUME NEW S, NEW s \in Seq(S), NEW e \in S
  PROVE  Range(Append(s, e)) = Range(s) \cup {e}
<1>1. Append(s, e) = s \o <<e>> /\ <<e>> \in Seq(S)
  BY AppendIsConcat
<1>2. Range(<<e>>) = {e}
  BY DEF Range
<1>3. Range(s \o <<e>>) = Range(s) \cup Range(<<e>>)
  BY <1>1, RangeConcatenation, Zenon
<1> QED BY <1>1, <1>2, <1>3

\* What was before something in a sequence stays so when more is appended.
LEMMA BeforeConcat ==
  ASSUME NEW S, NEW s \in Seq(S), NEW t \in Seq(S), NEW a, NEW b, Before(a, b, s)
  PROVE  Before(a, b, s \o t)
<1>1. PICK k \in DOMAIN s : s[k] = a /\ \A j \in 1..k : s[j] # b
  BY DEF Before
<1>2. /\ DOMAIN s = 1..Len(s) /\ Len(s) \in Nat /\ Len(t) \in Nat
      /\ s \o t \in Seq(S) /\ Len(s \o t) = Len(s) + Len(t) /\ DOMAIN (s \o t) = 1..(Len(s) + Len(t))
  OBVIOUS
<1>3. \A j \in 1..Len(s) : (s \o t)[j] = s[j] /\ j \in DOMAIN (s \o t)
  BY <1>2
<1>4. \A j \in 1..k : j \in 1..Len(s)
  BY <1>1, <1>2
<1> QED BY <1>1, <1>2, <1>3, <1>4 DEF Before

\* What is in a sequence is before what is not.
LEMMA BeforeAbsent ==
  ASSUME NEW S, NEW s \in Seq(S), NEW a \in Range(s), NEW b, b \notin Range(s)
  PROVE  Before(a, b, s)
<1>1. DOMAIN s = 1..Len(s) /\ Len(s) \in Nat
  OBVIOUS
<1>2. PICK k \in DOMAIN s : s[k] = a
  BY DEF Range
<1>3. \A j \in 1..k : j \in DOMAIN s
  BY <1>1, <1>2
<1> QED BY <1>2, <1>3 DEF Before, Range

\* An event put into the middle disturbs nothing before something else.
LEMMA BeforeInsert ==
  ASSUME NEW S, NEW c \in Seq(S), NEW q \in Seq(S), NEW e \in S, NEW a, NEW b,
         Before(a, b, c \o q), b # e
  PROVE  Before(a, b, Append(c, e) \o q)
<1> DEFINE s == c \o q
           t == Append(c, e) \o q
<1>1. /\ Len(c) \in Nat /\ Len(q) \in Nat /\ Append(c, e) \in Seq(S) /\ Len(Append(c, e)) = Len(c) + 1
      /\ \A j \in 1..Len(c) : Append(c, e)[j] = c[j]
      /\ Append(c, e)[Len(c) + 1] = e
  OBVIOUS
<1>2. /\ s \in Seq(S) /\ Len(s) = Len(c) + Len(q) /\ DOMAIN s = 1..(Len(c) + Len(q))
      /\ \A j \in 1..(Len(c) + Len(q)) : s[j] = IF j <= Len(c) THEN c[j] ELSE q[j - Len(c)]
  BY ConcatProperties
<1>3. /\ t \in Seq(S) /\ Len(t) = Len(c) + 1 + Len(q) /\ DOMAIN t = 1..(Len(c) + 1 + Len(q))
      /\ \A j \in 1..(Len(c) + 1 + Len(q)) :
           t[j] = IF j <= Len(c) + 1 THEN Append(c, e)[j] ELSE q[j - (Len(c) + 1)]
  BY <1>1, ConcatProperties
<1>4. PICK k \in DOMAIN s : s[k] = a /\ \A j \in 1..k : s[j] # b
  BY DEF Before
<1> HIDE DEF s, t
<1>5. /\ \A j \in 1..Len(c) : t[j] = s[j]
      /\ t[Len(c) + 1] = e
      /\ \A j \in (Len(c) + 1)..(Len(c) + Len(q)) : t[j + 1] = s[j]
  <2>1. ASSUME NEW j \in 1..Len(c) PROVE t[j] = s[j]
    <3>1. j \in 1..(Len(c) + Len(q)) /\ j \in 1..(Len(c) + 1 + Len(q)) /\ j <= Len(c) /\ j <= Len(c) + 1
      BY <1>1
    <3>2. t[j] = Append(c, e)[j] /\ s[j] = c[j]
      BY <1>2, <1>3, <3>1
    <3> QED BY <1>1, <3>2
  <2>2. t[Len(c) + 1] = e
    <3>1. Len(c) + 1 \in 1..(Len(c) + 1 + Len(q)) /\ Len(c) + 1 <= Len(c) + 1
      BY <1>1
    <3>2. t[Len(c) + 1] = Append(c, e)[Len(c) + 1]
      BY <1>3, <3>1
    <3> QED BY <1>1, <3>2
  <2>3. ASSUME NEW j \in (Len(c) + 1)..(Len(c) + Len(q)) PROVE t[j + 1] = s[j]
    <3>1. j \in Nat /\ j + 1 > Len(c) + 1 /\ j > Len(c) /\ j + 1 - (Len(c) + 1) = j - Len(c)
          /\ j + 1 \in 1..(Len(c) + 1 + Len(q)) /\ j \in 1..(Len(c) + Len(q))
      BY <1>1
    <3>2. t[j + 1] = q[j + 1 - (Len(c) + 1)]
      <4>1. ~(j + 1 <= Len(c) + 1)
        BY <1>1, <3>1
      <4> QED BY <1>3, <3>1, <4>1
    <3>3. s[j] = q[j - Len(c)]
      <4>1. ~(j <= Len(c))
        BY <1>1, <3>1
      <4> QED BY <1>2, <3>1, <4>1
    <3> QED BY <3>1, <3>2, <3>3
  <2> QED BY <2>1, <2>2, <2>3
<1>6. CASE k <= Len(c)
  <2>1. k \in DOMAIN t /\ t[k] = a /\ \A j \in 1..k : t[j] # b
    BY <1>1, <1>2, <1>3, <1>4, <1>5, <1>6
  <2> QED BY <2>1 DEF Before, t
<1>7. CASE k > Len(c)
  <2>0. k \in (Len(c) + 1)..(Len(c) + Len(q)) /\ k + 1 \in DOMAIN t
    BY <1>1, <1>2, <1>3, <1>4, <1>7
  <2>1. k + 1 \in DOMAIN t /\ t[k + 1] = a
    BY <1>4, <1>5, <2>0
  <2>2. ASSUME NEW j \in 1..(k + 1) PROVE t[j] # b
    <3>1. CASE j <= Len(c)
      BY <1>1, <1>2, <1>4, <1>5, <1>7, <3>1
    <3>2. CASE j = Len(c) + 1
      BY <1>5, <3>2
    <3>3. CASE j > Len(c) + 1
      <4>1. j - 1 \in (Len(c) + 1)..(Len(c) + Len(q)) /\ j - 1 \in 1..k /\ (j - 1) + 1 = j
        BY <1>1, <1>2, <1>4, <1>7, <3>3
      <4>2. t[(j - 1) + 1] = s[j - 1]
        BY <1>5, <4>1
      <4> QED BY <1>4, <4>1, <4>2
    <3> QED BY <1>1, <3>1, <3>2, <3>3
  <2> QED BY <2>1, <2>2 DEF Before, t
<1> QED BY <1>1, <1>2, <1>4, <1>6, <1>7

\* What was before something, and is not the head, is before it in the tail.
LEMMA BeforeTail ==
  ASSUME NEW S, NEW s \in Seq(S), s # <<>>, NEW a, NEW b, Before(a, b, s), a # Head(s)
  PROVE  Before(a, b, Tail(s))
<1>1. PICK k \in DOMAIN s : s[k] = a /\ \A j \in 1..k : s[j] # b
  BY DEF Before
<1>2. /\ DOMAIN s = 1..Len(s) /\ Len(s) \in Nat /\ Head(s) = s[1]
      /\ Tail(s) \in Seq(S) /\ Len(Tail(s)) = Len(s) - 1 /\ DOMAIN Tail(s) = 1..(Len(s) - 1)
      /\ \A i \in 1..(Len(s) - 1) : Tail(s)[i] = s[i + 1]
  BY HeadTailProperties
<1>3. k # 1 /\ k - 1 \in DOMAIN Tail(s) /\ Tail(s)[k - 1] = a
  BY <1>1, <1>2
<1>4. ASSUME NEW j \in 1..(k - 1) PROVE Tail(s)[j] # b
  BY <1>1, <1>2, <1>3
<1> QED BY <1>3, <1>4 DEF Before

\* Nothing is before the head.
LEMMA NotBeforeHead ==
  ASSUME NEW S, NEW s \in Seq(S), s # <<>>, NEW a
  PROVE  ~Before(a, Head(s), s)
<1>1. DOMAIN s = 1..Len(s) /\ Len(s) \in Nat /\ Head(s) = s[1]
  OBVIOUS
<1>2. \A k \in DOMAIN s : 1 \in 1..k
  BY <1>1
<1> QED BY <1>1, <1>2 DEF Before

\* A sequence has what its tail has, and its head.
LEMMA RangeOfTail ==
  ASSUME NEW S, NEW s \in Seq(S), s # <<>>
  PROVE  Range(s) = {Head(s)} \cup Range(Tail(s))
<1>1. /\ DOMAIN s = 1..Len(s) /\ Len(s) \in Nat /\ Head(s) = s[1]
      /\ Tail(s) \in Seq(S) /\ Len(Tail(s)) = Len(s) - 1 /\ DOMAIN Tail(s) = 1..(Len(s) - 1)
      /\ \A i \in 1..(Len(s) - 1) : Tail(s)[i] = s[i + 1]
  BY HeadTailProperties
<1>2. ASSUME NEW x \in Range(s) PROVE x \in {Head(s)} \cup Range(Tail(s))
  <2>1. PICK i \in 1..Len(s) : s[i] = x
    BY <1>1 DEF Range
  <2>2. CASE i = 1
    BY <1>1, <2>1, <2>2
  <2>3. CASE i # 1
    <3>1. i - 1 \in DOMAIN Tail(s) /\ Tail(s)[i - 1] = x
      BY <1>1, <2>1, <2>3
    <3> QED BY <3>1 DEF Range
  <2> QED BY <2>2, <2>3
<1>3. ASSUME NEW x \in Range(Tail(s)) PROVE x \in Range(s)
  <2>1. PICK i \in 1..(Len(s) - 1) : Tail(s)[i] = x
    BY <1>1 DEF Range
  <2>2. i + 1 \in DOMAIN s /\ s[i + 1] = x
    BY <1>1, <2>1
  <2> QED BY <2>2 DEF Range
<1>4. Head(s) \in Range(s)
  <2>1. 1 \in DOMAIN s
    BY <1>1
  <2> QED BY <1>1, <2>1 DEF Range
<1> QED BY <1>2, <1>3, <1>4

\* The head of a sequence moved to the end of the one before it.
LEMMA HeadMoved ==
  ASSUME NEW S, NEW c \in Seq(S), NEW q \in Seq(S), q # <<>>
  PROVE  Append(c, Head(q)) \o Tail(q) = c \o q
<1> DEFINE s == Append(c, Head(q)) \o Tail(q)
           t == c \o q
<1>1. /\ Len(c) \in Nat /\ Len(q) \in Nat /\ Len(q) # 0 /\ Head(q) = q[1] /\ Head(q) \in S
      /\ Tail(q) \in Seq(S) /\ Len(Tail(q)) = Len(q) - 1
      /\ \A i \in 1..(Len(q) - 1) : Tail(q)[i] = q[i + 1]
  BY HeadTailProperties
<1>2. /\ Append(c, Head(q)) \in Seq(S) /\ Len(Append(c, Head(q))) = Len(c) + 1
      /\ \A j \in 1..Len(c) : Append(c, Head(q))[j] = c[j]
      /\ Append(c, Head(q))[Len(c) + 1] = q[1]
  BY <1>1
<1>3. /\ s \in Seq(S) /\ Len(s) = Len(c) + 1 + (Len(q) - 1)
      /\ \A j \in 1..(Len(c) + 1 + (Len(q) - 1)) :
           s[j] = IF j <= Len(c) + 1 THEN Append(c, Head(q))[j] ELSE Tail(q)[j - (Len(c) + 1)]
  BY <1>1, <1>2, ConcatProperties
<1>4. /\ t \in Seq(S) /\ Len(t) = Len(c) + Len(q)
      /\ \A j \in 1..(Len(c) + Len(q)) : t[j] = IF j <= Len(c) THEN c[j] ELSE q[j - Len(c)]
  BY ConcatProperties
<1> HIDE DEF s, t
<1>5. ASSUME NEW j \in 1..Len(s) PROVE s[j] = t[j]
  <2>0. j \in 1..(Len(c) + Len(q)) /\ j \in 1..(Len(c) + 1 + (Len(q) - 1)) /\ j \in Nat
    BY <1>1, <1>3
  <2>1. CASE j <= Len(c)
    BY <1>1, <1>2, <1>3, <1>4, <2>0, <2>1
  <2>2. CASE j = Len(c) + 1
    BY <1>1, <1>2, <1>3, <1>4, <2>0, <2>2
  <2>3. CASE j > Len(c) + 1
    <3>1. s[j] = Tail(q)[j - (Len(c) + 1)] /\ t[j] = q[j - Len(c)]
      BY <1>1, <1>3, <1>4, <2>0, <2>3
    <3>2. j - (Len(c) + 1) \in 1..(Len(q) - 1) /\ j - (Len(c) + 1) + 1 = j - Len(c)
      BY <1>1, <2>0, <2>3
    <3> QED BY <1>1, <3>1, <3>2
  <2> QED BY <1>1, <2>0, <2>1, <2>2, <2>3
<1>6. Len(s) = Len(t)
  BY <1>1, <1>3, <1>4
<1> QED BY <1>3, <1>4, <1>5, <1>6, SeqEqual DEF s, t

---------------------------------------------------------------------------
(* the types of the board *)

\* A request under way is a record, and moves on as one.
LEMMA RequestFacts ==
  ASSUME BoardTypes, NEW r \in Reqs, UnderWay(r)
  PROVE  /\ reqs[r].order \in Orders /\ reqs[r].to \in Rows /\ reqs[r].op \in 1..MaxOps
         /\ reqs[r].type \in {"created", "status", "updated"}
         /\ reqs[r].pc \in {"reload", "relay", "publish", "answer"}
         /\ \A pc \in {"publish", "answer"} : [reqs[r] EXCEPT !.pc = pc] \in Requests
         /\ [reqs[r] EXCEPT !.pc = "relay", !.to = orders[reqs[r].order]] \in Requests
<1> DEFINE W == [pc: {"reload", "relay", "publish", "answer"}, by: {"page", "staff", "core", "worker"},
                 type: {"created", "status", "updated"}, order: Orders, to: Rows, op: 1..MaxOps]
<1>1. reqs[r] \in W
  <2>1. reqs[r] \in Requests
    BY DEF BoardTypes
  <2>2. reqs[r] # Idle
    BY DEF UnderWay, Idle
  <2> QED BY <2>1, <2>2 DEF Requests
<1>2. \A pc \in {"publish", "answer"} : [reqs[r] EXCEPT !.pc = pc] \in W
  BY <1>1
<1>3. reqs[r].order \in Orders
  BY <1>1
<1>4. orders[reqs[r].order] \in Rows
  BY <1>3 DEF BoardTypes
<1>5. [reqs[r] EXCEPT !.pc = "relay", !.to = orders[reqs[r].order]] \in W
  BY <1>1, <1>4
<1>6. W \subseteq Requests
  BY DEF Requests
<1> HIDE DEF Requests
<1> QED BY <1>1, <1>2, <1>5, <1>6

\* A request that is not under way is Idle.
LEMMA IdleFacts ==
  ASSUME BoardTypes, NEW r \in Reqs
  PROVE  /\ UnderWay(r) <=> reqs[r] # Idle
         /\ reqs[r] = Idle => reqs[r].order \notin Orders /\ reqs[r].pc = "idle"
<1>1. reqs[r] \in Requests
  BY DEF BoardTypes
<1> QED BY <1>1, Bounds DEF UnderWay, Idle, Requests

\* What a request says is an event.
LEMMA EventFacts ==
  ASSUME BoardTypes, RequestsApart, NEW r \in Reqs, Changed(r)
  PROVE  EventOf(r) \in Events /\ EventOf(r).op = reqs[r].op /\ EventOf(r).order = reqs[r].order
<1>1. UnderWay(r)
  BY DEF Changed, UnderWay
<1>2. reqs[r].to \in Statuses
  BY <1>1, RequestFacts DEF RequestsApart, Rows
<1> QED BY <1>1, <1>2, RequestFacts DEF EventOf, Events

\* The sequences of the board hold events.
LEMMA StreamFacts ==
  ASSUME BoardTypes
  PROVE  /\ Stream \in Seq(Events) /\ Range(Stream) = Range(chan) \cup Range(relayQueue)
         /\ Range(Stream) \subseteq Events /\ Told \subseteq Events
         /\ Heard \subseteq Told /\ Range(chan) \subseteq Events /\ Range(relayQueue) \subseteq Events
<1>1. chan \in Seq(Events) /\ relayQueue \in Seq(Events)
  BY DEF BoardTypes
<1>2. Stream \in Seq(Events)
  BY <1>1, ConcatProperties DEF Stream
<1>3. Range(Stream) = Range(chan) \cup Range(relayQueue)
  BY <1>1, RangeConcatenation, Zenon DEF Stream
<1>4. Range(chan) \subseteq Events /\ Range(relayQueue) \subseteq Events
  <2>1. Range(chan) \in SUBSET Events
    BY <1>1, RangeOfSeq, Zenon
  <2>2. Range(relayQueue) \in SUBSET Events
    BY <1>1, RangeOfSeq, Zenon
  <2> QED BY <2>1, <2>2
<1>5. seen \subseteq Events
  BY DEF BoardTypes
<1> QED BY <1>2, <1>3, <1>4, <1>5 DEF Told, Heard

\* The types without those of the requests: what the hub and the page keep.
LEMMA BroadcastTypes ==
  ASSUME BoardTypes, NEW e \in Events, Broadcast(e), online' = online
  PROVE  /\ chan' \in Seq(Events) /\ Len(chan') <= ChanCap /\ registered' \in BOOLEAN
         /\ ~online' => ~registered' /\ chan' = <<>>
<1>1. chan \in Seq(Events) /\ Len(chan) <= ChanCap /\ Len(chan) \in Nat
  BY DEF BoardTypes
<1>2. Append(chan, e) \in Seq(Events) /\ Len(Append(chan, e)) = Len(chan) + 1
  BY <1>1
<1>3. ChanCap \in Nat
  BY Bounds
<1>4. chan' \in Seq(Events) /\ Len(chan') <= ChanCap
  <2>1. CASE Room
    <3>1. Len(chan) + 1 <= ChanCap
      BY <1>1, <1>3, <2>1 DEF Room
    <3>2. chan' = Append(chan, e)
      BY <2>1 DEF Broadcast
    <3> QED BY <1>2, <3>1, <3>2
  <2>2. CASE ~Room
    <3>1. chan' = chan
      BY <2>2 DEF Broadcast
    <3> QED BY <1>1, <3>1
  <2> QED BY <2>1, <2>2
<1>5. registered' \in BOOLEAN /\ (registered' => registered)
  BY Zenon DEF Broadcast, Room
<1>6. ~online => ~Room /\ chan = <<>>
  BY DEF BoardTypes, Room
<1>7. ~online' => ~registered' /\ chan' = <<>>
  BY <1>6, Zenon DEF Broadcast
<1> QED BY <1>4, <1>5, <1>7

\* A request begins, or moves on to something of its kind.
LEMMA BeginsTypes ==
  ASSUME BoardTypes, NEW r \in Reqs, NEW o \in Orders, NEW pc \in {"reload", "relay", "publish"},
         NEW by \in {"page", "staff", "core", "worker"}, NEW type \in {"created", "status", "updated"},
         NEW to \in Rows, Begins(r, o, pc, by, type, to)
  PROVE  reqs' \in [Reqs -> Requests] /\ ops' \in 0..MaxOps /\ overlapped' \in BOOLEAN
<1>1. ops + 1 \in 1..MaxOps /\ ops' = ops + 1
  BY Bounds DEF BoardTypes, Begins
<1>2. [pc |-> pc, by |-> by, type |-> type, order |-> o, to |-> to, op |-> ops + 1] \in Requests
  BY <1>1 DEF Requests
<1> HIDE DEF Requests
<1>3. overlapped' \in BOOLEAN
  BY DEF Begins, BoardTypes
<1> QED BY <1>1, <1>2, <1>3, Bounds DEF Begins, Becomes, BoardTypes

\* The page's cards after an event.
LEMMA AppliedType ==
  ASSUME BoardTypes, NEW e \in Events
  PROVE  Applied(e) \in [Orders -> Rows]
BY DEF BoardTypes, Applied, Events, Rows

\* Taking an answer away leaves answers.
LEMMA AnswerTaken ==
  ASSUME NEW S, NEW s \in Seq(S), NEW i \in DOMAIN s
  PROVE  RemoveAt(s, i) \in Seq(S) /\ Len(RemoveAt(s, i)) = Len(s) - 1
<1>1. i \in 1..Len(s) /\ Len(s) \in Nat /\ i \in Nat
  OBVIOUS
<1>2. SubSeq(s, 1, i - 1) \in Seq(S) /\ Len(SubSeq(s, 1, i - 1)) = i - 1
  BY <1>1
<1>3. SubSeq(s, i + 1, Len(s)) \in Seq(S) /\ Len(SubSeq(s, i + 1, Len(s))) = Len(s) - i
  BY <1>1
<1>4. /\ RemoveAt(s, i) \in Seq(S)
      /\ Len(RemoveAt(s, i)) = Len(SubSeq(s, 1, i - 1)) + Len(SubSeq(s, i + 1, Len(s)))
  BY <1>2, <1>3, ConcatProperties DEF RemoveAt
<1>5. (i - 1) + (Len(s) - i) = Len(s) - 1
  BY <1>1
<1> QED BY <1>2, <1>3, <1>4, <1>5

\* Only what was or is under way has moved.
LEMMA MovesTypes ==
  ASSUME BoardTypes, NEW r \in Reqs, UnderWay(r), NEW what, Becomes(r, what),
         what = Idle \/ what \in Requests
  PROVE  reqs' \in [Reqs -> Requests]
<1>1. what \in Requests
  BY DEF Requests
<1> HIDE DEF Requests
<1> QED BY <1>1 DEF Becomes, BoardTypes

\* The types of the board are kept by every step.
LEMMA BoardTypesStep ==
  ASSUME BoardTypes, RequestsApart, BoardNext
  PROVE  BoardTypes'
<1>1. ASSUME NEW r \in Reqs, NEW o \in Orders, NEW by \in {"page", "staff", "core"}, NEW to \in Statuses,
             Change(r, by, o, to)
      PROVE  BoardTypes'
  <2>1. Begins(r, o, "relay", by, "status", to) /\ to \in Rows
    BY <1>1 DEF Change, Rows
  <2>2. reqs' \in [Reqs -> Requests] /\ ops' \in 0..MaxOps /\ overlapped' \in BOOLEAN
    BY <2>1, BeginsTypes
  <2>3. orders' \in [Orders -> Rows]
    BY <1>1, <2>1 DEF Change, BoardTypes
  <2> QED BY <1>1, <2>2, <2>3 DEF Change, BoardTypes, hub, page
<1>2. ASSUME NEW r \in Reqs, NEW o \in Orders, NEW by \in {"staff", "worker"}, Create(r, by, o)
      PROVE  BoardTypes'
  <2>1. Begins(r, o, IF by = "worker" THEN "publish" ELSE "relay", by, "created", "PENDING")
        /\ "PENDING" \in Rows /\ (IF by = "worker" THEN "publish" ELSE "relay") \in {"reload", "relay", "publish"}
    BY <1>2 DEF Create, Rows, Statuses
  <2>2. reqs' \in [Reqs -> Requests] /\ ops' \in 0..MaxOps /\ overlapped' \in BOOLEAN
    BY <2>1, BeginsTypes
  <2>3. orders' \in [Orders -> Rows]
    BY <1>2, <2>1 DEF Create, BoardTypes
  <2> QED BY <1>2, <2>2, <2>3 DEF Create, BoardTypes, hub, page
<1>3. ASSUME NEW r \in Reqs, NEW o \in Orders, Edit(r, o)
      PROVE  BoardTypes'
  <2>1. Begins(r, o, "reload", "staff", "updated", "NONE") /\ "NONE" \in Rows
    BY <1>3 DEF Edit, Rows
  <2>2. reqs' \in [Reqs -> Requests] /\ ops' \in 0..MaxOps /\ overlapped' \in BOOLEAN
    BY <2>1, BeginsTypes
  <2> QED BY <1>3, <2>2 DEF Edit, BoardTypes, hub, page
<1>4. ASSUME NEW r \in Reqs, Reload(r)
      PROVE  BoardTypes'
  <2>1. UnderWay(r)
    BY <1>4 DEF Reload, UnderWay
  <2>2. reqs' \in [Reqs -> Requests]
    BY <1>4, <2>1, RequestFacts, MovesTypes DEF Reload
  <2> QED BY <1>4, <2>2 DEF Reload, BoardTypes, hub, page
<1>5. ASSUME NEW r \in Reqs, Relay(r)
      PROVE  BoardTypes'
  <2>1. UnderWay(r) /\ Changed(r)
    BY <1>5 DEF Relay, UnderWay, Changed
  <2>2. reqs' \in [Reqs -> Requests]
    BY <1>5, <2>1, RequestFacts, MovesTypes DEF Relay
  <2>3. EventOf(r) \in Events
    BY <2>1, EventFacts
  <2>4. /\ chan' \in Seq(Events) /\ Len(chan') <= ChanCap /\ registered' \in BOOLEAN
        /\ ~online' => ~registered' /\ chan' = <<>>
    BY <1>5, <2>3, BroadcastTypes DEF Relay
  <2>5. missed' \in BOOLEAN
    BY <1>5, Zenon DEF Relay
  <2> HIDE DEF Requests
  <2> QED BY <1>5, <2>2, <2>4, <2>5 DEF Relay, BoardTypes, page
<1>6. ASSUME NEW r \in Reqs, RelayFails(r)
      PROVE  BoardTypes'
  <2>1. UnderWay(r)
    BY <1>6 DEF RelayFails, UnderWay
  <2>2. reqs' \in [Reqs -> Requests]
    BY <1>6, <2>1, RequestFacts, MovesTypes DEF RelayFails
  <2> QED BY <1>6, <2>2 DEF RelayFails, BoardTypes, hub, page
<1>7. ASSUME NEW r \in Reqs, reqs[r].pc = "publish", Published(r)
      PROVE  reqs' \in [Reqs -> Requests]
  <2>1. UnderWay(r)
    BY <1>7 DEF UnderWay
  <2> QED BY <1>7, <2>1, RequestFacts, MovesTypes DEF Published
<1>8. ASSUME NEW r \in Reqs, Publish(r)
      PROVE  BoardTypes'
  <2>1. reqs' \in [Reqs -> Requests] /\ EventOf(r) \in Events
    BY <1>7, <1>8, EventFacts DEF Publish, Changed
  <2>2. relayQueue' \in Seq(Events)
    BY <1>8, <2>1 DEF Publish, BoardTypes
  <2> HIDE DEF Requests
  <2> QED BY <1>8, <2>1, <2>2 DEF Publish, BoardTypes, hub, page
<1>9. ASSUME NEW r \in Reqs, PublishFails(r)
      PROVE  BoardTypes'
  <2>1. reqs' \in [Reqs -> Requests]
    BY <1>7, <1>9 DEF PublishFails
  <2>2. missed' \in BOOLEAN
    BY <1>9, Zenon DEF PublishFails
  <2> HIDE DEF Requests
  <2> QED BY <1>9, <2>1, <2>2 DEF PublishFails, BoardTypes, hub, page
<1>10. ASSUME NEW r \in Reqs, Answered(r)
       PROVE  BoardTypes'
  <2>1. UnderWay(r)
    BY <1>10 DEF Answered, UnderWay
  <2>2. reqs' \in [Reqs -> Requests]
    BY <1>10, <2>1, MovesTypes DEF Answered
  <2>3. cards' \in [Orders -> Rows]
    BY <1>10, <2>1, RequestFacts DEF Answered, BoardTypes, Rows
  <2> HIDE DEF Requests
  <2> QED BY <1>10, <2>2, <2>3 DEF Answered, BoardTypes, hub
<1>11. CASE Bridge
  <2>1. relayQueue \in Seq(Events) /\ relayQueue # <<>>
    BY <1>11 DEF Bridge, BoardTypes
  <2>2. Head(relayQueue) \in Events /\ Tail(relayQueue) \in Seq(Events)
    BY <2>1, HeadTailProperties
  <2>3. /\ chan' \in Seq(Events) /\ Len(chan') <= ChanCap /\ registered' \in BOOLEAN
        /\ ~online' => ~registered' /\ chan' = <<>>
    BY <1>11, <2>2, BroadcastTypes DEF Bridge
  <2>4. missed' \in BOOLEAN
    BY <1>11, Zenon DEF Bridge
  <2> HIDE DEF Requests
  <2> QED BY <1>11, <2>2, <2>3, <2>4 DEF Bridge, BoardTypes, page
<1>12. CASE Hear
  <2>1. chan \in Seq(Events) /\ chan # <<>>
    BY <1>12 DEF Hear, BoardTypes
  <2>2. Head(chan) \in Events /\ Tail(chan) \in Seq(Events) /\ Len(Tail(chan)) <= Len(chan) /\ Len(chan) \in Nat
    BY <2>1, HeadTailProperties
  <2>3. cards' \in [Orders -> Rows] /\ seen' \subseteq Events
    BY <1>12, <2>2, AppliedType DEF Hear, BoardTypes
  <2>4. chan' \in Seq(Events) /\ Len(chan') <= ChanCap
    BY <1>12, <2>2, Bounds DEF Hear, BoardTypes
  <2> QED BY <1>12, <2>3, <2>4 DEF Hear, BoardTypes
<1>13. CASE Closed
  BY <1>13 DEF Closed, BoardTypes, page
<1>14. CASE ConnectionLost
  <2>1. drops' \in 0..MaxDrops
    BY <1>14, Bounds DEF ConnectionLost, BoardTypes
  <2>2. <<>> \in Seq(Events) /\ Len(<<>>) <= ChanCap
    BY Bounds
  <2> QED BY <1>14, <2>1, <2>2 DEF ConnectionLost, BoardTypes, page
<1>15. CASE Connect
  <2>1. missed' \in BOOLEAN
    BY <1>15, Zenon DEF Connect
  <2> QED BY <1>15, <2>1 DEF Connect, BoardTypes, page
<1>16. CASE PollRead
  <2>1. Open(orders) \in [Orders -> Rows \ Final]
    <3>1. \A o \in Orders : (IF orders[o] \in Final THEN "NONE" ELSE orders[o]) \in Rows \ Final
      BY DEF BoardTypes, Rows, Final
    <3> QED BY <3>1 DEF Open
  <2>2. polls' \in Seq([Orders -> Rows \ Final]) /\ Len(polls') = Len(polls) + 1 /\ Len(polls) \in Nat
    BY <1>16, <2>1 DEF PollRead, BoardTypes
  <2>3. Len(polls') <= MaxPolls
    BY <1>16, <2>2, Bounds DEF PollRead
  <2> QED BY <1>16, <2>2, <2>3 DEF PollRead, BoardTypes, hub
<1>17. ASSUME NEW e \in seen, ForgetKey(e)
       PROVE  BoardTypes'
  BY <1>17 DEF ForgetKey, BoardTypes, hub
<1>18. ASSUME NEW i \in 1..MaxPolls, PollAnswer(i)
       PROVE  BoardTypes'
  <2>1. polls \in Seq([Orders -> Rows \ Final]) /\ i \in DOMAIN polls /\ Len(polls) <= MaxPolls
    BY <1>18 DEF PollAnswer, BoardTypes
  <2>2. polls[i] \in [Orders -> Rows \ Final] /\ Len(polls) \in Nat
    BY <2>1
  <2>3. polls[i] \in [Orders -> Rows]
    BY <2>2
  <2>4. polls' \in Seq([Orders -> Rows \ Final]) /\ Len(polls') = Len(polls) - 1
    BY <1>18, <2>1, AnswerTaken DEF PollAnswer
  <2>5. Len(polls') <= MaxPolls
    BY <2>1, <2>2, <2>4, Bounds
  <2> QED BY <1>18, <2>3, <2>4, <2>5 DEF PollAnswer, BoardTypes, hub
<1> QED BY <1>1, <1>2, <1>3, <1>4, <1>5, <1>6, <1>8, <1>9, <1>10, <1>11, <1>12, <1>13, <1>14, <1>15,
           <1>16, <1>17, <1>18 DEF BoardNext, RequestSteps

---------------------------------------------------------------------------
(* the requests of the board and what they have said *)

\* A request that begins has a number nobody else has.
LEMMA BeginsApart ==
  ASSUME BoardTypes, RequestsApart, NEW r \in Reqs, NEW o \in Orders, NEW pc, NEW by, NEW type, NEW to,
         Begins(r, o, pc, by, type, to), pc # "idle", pc # "reload" => to # "NONE",
         \A p \in Orders : orders[p] # "NONE" => orders'[p] # "NONE",
         orders'[o] # "NONE"
  PROVE  RequestsApart'
<1>1. reqs[r] = Idle /\ ops \in Nat /\ ops' = ops + 1
  BY Bounds DEF Begins, BoardTypes
<1> DEFINE new == [pc |-> pc, by |-> by, type |-> type, order |-> o, to |-> to, op |-> ops + 1]
<1>2. /\ new.pc = pc /\ new.order = o /\ new.to = to /\ new.op = ops + 1
      /\ reqs' = [reqs EXCEPT ![r] = new]
  BY DEF Begins, Becomes
<1> HIDE DEF new
<1>3. reqs'[r] = new /\ \A q \in Reqs \ {r} : reqs'[q] = reqs[q]
  BY <1>2 DEF BoardTypes
<1>4. ASSUME NEW q \in Reqs \ {r}, UnderWay(q)
      PROVE  reqs[q].order \in Orders /\ reqs[q].op <= ops /\ reqs[q].op \in Nat /\ reqs[q].op # ops + 1
  <2>1. reqs[q].order \in Orders /\ reqs[q].op \in 1..MaxOps
    BY <1>4, RequestFacts
  <2>2. reqs[q].op <= ops
    BY <1>4 DEF RequestsApart
  <2> QED BY <1>1, <2>1, <2>2
<1>5. ASSUME NEW q \in Reqs, UnderWay(q)'
      PROVE  reqs'[q].op <= ops' /\ orders'[reqs'[q].order] # "NONE"
  <2>1. CASE q = r
    BY <1>1, <1>2, <1>3, <2>1
  <2>2. CASE q # r
    <3>1. UnderWay(q) /\ reqs'[q] = reqs[q]
      BY <1>3, <1>5, <2>2 DEF UnderWay
    <3>2. orders[reqs[q].order] # "NONE"
      BY <3>1 DEF RequestsApart
    <3> QED BY <1>1, <1>4, <2>2, <3>1, <3>2
  <2> QED BY <2>1, <2>2
<1>6. ASSUME NEW q \in Reqs, Changed(q)'
      PROVE  reqs'[q].to # "NONE"
  BY <1>2, <1>3, <1>6 DEF RequestsApart, Changed
<1>7. ASSUME NEW q \in Reqs, NEW p \in Reqs, UnderWay(q)', UnderWay(p)', q # p
      PROVE  reqs'[q].op # reqs'[p].op
  BY <1>2, <1>3, <1>4, <1>7 DEF RequestsApart, UnderWay
<1> QED BY <1>5, <1>6, <1>7 DEF RequestsApart

\* A request that moves on keeps its number and its order.
LEMMA MovesApart ==
  ASSUME BoardTypes, RequestsApart, NEW r \in Reqs, UnderWay(r), NEW what, Becomes(r, what),
         ops' = ops, orders' = orders,
         what = Idle \/ (what.op = reqs[r].op /\ what.order = reqs[r].order /\ what.to # "NONE")
  PROVE  RequestsApart'
<1>1. reqs'[r] = what /\ \A q \in Reqs \ {r} : reqs'[q] = reqs[q]
  BY DEF Becomes, BoardTypes
<1>2. ASSUME NEW q \in Reqs, UnderWay(q)'
      PROVE  UnderWay(q) /\ reqs'[q].op = reqs[q].op /\ reqs'[q].order = reqs[q].order
  BY <1>1, <1>2 DEF UnderWay, Idle
<1>3. ASSUME NEW q \in Reqs, Changed(q)'
      PROVE  reqs'[q].to # "NONE"
  BY <1>1, <1>3 DEF Changed, RequestsApart, Idle
<1> QED BY <1>2, <1>3 DEF RequestsApart

\* What a request becomes when it has said its event, or failed to.
Onward(r, what) == what = Idle \/ \E pc \in {"publish", "answer"} : what = [reqs[r] EXCEPT !.pc = pc]

LEMMA OnwardFacts ==
  ASSUME BoardTypes, RequestsApart, NEW r \in Reqs, Changed(r), NEW what, Onward(r, what)
  PROVE  \/ what = Idle
         \/ /\ what.op = reqs[r].op /\ what.order = reqs[r].order /\ what.to = reqs[r].to
            /\ what.type = reqs[r].type /\ what.pc \in {"publish", "answer"} /\ what.to # "NONE"
<1>1. UnderWay(r) /\ reqs[r].to # "NONE"
  BY DEF UnderWay, Changed, RequestsApart
<1>2. reqs[r] \in Requests /\ reqs[r] # Idle
  BY <1>1, IdleFacts DEF BoardTypes
<1> QED BY <1>1, <1>2 DEF Onward, Requests

\* The steps of a request that has changed its order.
LEMMA OnwardSteps ==
  ASSUME NEW r \in Reqs, Relay(r) \/ RelayFails(r) \/ Publish(r) \/ PublishFails(r) \/ Answered(r)
  PROVE  /\ Changed(r) /\ UnderWay(r) /\ ops' = ops /\ orders' = orders /\ overlapped' = overlapped
         /\ \E what : Becomes(r, what) /\ Onward(r, what)
<1>1. CASE Relay(r)
  BY <1>1 DEF Relay, Changed, UnderWay, Onward
<1>2. CASE RelayFails(r)
  BY <1>2 DEF RelayFails, Changed, UnderWay, Onward
<1>3. CASE Publish(r)
  BY <1>3 DEF Publish, Published, Changed, UnderWay, Onward
<1>4. CASE PublishFails(r)
  BY <1>4 DEF PublishFails, Published, Changed, UnderWay, Onward
<1>5. CASE Answered(r)
  BY <1>5 DEF Answered, Changed, UnderWay, Onward
<1> QED BY <1>1, <1>2, <1>3, <1>4, <1>5

\* What is neither a beginning nor a step of a request leaves the requests alone.
Elsewhere ==
  \/ Bridge \/ Hear \/ Closed \/ ConnectionLost \/ Connect \/ PollRead
  \/ \E e \in seen : ForgetKey(e)
  \/ \E i \in 1..MaxPolls : PollAnswer(i)

LEMMA ElsewhereFacts ==
  ASSUME Elsewhere
  PROVE  orders' = orders /\ reqs' = reqs /\ ops' = ops /\ overlapped' = overlapped
BY DEF Elsewhere, Bridge, Hear, Closed, ConnectionLost, Connect, PollRead, ForgetKey, PollAnswer, page, hub

\* The beginnings, in one form.
StartsAs(r, o, pc, by, type, to) ==
  /\ Begins(r, o, pc, by, type, to) /\ pc \in {"reload", "relay", "publish"}
  /\ pc # "reload" => to # "NONE" /\ orders'[o] = to
  /\ pc = "reload" => orders'[o] = orders[o]
  /\ type # "status" => orders'[o] \notin Final
  /\ orders'[o] # "NONE" /\ \A p \in Orders \ {o} : orders'[p] = orders[p]
  /\ UNCHANGED <<hub, page, relayQueue, missed>>

Starts(r, o) ==
  \/ \E by \in {"page", "staff", "core"}, to \in Statuses : Change(r, by, o, to)
  \/ \E by \in {"staff", "worker"} : Create(r, by, o)
  \/ Edit(r, o)

LEMMA StartsFacts ==
  ASSUME BoardTypes, NEW r \in Reqs, NEW o \in Orders, Starts(r, o)
  PROVE  \E pc, by, type, to : StartsAs(r, o, pc, by, type, to)
<1>0. orders \in [Orders -> Rows]
  BY DEF BoardTypes
<1>1. ASSUME NEW by \in {"page", "staff", "core"}, NEW to \in Statuses, Change(r, by, o, to)
      PROVE  StartsAs(r, o, "relay", by, "status", to)
  BY <1>0, <1>1 DEF Change, Statuses, Final, StartsAs
<1>2. ASSUME NEW by \in {"staff", "worker"}, Create(r, by, o)
      PROVE  StartsAs(r, o, IF by = "worker" THEN "publish" ELSE "relay", by, "created", "PENDING")
  BY <1>0, <1>2 DEF Create, Final, StartsAs
<1>3. ASSUME Edit(r, o)
      PROVE  StartsAs(r, o, "reload", "staff", "updated", "NONE")
  BY <1>3 DEF Edit, Statuses, Final, StartsAs
<1> QED BY <1>1, <1>2, <1>3, Zenon DEF Starts

LEMMA RequestsApartStep ==
  ASSUME BoardTypes, RequestsApart, BoardNext
  PROVE  RequestsApart'
<1>1. ASSUME NEW r \in Reqs, NEW o \in Orders, Starts(r, o)
      PROVE  RequestsApart'
  <2>1. PICK pc, by, type, to : StartsAs(r, o, pc, by, type, to)
    BY <1>1, StartsFacts, Zenon
  <2>2. /\ Begins(r, o, pc, by, type, to) /\ pc # "idle" /\ (pc # "reload" => to # "NONE")
        /\ orders'[o] # "NONE" /\ \A p \in Orders : orders[p] # "NONE" => orders'[p] # "NONE"
    BY <2>1 DEF StartsAs
  <2> QED BY <2>2, BeginsApart
<1>2. ASSUME NEW r \in Reqs, Reload(r)
      PROVE  RequestsApart'
  <2>1. UnderWay(r)
    BY <1>2 DEF Reload, UnderWay
  <2> DEFINE what == [reqs[r] EXCEPT !.pc = "relay", !.to = orders[reqs[r].order]]
  <2>2. what.op = reqs[r].op /\ what.order = reqs[r].order /\ what.to # "NONE"
    <3>1. reqs[r] \in Requests /\ reqs[r] # Idle /\ orders[reqs[r].order] # "NONE"
      BY <2>1, IdleFacts DEF BoardTypes, RequestsApart
    <3> QED BY <3>1 DEF Requests
  <2>3. Becomes(r, what) /\ ops' = ops /\ orders' = orders
    BY <1>2 DEF Reload
  <2> HIDE DEF what
  <2> QED BY <2>1, <2>2, <2>3, MovesApart
<1>3. ASSUME NEW r \in Reqs, Relay(r) \/ RelayFails(r) \/ Publish(r) \/ PublishFails(r) \/ Answered(r)
      PROVE  RequestsApart'
  <2>1. Changed(r) /\ UnderWay(r) /\ ops' = ops /\ orders' = orders
    BY <1>3, OnwardSteps, Zenon
  <2>2. PICK what : Becomes(r, what) /\ Onward(r, what)
    BY <1>3, OnwardSteps, Zenon
  <2> QED BY <2>1, <2>2, OnwardFacts, MovesApart
<1>4. CASE Elsewhere
  BY <1>4, ElsewhereFacts DEF RequestsApart, UnderWay, Changed
<1> QED BY <1>1, <1>2, <1>3, <1>4 DEF BoardNext, RequestSteps, Elsewhere, Starts

---------------------------------------------------------------------------
(* what was told *)

\* A broadcast adds at most the event to what was told.
LEMMA BroadcastTold ==
  ASSUME BoardTypes, BoardTypes', NEW e \in Events, Broadcast(e), seen' = seen,
         Range(relayQueue') \subseteq Range(relayQueue)
  PROVE  Told' \subseteq Told \cup {e}
<1>1. chan \in Seq(Events) /\ relayQueue \in Seq(Events) /\ chan' \in Seq(Events) /\ relayQueue' \in Seq(Events)
  BY DEF BoardTypes
<1>2. Range(Stream) = Range(chan) \cup Range(relayQueue)
  BY <1>1, RangeConcatenation, Zenon DEF Stream
<1>3. Range(Stream') = Range(chan') \cup Range(relayQueue')
  BY <1>1, RangeConcatenation, Zenon DEF Stream
<1>4. Range(chan') \subseteq Range(chan) \cup {e}
  BY <1>1, RangeOfAppend DEF Broadcast
<1>5. Told' = seen' \cup Range(Stream')
  BY DEF Told
<1> QED BY <1>2, <1>3, <1>4, <1>5 DEF Told

\* What the steps of a request tell: its own event at most.
LEMMA OnwardTold ==
  ASSUME BoardTypes, BoardTypes', RequestsApart, NEW r \in Reqs,
         Relay(r) \/ RelayFails(r) \/ Publish(r) \/ PublishFails(r) \/ Answered(r)
  PROVE  Told' \subseteq Told \cup {EventOf(r)}
<1>0. Changed(r) /\ EventOf(r) \in Events
  BY OnwardSteps, EventFacts
<1>1. CASE Relay(r)
  BY <1>0, <1>1, BroadcastTold DEF Relay, page
<1>2. CASE Publish(r)
  <2>1. chan \in Seq(Events) /\ relayQueue \in Seq(Events) /\ relayQueue' = Append(relayQueue, EventOf(r))
        /\ relayQueue' \in Seq(Events) /\ chan' = chan /\ seen' = seen
    BY <1>2 DEF BoardTypes, Publish, hub, page
  <2>2. Range(Stream) = Range(chan) \cup Range(relayQueue)
    BY <2>1, RangeConcatenation, Zenon DEF Stream
  <2>3. Range(Stream') = Range(chan) \cup Range(relayQueue')
    <3>1. Stream' = chan \o relayQueue'
      BY <2>1 DEF Stream
    <3>2. chan \in Seq(Events) /\ relayQueue' \in Seq(Events)
      BY <2>1
    <3>3. Range(chan \o relayQueue') = Range(chan) \cup Range(relayQueue')
      BY <3>2, RangeConcatenation, Zenon
    <3> QED BY <3>1, <3>3
  <2>4. Range(relayQueue') = Range(relayQueue) \cup {EventOf(r)}
    BY <1>0, <2>1, RangeOfAppend
  <2>5. Told' = seen' \cup Range(Stream')
    BY DEF Told
  <2> QED BY <2>1, <2>2, <2>3, <2>4, <2>5 DEF Told
<1>3. CASE RelayFails(r) \/ PublishFails(r) \/ Answered(r)
  <2>1. seen' = seen /\ chan' = chan /\ relayQueue' = relayQueue
    BY <1>3 DEF RelayFails, PublishFails, Answered, hub, page
  <2> QED BY <2>1 DEF Told, Stream
<1> QED BY <1>1, <1>2, <1>3

\* Hearing moves the first of what comes into what was seen.
LEMMA HearStream ==
  ASSUME BoardTypes, Hear
  PROVE  /\ Stream # <<>> /\ Stream \in Seq(Events) /\ Head(Stream) = Head(chan) /\ Stream' = Tail(Stream)
         /\ seen' = seen \cup {Head(chan)} /\ Head(chan) \in Events
<1>1. /\ chan \in Seq(Events) /\ relayQueue \in Seq(Events) /\ chan # <<>>
      /\ Stream' = Tail(chan) \o relayQueue /\ seen' = seen \cup {Head(chan)}
  BY DEF BoardTypes, Hear, Stream
<1>2. /\ Len(chan) \in Nat \ {0} /\ Len(relayQueue) \in Nat /\ Head(chan) = chan[1] /\ Head(chan) \in Events
      /\ Tail(chan) \in Seq(Events) /\ Len(Tail(chan)) = Len(chan) - 1
      /\ \A i \in 1..(Len(chan) - 1) : Tail(chan)[i] = chan[i + 1]
  BY <1>1, HeadTailProperties
<1> DEFINE s == Stream
           t == Tail(chan) \o relayQueue
<1>3. /\ s \in Seq(Events) /\ Len(s) = Len(chan) + Len(relayQueue)
      /\ \A i \in 1..(Len(chan) + Len(relayQueue)) :
           s[i] = IF i <= Len(chan) THEN chan[i] ELSE relayQueue[i - Len(chan)]
  BY <1>1, ConcatProperties DEF Stream
<1>4. /\ t \in Seq(Events) /\ Len(t) = Len(chan) - 1 + Len(relayQueue)
      /\ \A i \in 1..(Len(chan) - 1 + Len(relayQueue)) :
           t[i] = IF i <= Len(chan) - 1 THEN Tail(chan)[i] ELSE relayQueue[i - (Len(chan) - 1)]
  BY <1>1, <1>2, ConcatProperties
<1> HIDE DEF s, t
<1>5. s # <<>> /\ Head(s) = chan[1] /\ Tail(s) \in Seq(Events) /\ Len(Tail(s)) = Len(s) - 1
      /\ \A i \in 1..(Len(s) - 1) : Tail(s)[i] = s[i + 1]
  <2>1. s # <<>>
    BY <1>2, <1>3
  <2>2. Head(s) = s[1] /\ 1 \in 1..(Len(chan) + Len(relayQueue)) /\ 1 <= Len(chan)
    BY <1>2, <1>3
  <2> QED BY <1>3, <2>1, <2>2, HeadTailProperties
<1>6. ASSUME NEW i \in 1..(Len(chan) - 1 + Len(relayQueue)) PROVE Tail(s)[i] = t[i]
  <2>0. i \in Nat /\ i \in 1..(Len(s) - 1) /\ i + 1 \in 1..(Len(chan) + Len(relayQueue))
    BY <1>2, <1>3
  <2>1. CASE i <= Len(chan) - 1
    <3>1. i + 1 <= Len(chan) /\ i \in 1..(Len(chan) - 1)
      BY <1>2, <2>0, <2>1
    <3> QED BY <1>2, <1>3, <1>4, <1>5, <2>0, <2>1, <3>1
  <2>2. CASE i > Len(chan) - 1
    <3>1. ~(i + 1 <= Len(chan)) /\ ~(i <= Len(chan) - 1) /\ i + 1 - Len(chan) = i - (Len(chan) - 1)
      BY <1>2, <2>0, <2>2
    <3>2. Tail(s)[i] = s[i + 1] /\ s[i + 1] = relayQueue[i + 1 - Len(chan)]
      BY <1>3, <1>5, <2>0, <3>1
    <3>3. t[i] = relayQueue[i - (Len(chan) - 1)]
      BY <1>4, <3>1
    <3> QED BY <3>1, <3>2, <3>3
  <2> QED BY <1>2, <2>0, <2>1, <2>2
<1>7. Len(Tail(s)) = Len(t) /\ Len(t) = Len(chan) - 1 + Len(relayQueue)
  BY <1>2, <1>3, <1>4, <1>5
<1>8. Tail(s) = t
  BY <1>4, <1>5, <1>6, <1>7, SeqEqual
<1> QED BY <1>1, <1>2, <1>3, <1>5, <1>8 DEF s, t

\* Whatever else happens tells nothing.
LEMMA ElsewhereTold ==
  ASSUME BoardTypes, BoardTypes', Elsewhere
  PROVE  Told' \subseteq Told
<1>1. CASE Bridge
  <2>1. relayQueue \in Seq(Events) /\ relayQueue # <<>> /\ relayQueue' = Tail(relayQueue) /\ seen' = seen
    BY <1>1 DEF Bridge, BoardTypes, page
  <2>2. Range(relayQueue) = {Head(relayQueue)} \cup Range(Tail(relayQueue)) /\ Head(relayQueue) \in Events
    BY <2>1, RangeOfTail
  <2>3. Told' \subseteq Told \cup {Head(relayQueue)}
    BY <1>1, <2>1, <2>2, BroadcastTold DEF Bridge
  <2> QED BY <2>2, <2>3, StreamFacts DEF Told
<1>2. CASE Hear
  <2>1. Range(Stream) = {Head(Stream)} \cup Range(Tail(Stream))
    BY <1>2, HearStream, RangeOfTail
  <2>2. Told' = seen' \cup Range(Stream')
    BY DEF Told
  <2> QED BY <1>2, <2>1, <2>2, HearStream DEF Told
<1>3. CASE Closed \/ Connect \/ PollRead \/ \E i \in 1..MaxPolls : PollAnswer(i)
  <2>1. seen' = seen /\ chan' = chan /\ relayQueue' = relayQueue
    BY <1>3 DEF Closed, Connect, PollRead, PollAnswer, hub, page
  <2> QED BY <2>1 DEF Told, Stream
<1>4. CASE ConnectionLost
  <2>1. seen' = seen /\ chan' = <<>> /\ relayQueue' = relayQueue /\ relayQueue \in Seq(Events)
    BY <1>4 DEF ConnectionLost, page, BoardTypes
  <2>2. Stream' = relayQueue
    BY <2>1 DEF Stream
  <2>3. Told' = seen \cup Range(relayQueue)
    BY <2>1, <2>2 DEF Told
  <2> QED BY <2>3, StreamFacts DEF Told
<1>5. ASSUME NEW e \in seen, ForgetKey(e)
      PROVE  Told' \subseteq Told
  <2>1. seen' = seen \ {e} /\ chan' = chan /\ relayQueue' = relayQueue
    BY <1>5 DEF ForgetKey, hub
  <2> QED BY <2>1 DEF Told, Stream
<1> QED BY <1>1, <1>2, <1>3, <1>4, <1>5 DEF Elsewhere

\* A number is of one event through every step.
LEMMA ToldOnceStep ==
  ASSUME BoardTypes, BoardTypes', RequestsApart, ToldOnce, BoardNext
  PROVE  ToldOnce'
<1>0. /\ ops \in Nat /\ \A e \in Told : e.op \in Nat
  BY StreamFacts, Bounds DEF BoardTypes, Events
<1>1. ASSUME NEW r \in Reqs, NEW o \in Orders, Starts(r, o)
      PROVE  ToldOnce'
  <2>1. PICK pc, by, type, to : StartsAs(r, o, pc, by, type, to)
    BY <1>1, StartsFacts, Zenon
  <2>2. Told' = Told
    BY <2>1 DEF StartsAs, Told, Stream, hub, page
  <2>3. ops' = ops + 1 /\ reqs'[r].op = ops + 1 /\ \A q \in Reqs \ {r} : reqs'[q] = reqs[q]
    BY <2>1 DEF StartsAs, Begins, Becomes, BoardTypes
  <2>4. \A e \in Told : e.op <= ops' /\ e.op # reqs'[r].op
    BY <1>0, <2>3 DEF ToldOnce
  <2>5. ASSUME NEW q \in Reqs, NEW e \in Told', UnderWay(q)', e.op = reqs'[q].op
        PROVE  reqs'[q].pc \in {"publish", "answer"} /\ e = EventOf(q)'
    <3>1. q # r /\ reqs'[q] = reqs[q] /\ UnderWay(q)
      BY <2>2, <2>3, <2>4, <2>5 DEF UnderWay
    <3> QED BY <2>2, <2>5, <3>1 DEF ToldOnce, EventOf
  <2> QED BY <2>2, <2>4, <2>5 DEF ToldOnce
<1>2. ASSUME NEW r \in Reqs, Reload(r)
      PROVE  ToldOnce'
  <2>1. UnderWay(r) /\ reqs[r].pc = "reload" /\ Told' = Told /\ ops' = ops
    BY <1>2 DEF Reload, UnderWay, Told, Stream, hub, page
  <2>2. reqs[r] \in Requests /\ reqs[r] # Idle /\ reqs \in [Reqs -> Requests]
    BY <2>1, IdleFacts DEF BoardTypes
  <2>3. /\ reqs'[r] = [reqs[r] EXCEPT !.pc = "relay", !.to = orders[reqs[r].order]]
        /\ \A q \in Reqs \ {r} : reqs'[q] = reqs[q]
    BY <1>2, <2>2 DEF Reload, Becomes
  <2>4. reqs'[r].op = reqs[r].op
    BY <2>2, <2>3 DEF Requests
  <2>5. \A e \in Told : e.op # reqs'[r].op
    BY <2>1, <2>4 DEF ToldOnce
  <2>6. ASSUME NEW q \in Reqs, NEW e \in Told', UnderWay(q)', e.op = reqs'[q].op
        PROVE  reqs'[q].pc \in {"publish", "answer"} /\ e = EventOf(q)'
    <3>1. q # r /\ reqs'[q] = reqs[q] /\ UnderWay(q)
      BY <2>1, <2>3, <2>5, <2>6 DEF UnderWay
    <3> QED BY <2>1, <2>6, <3>1 DEF ToldOnce, EventOf
  <2> QED BY <2>1, <2>6 DEF ToldOnce
<1>3. ASSUME NEW r \in Reqs, Relay(r) \/ RelayFails(r) \/ Publish(r) \/ PublishFails(r) \/ Answered(r)
      PROVE  ToldOnce'
  <2>1. Changed(r) /\ UnderWay(r) /\ ops' = ops
    BY <1>3, OnwardSteps, Zenon
  <2>2. PICK what : Becomes(r, what) /\ Onward(r, what)
    BY <1>3, OnwardSteps, Zenon
  <2>3. Told' \subseteq Told \cup {EventOf(r)}
    BY <1>3, OnwardTold
  <2>4. reqs'[r] = what /\ \A q \in Reqs \ {r} : reqs'[q] = reqs[q]
    BY <2>2 DEF Becomes, BoardTypes
  <2>5. EventOf(r).op = reqs[r].op /\ reqs[r].op <= ops
    BY <2>1, EventFacts DEF RequestsApart
  <2>6. \A e \in Told : e.op = reqs[r].op => e = EventOf(r)
    BY <2>1 DEF ToldOnce
  <2>7. what # Idle => what.pc \in {"publish", "answer"} /\ EventOf(r)' = EventOf(r) /\ what.op = reqs[r].op
    BY <2>1, <2>2, <2>4, OnwardFacts DEF EventOf
  <2>8. \A e \in Told' : e.op <= ops'
    BY <2>1, <2>3, <2>5 DEF ToldOnce
  <2>9. \A e, f \in Told' : e.op = f.op => e = f
    BY <2>3, <2>5, <2>6 DEF ToldOnce
  <2>10. ASSUME NEW q \in Reqs, NEW e \in Told', UnderWay(q)', e.op = reqs'[q].op
         PROVE  reqs'[q].pc \in {"publish", "answer"} /\ e = EventOf(q)'
    <3>1. CASE q = r
      <4>1. what # Idle
        BY <2>4, <2>10, <3>1 DEF UnderWay, Idle
      <4>2. e.op = reqs[r].op
        BY <2>4, <2>7, <2>10, <3>1, <4>1
      <4> QED BY <2>3, <2>4, <2>6, <2>7, <3>1, <4>1, <4>2
    <3>2. CASE q # r
      <4>1. reqs'[q] = reqs[q] /\ UnderWay(q) /\ reqs[q].op # reqs[r].op
        BY <2>1, <2>4, <2>10, <3>2 DEF UnderWay, RequestsApart
      <4>2. e \in Told
        BY <2>3, <2>5, <2>10, <4>1
      <4> QED BY <2>10, <4>1, <4>2 DEF ToldOnce, EventOf
    <3> QED BY <3>1, <3>2
  <2> QED BY <2>8, <2>9, <2>10 DEF ToldOnce
<1>4. CASE Elsewhere
  <2>1. Told' \subseteq Told /\ reqs' = reqs /\ ops' = ops
    BY <1>4, ElsewhereFacts, ElsewhereTold
  <2> QED BY <2>1 DEF ToldOnce, UnderWay, EventOf
<1> QED BY <1>1, <1>2, <1>3, <1>4 DEF BoardNext, RequestSteps, Elsewhere, Starts

\* Without overlap each request stays alone with its order.
LEMMA OneAtATimeStep ==
  ASSUME BoardTypes, BoardTypes', RequestsApart, ToldOnce, ~overlapped => OneAtATime, BoardNext, ~overlapped'
  PROVE  OneAtATime'
<1>0. /\ ops \in Nat /\ \A e \in Told : e.op \in Nat
  BY StreamFacts, Bounds DEF BoardTypes, Events
<1>1. ASSUME NEW r \in Reqs, NEW o \in Orders, Starts(r, o)
      PROVE  OneAtATime'
  <2>1. PICK pc, by, type, to : StartsAs(r, o, pc, by, type, to)
    BY <1>1, StartsFacts, Zenon
  <2>2. Told' = Told
    BY <2>1 DEF StartsAs, Told, Stream, hub, page
  <2>3. OneAtATime /\ \A q \in Reqs : reqs[q].order # o
    BY <2>1 DEF StartsAs, Begins
  <2> DEFINE new == [pc |-> pc, by |-> by, type |-> type, order |-> o, to |-> to, op |-> ops + 1]
  <2>4. /\ new.pc = pc /\ new.order = o /\ new.to = to /\ new.op = ops + 1 /\ new.type = type
        /\ reqs' = [reqs EXCEPT ![r] = new] /\ ops' = ops + 1
    BY <2>1 DEF StartsAs, Begins, Becomes
  <2> HIDE DEF new
  <2>5. reqs'[r] = new /\ \A q \in Reqs \ {r} : reqs'[q] = reqs[q]
    BY <2>4 DEF BoardTypes
  <2>6. ASSUME NEW q \in Reqs \ {r}
        PROVE  /\ UnderWay(q)' <=> UnderWay(q)
               /\ Changed(q)' <=> Changed(q)
               /\ UnderWay(q) => reqs'[q].order # o /\ orders'[reqs'[q].order] = orders[reqs[q].order]
    <3>1. reqs'[q] = reqs[q]
      BY <2>5
    <3>2. UnderWay(q) => reqs[q].order \in Orders
      BY RequestFacts
    <3> QED BY <2>1, <2>3, <3>1, <3>2 DEF UnderWay, Changed, StartsAs
  <2>7. \A q, p \in Reqs : UnderWay(q)' /\ UnderWay(p)' /\ q # p => reqs'[q].order # reqs'[p].order
    BY <2>3, <2>4, <2>5, <2>6 DEF OneAtATime
  <2>8. \A q \in Reqs : Changed(q)' => reqs'[q].to = orders'[reqs'[q].order]
    <3>1. Changed(r)' => reqs'[r].to = orders'[reqs'[r].order]
      BY <2>1, <2>4, <2>5 DEF StartsAs, Changed
    <3>2. ASSUME NEW q \in Reqs \ {r}, Changed(q)' PROVE reqs'[q].to = orders'[reqs'[q].order]
      <4>1. Changed(q) /\ UnderWay(q) /\ reqs'[q] = reqs[q]
        BY <2>5, <2>6, <3>2 DEF Changed, UnderWay
      <4> QED BY <2>3, <2>6, <4>1 DEF OneAtATime
    <3> QED BY <3>1, <3>2
  <2>9. \A q \in Reqs : UnderWay(q)' /\ reqs'[q].type # "status" => orders'[reqs'[q].order] \notin Final
    <3>1. reqs'[r].type # "status" => orders'[reqs'[r].order] \notin Final
      BY <2>1, <2>4, <2>5 DEF StartsAs
    <3>2. ASSUME NEW q \in Reqs \ {r}, UnderWay(q)', reqs'[q].type # "status"
          PROVE  orders'[reqs'[q].order] \notin Final
      <4>1. UnderWay(q) /\ reqs'[q] = reqs[q]
        BY <2>5, <2>6, <3>2
      <4> QED BY <2>3, <2>6, <3>2, <4>1 DEF OneAtATime
    <3> QED BY <3>1, <3>2
  <2>10. ASSUME NEW q \in Reqs, NEW e \in Told', UnderWay(q)', e.order = reqs'[q].order
         PROVE  e.op <= reqs'[q].op
    <3>1. CASE q = r
      BY <1>0, <2>2, <2>4, <2>5, <2>10, <3>1 DEF ToldOnce
    <3>2. CASE q # r
      BY <2>2, <2>3, <2>5, <2>6, <2>10, <3>2 DEF OneAtATime
    <3> QED BY <3>1, <3>2
  <2> QED BY <2>7, <2>8, <2>9, <2>10 DEF OneAtATime
<1>2. ASSUME NEW r \in Reqs, Reload(r)
      PROVE  OneAtATime'
  <2>1. UnderWay(r) /\ Told' = Told /\ orders' = orders /\ OneAtATime
    BY <1>2 DEF Reload, UnderWay, Told, Stream, hub, page
  <2>2. reqs[r] \in Requests /\ reqs[r] # Idle /\ reqs \in [Reqs -> Requests]
    BY <2>1, IdleFacts DEF BoardTypes
  <2>3. /\ reqs'[r] = [reqs[r] EXCEPT !.pc = "relay", !.to = orders[reqs[r].order]]
        /\ \A q \in Reqs \ {r} : reqs'[q] = reqs[q]
    BY <1>2, <2>2 DEF Reload, Becomes
  <2>4. /\ reqs'[r].op = reqs[r].op /\ reqs'[r].order = reqs[r].order /\ reqs'[r].type = reqs[r].type
        /\ reqs'[r].to = orders[reqs[r].order]
    BY <2>2, <2>3 DEF Requests
  <2>5. \A q \in Reqs : /\ UnderWay(q)' => UnderWay(q)
                        /\ reqs'[q].op = reqs[q].op /\ reqs'[q].order = reqs[q].order /\ reqs'[q].type = reqs[q].type
    BY <2>1, <2>3, <2>4 DEF UnderWay
  <2>6. \A q \in Reqs : Changed(q)' => reqs'[q].to = orders'[reqs'[q].order]
    BY <2>1, <2>3, <2>4 DEF OneAtATime, Changed
  <2> QED BY <2>1, <2>5, <2>6 DEF OneAtATime
<1>3. ASSUME NEW r \in Reqs, Relay(r) \/ RelayFails(r) \/ Publish(r) \/ PublishFails(r) \/ Answered(r)
      PROVE  OneAtATime'
  <2>1. Changed(r) /\ UnderWay(r) /\ orders' = orders /\ OneAtATime
    BY <1>3, OnwardSteps
  <2>2. PICK what : Becomes(r, what) /\ Onward(r, what)
    BY <1>3, OnwardSteps, Zenon
  <2>3. Told' \subseteq Told \cup {EventOf(r)} /\ EventOf(r).op = reqs[r].op /\ EventOf(r).order = reqs[r].order
    BY <1>3, <2>1, OnwardTold, EventFacts
  <2>4. reqs'[r] = what /\ \A q \in Reqs \ {r} : reqs'[q] = reqs[q]
    BY <2>2 DEF Becomes, BoardTypes
  <2>5. ASSUME NEW q \in Reqs, UnderWay(q)'
        PROVE  /\ UnderWay(q) /\ reqs'[q].op = reqs[q].op /\ reqs'[q].order = reqs[q].order
               /\ reqs'[q].type = reqs[q].type /\ reqs'[q].to = reqs[q].to /\ (Changed(q)' => Changed(q))
    <3>1. CASE q = r
      <4>1. what # Idle
        BY <2>4, <2>5, <3>1 DEF UnderWay, Idle
      <4> QED BY <2>1, <2>2, <2>4, <3>1, <4>1, OnwardFacts
    <3>2. CASE q # r
      BY <2>4, <2>5, <3>2 DEF UnderWay, Changed
    <3> QED BY <3>1, <3>2
  <2>6. \A q \in Reqs : Changed(q)' => UnderWay(q)'
    BY DEF Changed, UnderWay
  <2>7. \A q \in Reqs : Changed(q)' => reqs'[q].to = orders'[reqs'[q].order]
    BY <2>1, <2>5, <2>6 DEF OneAtATime
  <2>8. ASSUME NEW q \in Reqs, NEW e \in Told', UnderWay(q)', e.order = reqs'[q].order
        PROVE  e.op <= reqs'[q].op
    <3>1. CASE e \in Told
      BY <2>1, <2>5, <2>8, <3>1 DEF OneAtATime
    <3>2. CASE e = EventOf(r)
      <4>1. q = r
        BY <2>1, <2>3, <2>5, <2>8, <3>2 DEF OneAtATime
      <4>2. reqs[r].op \in 1..MaxOps /\ MaxOps \in Nat
        BY <2>1, RequestFacts, Bounds
      <4> QED BY <2>3, <2>5, <2>8, <3>2, <4>1, <4>2
    <3> QED BY <2>3, <2>8, <3>1, <3>2
  <2> QED BY <2>1, <2>5, <2>7, <2>8 DEF OneAtATime
<1>4. CASE Elsewhere
  <2>1. Told' \subseteq Told /\ reqs' = reqs /\ orders' = orders /\ OneAtATime
    BY <1>4, ElsewhereFacts, ElsewhereTold
  <2> QED BY <2>1 DEF OneAtATime, UnderWay, Changed
<1> QED BY <1>1, <1>2, <1>3, <1>4 DEF BoardNext, RequestSteps, Elsewhere, Starts

---------------------------------------------------------------------------
(* what the cards are while the page follows *)

\* What others have not said of an order stays unsaid.
LEMMA UnsaidKept ==
  ASSUME NEW r \in Reqs, \A q \in Reqs \ {r} : reqs'[q] = reqs[q], NEW p,
         \A f \in Told' : f \in Told \/ f.order # p,
         Unsaid(p),
         \/ reqs[r].order # p
         \/ reqs[r].pc \notin {"relay", "publish"} \/ EventOf(r) \in Told
         \/ Unsaid(p)'
  PROVE  Unsaid(p)'
<1>1. PICK q \in Reqs : reqs[q].order = p /\ reqs[q].pc \in {"relay", "publish"} /\ EventOf(q) \notin Told
  BY DEF Unsaid
<1>2. CASE q = r
  BY <1>1, <1>2
<1>3. CASE q # r
  <2>1. reqs'[q] = reqs[q] /\ EventOf(q)' = EventOf(q) /\ EventOf(q).order = p
    BY <1>1, <1>3 DEF EventOf
  <2>2. EventOf(q)' \notin Told'
    BY <1>1, <2>1
  <2> QED BY <1>1, <2>1, <2>2 DEF Unsaid
<1> QED BY <1>2, <1>3

\* The page stays as it was as long as no order gets nothing more to be said of it.
LEMMA PageKept ==
  ASSUME InOrder, SeenFirst, CardsLead, Stream' = Stream, seen' = seen, cards' = cards,
         \A p \in Orders : ~Unsaid(p)' => ~Unsaid(p) /\ orders'[p] = orders[p]
  PROVE  InOrder' /\ SeenFirst' /\ CardsLead'
<1>1. Coming' = Coming /\ \A p : Due(p)' = Due(p)
  BY DEF Coming, Due
<1>2. InOrder' /\ SeenFirst'
  BY <1>1 DEF InOrder, SeenFirst
<1>3. ASSUME NEW p \in Orders, ~Unsaid(p)'
      PROVE  /\ Due(p)' = {} => cards'[p] = Open(orders')[p]
             /\ \A e \in Due(p)' : Newest(e, Due(p)') => Shown(e) = Open(orders')[p]
  <2>1. ~Unsaid(p) /\ Open(orders')[p] = Open(orders)[p]
    BY <1>3 DEF Open
  <2> QED BY <1>1, <2>1 DEF CardsLead
<1> QED BY <1>2, <1>3 DEF CardsLead

\* The event of a request alone with its order shows the order as it is.
LEMMA ShownNow ==
  ASSUME BoardTypes, OneAtATime, NEW r \in Reqs, Changed(r)
  PROVE  Shown(EventOf(r)) = Open(orders)[reqs[r].order]
<1>1. UnderWay(r) /\ reqs[r].order \in Orders
  BY RequestFacts DEF UnderWay, Changed
<1>2. reqs[r].to = orders[reqs[r].order] /\ (reqs[r].type # "status" => orders[reqs[r].order] \notin Final)
  BY <1>1 DEF OneAtATime
<1> QED BY <1>1, <1>2 DEF Shown, EventOf, Open

\* The numbers of what was told are numbers.
LEMMA Numbers ==
  ASSUME BoardTypes
  PROVE  \A e \in Told : e.op \in Nat
BY StreamFacts, Bounds DEF Events

\* An event said, by the relay or through the queue, leads its order.
LEMMA SaidLeads ==
  ASSUME BoardTypes, RequestsApart, ToldOnce, OneAtATime, SeenFirst, AnswersTold, CardsLead,
         NEW r \in Reqs, Changed(r), NEW what, Becomes(r, what), Onward(r, what),
         Range(Stream') = Range(Stream) \cup {EventOf(r)}, seen' = seen, cards' = cards, orders' = orders
  PROVE  SeenFirst' /\ AnswersTold' /\ CardsLead'
<1> DEFINE e == EventOf(r)
           o == reqs[r].order
<1>1. /\ e.op = reqs[r].op /\ e.order = o /\ e.op \in Nat /\ o \in Orders /\ UnderWay(r)
      /\ \A f \in Told : f.order = o => f.op <= e.op
      /\ \A f \in Told : f.op = e.op => f = e
      /\ \A f \in Told : f.op \in Nat
  <2>1. UnderWay(r) /\ e.op = reqs[r].op /\ e.order = o
    BY EventFacts DEF UnderWay, Changed
  <2>2. o \in Orders /\ e.op \in 1..MaxOps /\ MaxOps \in Nat
    BY <2>1, RequestFacts, Bounds
  <2>3. \A f \in Told : f.order = o => f.op <= e.op
    BY <2>1 DEF OneAtATime
  <2>4. \A f \in Told : f.op = e.op => f = e
    BY <2>1 DEF ToldOnce
  <2> QED BY <2>1, <2>2, <2>3, <2>4, Numbers
<1>2. Shown(e) = Open(orders)[o]
  BY ShownNow
<1>3. /\ reqs'[r] = what /\ \A q \in Reqs \ {r} : reqs'[q] = reqs[q]
      /\ what # Idle => EventOf(r)' = e
  <2>1. reqs'[r] = what /\ \A q \in Reqs \ {r} : reqs'[q] = reqs[q]
    BY DEF Becomes, BoardTypes
  <2> QED BY <2>1, OnwardFacts DEF EventOf
<1> HIDE DEF e, o
<1>4. Told' = Told \cup {e} /\ Coming' = (Coming \cup {e}) \ seen
  BY DEF Told, Coming, e
<1>5. AnswersTold'
  <2>1. ASSUME NEW q \in Reqs, reqs'[q].pc = "answer" PROVE EventOf(q)' \in Told'
    <3>1. CASE q = r
      <4>1. what # Idle
        BY <1>3, <2>1, <3>1 DEF Idle
      <4> QED BY <1>3, <1>4, <3>1, <4>1
    <3>2. CASE q # r
      BY <1>3, <1>4, <2>1, <3>2 DEF AnswersTold, EventOf
    <3> QED BY <3>1, <3>2
  <2> QED BY <2>1 DEF AnswersTold
<1>6. SeenFirst'
  <2>1. ASSUME NEW a \in seen', NEW b \in Coming', a.order = b.order PROVE a.op < b.op
    <3>1. a \in Told /\ a \in seen
      BY <2>1 DEF Told
    <3>2. CASE b = e
      <4>1. a # e
        BY <1>4, <3>1, <3>2
      <4> QED BY <1>1, <2>1, <3>1, <3>2, <4>1
    <3>3. CASE b # e
      BY <1>4, <2>1, <3>1, <3>3 DEF SeenFirst
    <3> QED BY <3>2, <3>3
  <2> QED BY <2>1 DEF SeenFirst
<1>7. ASSUME NEW p \in Orders, ~Unsaid(p)'
      PROVE  /\ Due(p)' = {} => cards'[p] = Open(orders')[p]
             /\ \A f \in Due(p)' : Newest(f, Due(p)') => Shown(f) = Open(orders')[p]
  <2>1. CASE e \in Told
    <3>1. Told' = Told /\ Coming' = Coming /\ Due(p)' = Due(p)
      <4>1. Told' = Told
        BY <1>4, <2>1
      <4>2. Coming' = Coming
        BY <1>4, <2>1 DEF Told, Coming
      <4> QED BY <4>1, <4>2 DEF Due
    <3>2. ~Unsaid(p)
      BY <1>3, <1>7, <2>1, <3>1, UnsaidKept DEF e
    <3> QED BY <3>1, <3>2 DEF CardsLead
  <2>2. CASE e \notin Told /\ p # o
    <3>1. Due(p)' = Due(p)
      BY <1>1, <1>4, <2>2 DEF Due, Coming
    <3>2. ~Unsaid(p)
      <4>1. \A f \in Told' : f \in Told \/ f.order # p
        BY <1>1, <1>4, <2>2
      <4> QED BY <1>3, <1>7, <2>2, <4>1, UnsaidKept DEF o
    <3> QED BY <3>1, <3>2 DEF CardsLead
  <2>3. CASE e \notin Told /\ p = o
    <3>1. e \in Due(p)' /\ \A f \in Due(p)' : f = e \/ (f \in Told /\ f.order = o)
      BY <1>1, <1>4, <2>3 DEF Due, Told, Coming
    <3>2. ASSUME NEW f \in Due(p)', Newest(f, Due(p)') PROVE f = e
      BY <1>1, <3>1, <3>2 DEF Newest
    <3> QED BY <1>2, <2>3, <3>1, <3>2
  <2> QED BY <2>1, <2>2, <2>3
<1>8. CardsLead'
  BY <1>7 DEF CardsLead
<1> QED BY <1>5, <1>6, <1>8

LEMMA FollowingStep ==
  ASSUME BoardTypes, BoardTypes', RequestsApart, ToldOnce, ~overlapped => OneAtATime,
         Following => polls = <<>> /\ InOrder /\ SeenFirst /\ AnswersTold /\ CardsLead,
         BoardNext, Following'
  PROVE  polls' = <<>> /\ InOrder' /\ SeenFirst' /\ AnswersTold' /\ CardsLead'
<1>1. ASSUME NEW r \in Reqs, NEW o \in Orders, Starts(r, o)
      PROVE  polls' = <<>> /\ InOrder' /\ SeenFirst' /\ AnswersTold' /\ CardsLead'
  <2>1. PICK pc, by, type, to : StartsAs(r, o, pc, by, type, to)
    BY <1>1, StartsFacts, Zenon
  <2>2. /\ Stream' = Stream /\ seen' = seen /\ cards' = cards /\ polls' = polls /\ Told' = Told
        /\ Begins(r, o, pc, by, type, to) /\ pc \in {"reload", "relay", "publish"}
    BY <2>1 DEF StartsAs, Told, Stream, hub, page
  <2>3. Following /\ reqs[r] = Idle /\ \A q \in Reqs : reqs[q].order # o
    BY <2>1 DEF StartsAs, Begins, Following, hub
  <2>4. polls = <<>> /\ InOrder /\ SeenFirst /\ AnswersTold /\ CardsLead
    BY <2>3
  <2> DEFINE new == [pc |-> pc, by |-> by, type |-> type, order |-> o, to |-> to, op |-> ops + 1]
  <2>5. /\ new.pc = pc /\ new.order = o /\ new.op = ops + 1 /\ reqs' = [reqs EXCEPT ![r] = new]
    BY <2>2 DEF Begins, Becomes
  <2> HIDE DEF new
  <2>6. reqs'[r] = new /\ \A q \in Reqs \ {r} : reqs'[q] = reqs[q]
    BY <2>5 DEF BoardTypes
  <2>7. AnswersTold'
    BY <2>2, <2>4, <2>5, <2>6 DEF AnswersTold, EventOf
  <2>8. ASSUME NEW p \in Orders, ~Unsaid(p)' PROVE ~Unsaid(p)
    <3>1. reqs[r].pc \notin {"relay", "publish"}
      BY <2>3 DEF Idle
    <3> QED BY <2>2, <2>6, <2>8, <3>1, UnsaidKept
  <2>9. ASSUME NEW p \in Orders, ~Unsaid(p)' PROVE orders'[p] = orders[p]
    <3>1. CASE p # o
      BY <2>1, <3>1 DEF StartsAs
    <3>2. CASE p = o /\ pc = "reload"
      BY <2>1, <3>2 DEF StartsAs
    <3>3. CASE p = o /\ pc # "reload"
      <4>1. EventOf(r)'.op = ops + 1
        BY <2>5, <2>6 DEF EventOf
      <4>2. ops \in Nat /\ \A e \in Told : e.op <= ops /\ e.op \in Nat
        BY Numbers, Bounds DEF ToldOnce, BoardTypes
      <4>3. EventOf(r)' \notin Told'
        BY <2>2, <4>1, <4>2
      <4>4. Unsaid(o)'
        BY <2>2, <2>5, <2>6, <3>3, <4>3 DEF Unsaid
      <4> QED BY <2>9, <3>3, <4>4
    <3> QED BY <3>1, <3>2, <3>3
  <2> QED BY <2>2, <2>4, <2>7, <2>8, <2>9, PageKept
<1>2. ASSUME NEW r \in Reqs, Reload(r)
      PROVE  polls' = <<>> /\ InOrder' /\ SeenFirst' /\ AnswersTold' /\ CardsLead'
  <2>1. /\ UnderWay(r) /\ reqs[r].pc = "reload" /\ orders' = orders
        /\ Stream' = Stream /\ seen' = seen /\ cards' = cards /\ polls' = polls /\ Told' = Told
        /\ Following
    BY <1>2 DEF Reload, UnderWay, Told, Stream, hub, page, Following
  <2>2. polls = <<>> /\ InOrder /\ SeenFirst /\ AnswersTold /\ CardsLead
    BY <2>1
  <2>3. reqs[r] \in Requests /\ reqs[r] # Idle /\ reqs \in [Reqs -> Requests]
    BY <2>1, IdleFacts DEF BoardTypes
  <2>4. /\ reqs'[r] = [reqs[r] EXCEPT !.pc = "relay", !.to = orders[reqs[r].order]]
        /\ \A q \in Reqs \ {r} : reqs'[q] = reqs[q]
    BY <1>2, <2>3 DEF Reload, Becomes
  <2>5. reqs'[r].pc = "relay"
    BY <2>3, <2>4 DEF Requests
  <2>6. AnswersTold'
    BY <2>1, <2>2, <2>4, <2>5 DEF AnswersTold, EventOf
  <2>7. ASSUME NEW p \in Orders, ~Unsaid(p)' PROVE ~Unsaid(p)
    BY <2>1, <2>4, <2>7, UnsaidKept
  <2> QED BY <2>1, <2>2, <2>6, <2>7, PageKept
<1>3. ASSUME NEW r \in Reqs, RelayFails(r) \/ PublishFails(r)
      PROVE  polls' = <<>> /\ InOrder' /\ SeenFirst' /\ AnswersTold' /\ CardsLead'
  <2>1. /\ Changed(r) /\ UnderWay(r) /\ orders' = orders /\ overlapped' = overlapped
    BY <1>3, OnwardSteps
  <2>2. PICK what : Becomes(r, what) /\ Onward(r, what)
    BY <1>3, OnwardSteps, Zenon
  <2>3. /\ Stream' = Stream /\ seen' = seen /\ cards' = cards /\ polls' = polls /\ Told' = Told
        /\ Following
    <3>1. /\ Stream' = Stream /\ seen' = seen /\ cards' = cards /\ polls' = polls /\ Told' = Told
          /\ online' = online /\ registered' = registered /\ overlapped' = overlapped
      BY <1>3 DEF RelayFails, PublishFails, Told, Stream, hub, page
    <3>2. missed => missed'
      BY <1>3, Zenon DEF RelayFails, PublishFails
    <3> QED BY <3>1, <3>2 DEF Following
  <2>4. polls = <<>> /\ InOrder /\ SeenFirst /\ AnswersTold /\ CardsLead
    BY <2>3
  <2>5. reqs'[r] = what /\ \A q \in Reqs \ {r} : reqs'[q] = reqs[q]
    BY <2>2 DEF Becomes, BoardTypes
  <2>6. what # Idle => EventOf(r)' = EventOf(r)
    BY <2>1, <2>2, <2>5, OnwardFacts DEF EventOf
  <2>7. PublishFails(r) => EventOf(r) \in Told
    <3>1. PublishFails(r) => EventOf(r) \in Heard
      BY DEF PublishFails, Following
    <3> QED BY <3>1, StreamFacts
  <2>8. RelayFails(r) => reqs'[r].pc = "publish" /\ what # Idle /\ reqs'[r].order = reqs[r].order
    <3>1. reqs[r] \in Requests /\ reqs[r] # Idle
      BY <2>1, IdleFacts DEF BoardTypes
    <3>2. RelayFails(r) => reqs'[r] = [reqs[r] EXCEPT !.pc = "publish"]
      BY DEF RelayFails, Becomes, BoardTypes
    <3> QED BY <2>5, <3>1, <3>2 DEF Requests, Idle
  <2>9. AnswersTold'
    <3>1. ASSUME NEW q \in Reqs, reqs'[q].pc = "answer" PROVE EventOf(q)' \in Told'
      <4>1. CASE q = r
        <5>1. what # Idle /\ ~RelayFails(r)
          BY <2>5, <2>8, <3>1, <4>1 DEF Idle
        <5> QED BY <1>3, <2>3, <2>6, <2>7, <4>1, <5>1
      <4>2. CASE q # r
        BY <2>3, <2>4, <2>5, <3>1, <4>2 DEF AnswersTold, EventOf
      <4> QED BY <4>1, <4>2
    <3> QED BY <3>1 DEF AnswersTold
  <2>10. ASSUME NEW p \in Orders, ~Unsaid(p)' PROVE ~Unsaid(p)
    <3>1. CASE PublishFails(r)
      BY <2>3, <2>5, <2>7, <2>10, <3>1, UnsaidKept
    <3>2. CASE RelayFails(r)
      <4>1. reqs[r].order = p => EventOf(r) \in Told
        BY <2>3, <2>6, <2>8, <2>10, <3>2 DEF Unsaid
      <4> QED BY <2>3, <2>5, <2>10, <4>1, UnsaidKept
    <3> QED BY <1>3, <3>1, <3>2
  <2> QED BY <2>1, <2>3, <2>4, <2>9, <2>10, PageKept
<1>4. ASSUME NEW r \in Reqs, Relay(r)
      PROVE  polls' = <<>> /\ InOrder' /\ SeenFirst' /\ AnswersTold' /\ CardsLead'
  <2>1. /\ Changed(r) /\ UnderWay(r) /\ orders' = orders /\ overlapped' = overlapped
    BY <1>4, OnwardSteps
  <2>2. PICK what : Becomes(r, what) /\ Onward(r, what)
    BY <1>4, OnwardSteps, Zenon
  <2>3. /\ chan' = Append(chan, EventOf(r)) /\ relayQueue' = relayQueue /\ Range(relayQueue) \subseteq Heard
        /\ seen' = seen /\ cards' = cards /\ polls' = polls /\ Following
    BY <1>4 DEF Relay, Broadcast, Room, page, Following
  <2>4. polls = <<>> /\ InOrder /\ SeenFirst /\ AnswersTold /\ CardsLead /\ OneAtATime
    BY <2>3 DEF Following
  <2>5. EventOf(r) \in Events /\ EventOf(r).op = reqs[r].op /\ EventOf(r).order = reqs[r].order
    BY <2>1, EventFacts
  <2>11. EventOf(r).op \in Nat /\ <<EventOf(r)>> \in Seq(Events)
    BY <2>5, Bounds DEF Events
  <2>6. EventOf(r) \notin Told
    BY <1>4, <2>1, <2>5 DEF ToldOnce, Relay
  <2>7. /\ chan \in Seq(Events) /\ relayQueue \in Seq(Events) /\ chan' \in Seq(Events)
        /\ Stream' = Append(chan, EventOf(r)) \o relayQueue
    BY <2>3 DEF BoardTypes, Stream
  <2>8. Range(Stream') = Range(Stream) \cup {EventOf(r)}
    <3>1. Range(chan') = Range(chan) \cup {EventOf(r)}
      BY <2>3, <2>5, <2>7, RangeOfAppend
    <3>2. Range(chan' \o relayQueue) = Range(chan') \cup Range(relayQueue)
      BY <2>7, RangeConcatenation, Zenon
    <3>3. Stream' = chan' \o relayQueue
      BY <2>3 DEF Stream
    <3> QED BY <3>1, <3>2, <3>3, StreamFacts
  <2>9. SeenFirst' /\ AnswersTold' /\ CardsLead'
    BY <2>1, <2>2, <2>3, <2>4, <2>8, SaidLeads
  <2>10. ASSUME NEW a \in Coming', NEW b \in Coming', a.order = b.order, a.op < b.op
         PROVE  Before(a, b, Stream')
    <3>1. /\ a \in Range(Stream) \cup {EventOf(r)} /\ b \in Range(Stream) \cup {EventOf(r)}
          /\ a \notin seen /\ b \notin seen
      BY <2>3, <2>8, <2>10 DEF Coming
    <3>2. CASE b # EventOf(r)
      <4>1. a # EventOf(r)
        <5>1. b \in Told
          BY <3>1, <3>2 DEF Told
        <5>2. b.order = reqs[r].order => b.op <= reqs[r].op /\ b.op \in Nat /\ reqs[r].op \in 1..MaxOps
          BY <2>1, <2>4, <5>1, Numbers, RequestFacts DEF OneAtATime
        <5> QED BY <2>5, <2>10, <5>2, Bounds
      <4>2. a \in Coming /\ b \in Coming
        BY <3>1, <3>2, <4>1 DEF Coming
      <4>3. Before(a, b, chan \o relayQueue)
        BY <2>4, <2>10, <4>2 DEF InOrder, Stream
      <4> QED BY <2>5, <2>7, <3>2, <4>3, BeforeInsert
    <3>3. CASE b = EventOf(r)
      <4>1. a # b
        BY <2>10, <2>11, <3>3
      <4>2. a \in Range(chan)
        BY <2>3, <3>1, <3>3, <4>1, StreamFacts DEF Heard
      <4>3. b \notin Range(chan)
        BY <2>6, <3>3, StreamFacts DEF Told
      <4>4. Before(a, b, chan)
        BY <2>7, <4>2, <4>3, BeforeAbsent
      <4>5. Before(a, b, chan \o <<EventOf(r)>>)
        BY <2>7, <2>11, <4>4, BeforeConcat
      <4>6. chan \o <<EventOf(r)>> = chan'
        BY <2>3, <2>5, <2>7
      <4>7. Before(a, b, chan' \o relayQueue)
        BY <2>7, <4>5, <4>6, BeforeConcat
      <4> QED BY <2>3, <4>7 DEF Stream
    <3> QED BY <3>2, <3>3
  <2> QED BY <2>3, <2>4, <2>9, <2>10 DEF InOrder
<1>5. ASSUME NEW r \in Reqs, Publish(r)
      PROVE  polls' = <<>> /\ InOrder' /\ SeenFirst' /\ AnswersTold' /\ CardsLead'
  <2>1. /\ Changed(r) /\ UnderWay(r) /\ orders' = orders /\ overlapped' = overlapped
    BY <1>5, OnwardSteps
  <2>2. PICK what : Becomes(r, what) /\ Onward(r, what)
    BY <1>5, OnwardSteps, Zenon
  <2>3. /\ chan' = chan /\ relayQueue' = Append(relayQueue, EventOf(r))
        /\ seen' = seen /\ cards' = cards /\ polls' = polls /\ Following
    BY <1>5 DEF Publish, hub, page, Following
  <2>4. polls = <<>> /\ InOrder /\ SeenFirst /\ AnswersTold /\ CardsLead /\ OneAtATime
    BY <2>3 DEF Following
  <2>5. EventOf(r) \in Events /\ EventOf(r).op = reqs[r].op /\ EventOf(r).order = reqs[r].order
    BY <2>1, EventFacts
  <2>6. Stream \in Seq(Events) /\ <<EventOf(r)>> \in Seq(Events) /\ Stream' = Stream \o <<EventOf(r)>>
    <3>1. chan \in Seq(Events) /\ relayQueue \in Seq(Events) /\ <<EventOf(r)>> \in Seq(Events)
      BY <2>5 DEF BoardTypes
    <3>2. relayQueue' = relayQueue \o <<EventOf(r)>>
      BY <2>3, <2>5, <3>1
    <3>3. (chan \o relayQueue) \o <<EventOf(r)>> = chan \o (relayQueue \o <<EventOf(r)>>)
      BY <3>1, ConcatAssociative
    <3> QED BY <2>3, <3>1, <3>2, <3>3, StreamFacts DEF Stream
  <2>7. Range(Stream') = Range(Stream) \cup {EventOf(r)}
    <3>1. Append(Stream, EventOf(r)) = Stream'
      BY <2>5, <2>6
    <3>2. Range(Append(Stream, EventOf(r))) = Range(Stream) \cup {EventOf(r)}
      BY <2>5, <2>6, RangeOfAppend
    <3> QED BY <3>1, <3>2
  <2>8. SeenFirst' /\ AnswersTold' /\ CardsLead'
    BY <2>1, <2>2, <2>3, <2>4, <2>7, SaidLeads
  <2>9. ASSUME NEW a \in Coming', NEW b \in Coming', a.order = b.order, a.op < b.op
        PROVE  Before(a, b, Stream')
    <3>1. /\ a \in Range(Stream) \cup {EventOf(r)} /\ b \in Range(Stream) \cup {EventOf(r)}
          /\ a \notin seen /\ b \notin seen
      BY <2>3, <2>7, <2>9 DEF Coming
    <3>2. a \in Range(Stream)
      <4>1. CASE a = EventOf(r)
        <5>1. CASE b \in Told
          <6>1. b.order = reqs[r].order => b.op <= reqs[r].op /\ b.op \in Nat /\ reqs[r].op \in 1..MaxOps
            BY <2>1, <2>4, <5>1, Numbers, RequestFacts DEF OneAtATime
          <6> QED BY <2>5, <2>9, <4>1, <6>1, Bounds
        <5>2. CASE b = EventOf(r)
          <6>1. EventOf(r).op \in Nat
            BY <2>5, Bounds DEF Events
          <6> QED BY <2>9, <4>1, <5>2, <6>1
        <5> QED BY <3>1, <5>1, <5>2 DEF Told
      <4> QED BY <3>1, <4>1
    <3>3. CASE b \in Range(Stream)
      <4>1. Before(a, b, Stream)
        BY <2>4, <2>9, <3>1, <3>2, <3>3 DEF InOrder, Coming
      <4> QED BY <2>6, <4>1, BeforeConcat
    <3>4. CASE b \notin Range(Stream)
      <4>1. Before(a, b, Stream)
        BY <2>6, <3>2, <3>4, BeforeAbsent
      <4> QED BY <2>6, <4>1, BeforeConcat
    <3> QED BY <3>3, <3>4
  <2> QED BY <2>3, <2>4, <2>8, <2>9 DEF InOrder
<1>6. ASSUME NEW r \in Reqs, Answered(r)
      PROVE  polls' = <<>> /\ InOrder' /\ SeenFirst' /\ AnswersTold' /\ CardsLead'
  <2>1. /\ Changed(r) /\ UnderWay(r) /\ reqs[r].pc = "answer" /\ orders' = orders
        /\ Stream' = Stream /\ seen' = seen /\ polls' = polls /\ Told' = Told /\ Following
        /\ Becomes(r, Idle)
        /\ cards' = [cards EXCEPT ![reqs[r].order] =
                       IF reqs[r].to \in Final \/ @ = "NONE" THEN "NONE" ELSE reqs[r].to]
    BY <1>6 DEF Answered, UnderWay, Changed, Told, Stream, hub, Following
  <2>2. polls = <<>> /\ InOrder /\ SeenFirst /\ AnswersTold /\ CardsLead /\ OneAtATime
    BY <2>1 DEF Following
  <2>3. reqs'[r] = Idle /\ \A q \in Reqs \ {r} : reqs'[q] = reqs[q]
    BY <2>1 DEF Becomes, BoardTypes
  <2>4. AnswersTold'
    BY <2>1, <2>2, <2>3 DEF AnswersTold, EventOf, Idle
  <2>5. /\ reqs[r].order \in Orders /\ reqs[r].to = orders[reqs[r].order] /\ EventOf(r) \in Told
        /\ EventOf(r).op = reqs[r].op /\ EventOf(r).order = reqs[r].order
        /\ \A e \in Told : e.order = reqs[r].order => e.op <= reqs[r].op
        /\ reqs[r].op \in Nat
    <3>1. reqs[r].op \in 1..MaxOps /\ MaxOps \in Nat /\ reqs[r].order \in Orders
      BY <2>1, RequestFacts, Bounds
    <3> QED BY <2>1, <2>2, <3>1, EventFacts DEF OneAtATime, AnswersTold
  <2>6. Coming' = Coming /\ \A p : Due(p)' = Due(p)
    BY <2>1 DEF Coming, Due
  <2>7. InOrder' /\ SeenFirst'
    BY <2>1, <2>2, <2>6 DEF InOrder, SeenFirst
  <2>8. ASSUME NEW p \in Orders, ~Unsaid(p)' PROVE ~Unsaid(p)
    BY <2>1, <2>3, <2>8, UnsaidKept
  <2>9. ~Unsaid(reqs[r].order)
    <3>1. ASSUME NEW q \in Reqs, reqs[q].order = reqs[r].order PROVE q = r
      <4>1. UnderWay(q)
        BY <2>5, <3>1, IdleFacts
      <4> QED BY <2>1, <2>2, <3>1, <4>1 DEF OneAtATime
    <3> QED BY <2>1, <3>1 DEF Unsaid
  <2>10. ASSUME NEW p \in Orders, ~Unsaid(p)'
         PROVE  /\ Due(p)' = {} => cards'[p] = Open(orders')[p]
                /\ \A e \in Due(p)' : Newest(e, Due(p)') => Shown(e) = Open(orders')[p]
    <3>1. ~Unsaid(p) /\ Open(orders') = Open(orders)
      BY <2>1, <2>8, <2>10
    <3>2. CASE p # reqs[r].order
      <4>1. cards'[p] = cards[p]
        BY <2>1, <3>2 DEF BoardTypes
      <4> QED BY <2>2, <2>6, <3>1, <4>1 DEF CardsLead
    <3>3. CASE p = reqs[r].order
      <4>1. \A e \in Due(p)' : Newest(e, Due(p)') => Shown(e) = Open(orders')[p]
        BY <2>2, <2>6, <3>1 DEF CardsLead
      <4>2. ASSUME Due(p)' = {} PROVE cards'[p] = Open(orders')[p]
        <5>1. cards[p] = Open(orders)[p]
          BY <2>2, <2>6, <3>1, <4>2 DEF CardsLead
        <5>2. cards'[p] = IF reqs[r].to \in Final \/ cards[p] = "NONE" THEN "NONE" ELSE reqs[r].to
          BY <2>1, <3>3 DEF BoardTypes
        <5>3. Open(orders)[p] = IF orders[p] \in Final THEN "NONE" ELSE orders[p]
          BY DEF Open
        <5> QED BY <2>5, <3>1, <3>3, <5>1, <5>2, <5>3
      <4> QED BY <4>1, <4>2
    <3> QED BY <3>2, <3>3
  <2> QED BY <2>1, <2>2, <2>4, <2>7, <2>10 DEF CardsLead
<1>7. CASE Bridge
  <2>1. /\ chan' = Append(chan, Head(relayQueue)) /\ relayQueue' = Tail(relayQueue) /\ relayQueue # <<>>
        /\ seen' = seen /\ cards' = cards /\ polls' = polls /\ Following
        /\ orders' = orders /\ reqs' = reqs
    BY <1>7 DEF Bridge, Broadcast, Room, page, Following
  <2>2. Stream' = Stream
    BY <2>1, HeadMoved DEF Stream, BoardTypes
  <2>3. polls = <<>> /\ InOrder /\ SeenFirst /\ AnswersTold /\ CardsLead
    BY <2>1
  <2>4. Told' = Told
    BY <2>1, <2>2 DEF Told
  <2>5. AnswersTold' /\ \A p \in Orders : Unsaid(p)' <=> Unsaid(p)
    BY <2>1, <2>3, <2>4 DEF AnswersTold, Unsaid, EventOf
  <2> QED BY <2>1, <2>2, <2>3, <2>5, PageKept
<1>8. CASE Hear
  <2> DEFINE e == Head(chan)
  <2>1. /\ Following /\ orders' = orders /\ reqs' = reqs /\ polls' = polls
        /\ cards' = IF e \notin seen THEN Applied(e) ELSE cards
    BY <1>8 DEF Hear, Following, Fresh
  <2>2. polls = <<>> /\ InOrder /\ SeenFirst /\ AnswersTold /\ CardsLead
    BY <2>1
  <2>3. /\ Stream # <<>> /\ Stream \in Seq(Events) /\ Head(Stream) = e /\ Stream' = Tail(Stream)
        /\ seen' = seen \cup {e} /\ e \in Events
    BY <1>8, HearStream
  <2> HIDE DEF e
  <2>4. Range(Stream) = {e} \cup Range(Stream')
    BY <2>3, RangeOfTail
  <2>5. Told' = Told /\ Coming' = Coming \ {e} /\ e \in Told
    BY <2>3, <2>4 DEF Told, Coming
  <2>6. AnswersTold' /\ \A p \in Orders : Unsaid(p)' <=> Unsaid(p)
    BY <2>1, <2>2, <2>5 DEF AnswersTold, Unsaid, EventOf
  <2>7. ASSUME e \notin seen, NEW f \in Coming \ {e}, f.order = e.order PROVE e.op < f.op
    <3>1. f \in Told /\ f.op \in Nat /\ e.op \in Nat /\ f.op # e.op
      BY <2>5, <2>7, Numbers DEF ToldOnce, Coming, Told
    <3>2. ~(f.op < e.op)
      <4>1. e \in Coming
        BY <2>4, <2>7 DEF Coming
      <4>2. f.op < e.op => Before(f, e, Stream)
        BY <2>2, <2>7, <4>1 DEF InOrder
      <4>3. ~Before(f, e, Stream)
        BY <2>3, NotBeforeHead
      <4> QED BY <4>2, <4>3
    <3> QED BY <3>1, <3>2
  <2>8. InOrder'
    <3>1. ASSUME NEW a \in Coming', NEW b \in Coming', a.order = b.order, a.op < b.op
          PROVE  Before(a, b, Tail(Stream))
      <4>1. a # e /\ Before(a, b, Stream)
        BY <2>2, <2>5, <3>1 DEF InOrder
      <4> QED BY <2>3, <4>1, BeforeTail
    <3> QED BY <2>3, <3>1 DEF InOrder
  <2>9. SeenFirst'
    <3>1. ASSUME NEW a \in seen', NEW b \in Coming', a.order = b.order PROVE a.op < b.op
      <4>1. b \in Coming \ {e} /\ a \in seen \cup {e}
        BY <2>3, <2>5, <3>1
      <4> QED BY <2>2, <2>7, <3>1, <4>1 DEF SeenFirst
    <3> QED BY <3>1 DEF SeenFirst
  <2>10. ASSUME NEW p \in Orders, ~Unsaid(p)'
         PROVE  /\ Due(p)' = {} => cards'[p] = Open(orders')[p]
                /\ \A f \in Due(p)' : Newest(f, Due(p)') => Shown(f) = Open(orders')[p]
    <3>1. /\ ~Unsaid(p) /\ Open(orders') = Open(orders)
          /\ Due(p) = {} => cards[p] = Open(orders)[p]
          /\ \A f \in Due(p) : Newest(f, Due(p)) => Shown(f) = Open(orders)[p]
      BY <2>1, <2>2, <2>6, <2>10 DEF CardsLead
    <3>2. CASE e \in seen
      <4>1. Due(p)' = Due(p) /\ cards' = cards
        BY <2>1, <2>5, <3>2 DEF Due, Coming
      <4> QED BY <3>1, <4>1
    <3>3. CASE e \notin seen /\ p # e.order
      <4>1. Due(p)' = Due(p)
        BY <2>5, <3>3 DEF Due
      <4>2. cards'[p] = cards[p]
        BY <2>1, <3>3 DEF Applied, BoardTypes
      <4> QED BY <3>1, <4>1, <4>2
    <3>4. CASE e \notin seen /\ p = e.order
      <4>1. Due(p) = Due(p)' \cup {e} /\ e \in Due(p) /\ e.op \in Nat
        BY <2>4, <2>5, <3>4, Numbers DEF Due, Coming
      <4>2. \A f \in Due(p)' : e.op < f.op /\ f.op \in Nat
        BY <2>5, <2>7, <3>4, Numbers DEF Due, Coming, Told
      <4>3. ASSUME NEW f \in Due(p)', Newest(f, Due(p)') PROVE Shown(f) = Open(orders')[p]
        <5>1. f \in Due(p) /\ Newest(f, Due(p))
          BY <4>1, <4>2, <4>3 DEF Newest
        <5> QED BY <3>1, <5>1
      <4>4. ASSUME Due(p)' = {} PROVE cards'[p] = Open(orders')[p]
        <5>1. Newest(e, Due(p))
          BY <4>1, <4>4 DEF Newest
        <5>2. cards'[p] = Shown(e)
          BY <2>1, <3>4 DEF Applied, Shown, BoardTypes
        <5> QED BY <3>1, <4>1, <5>1, <5>2
      <4> QED BY <4>3, <4>4
    <3> QED BY <3>2, <3>3, <3>4
  <2> QED BY <2>1, <2>2, <2>6, <2>8, <2>9, <2>10 DEF CardsLead
<1>9. CASE Connect
  <2>1. /\ cards = Open(orders) /\ polls = <<>> /\ relayQueue = <<>> /\ \A r \in Reqs : reqs[r] = Idle
    BY <1>9 DEF Connect, Following
  <2>2. /\ chan = <<>> /\ chan' = chan /\ relayQueue' = relayQueue /\ orders' = orders /\ cards' = cards
        /\ polls' = polls /\ reqs' = reqs
    BY <1>9 DEF Connect, BoardTypes, page
  <2>3. Range(Stream') = {}
    <3>1. Stream' = <<>>
      BY <2>1, <2>2 DEF Stream
    <3> QED BY <3>1 DEF Range
  <2>4. Coming' = {} /\ \A p : Due(p)' = {}
    BY <2>3 DEF Coming, Due
  <2>5. InOrder' /\ SeenFirst'
    BY <2>4 DEF InOrder, SeenFirst
  <2>6. AnswersTold'
    BY <2>1, <2>2 DEF AnswersTold, Idle
  <2>7. CardsLead'
    BY <2>1, <2>2, <2>4 DEF CardsLead
  <2> QED BY <2>1, <2>2, <2>5, <2>6, <2>7
<1>10. CASE Closed \/ ConnectionLost \/ PollRead \/ \E e \in seen : ForgetKey(e)
  BY <1>10 DEF Closed, ConnectionLost, PollRead, ForgetKey, Following, hub
<1>11. ASSUME NEW i \in 1..MaxPolls, PollAnswer(i)
       PROVE  FALSE
  <2>1. Following /\ i \in DOMAIN polls
    BY <1>11 DEF PollAnswer, Following, hub
  <2> QED BY <2>1
<1> QED BY <1>1, <1>2, <1>3, <1>4, <1>5, <1>6, <1>7, <1>8, <1>9, <1>10, <1>11
        DEF BoardNext, RequestSteps, Starts

---------------------------------------------------------------------------
(* the theorems *)

\* The board is an invariant whole.
LEMMA BoardInvHolds == BoardSpec => []BoardInv
<1>1. ASSUME BoardInit PROVE BoardInv
  <2>1. BoardTypes
    <3>1. orders \in [Orders -> Rows] /\ Open(orders) \in [Orders -> Rows]
      BY <1>1 DEF BoardInit, Open, Rows, Statuses, Final
    <3>2. Idle \in Requests
      BY DEF Requests
    <3>3. reqs \in [Reqs -> Requests]
      BY <1>1, <3>2 DEF BoardInit
    <3>4. <<>> \in Seq(Events) /\ Len(<<>>) = 0 /\ <<>> \in Seq([Orders -> Rows \ Final])
      OBVIOUS
    <3>5. ChanCap \in Nat /\ MaxPolls \in Nat /\ MaxOps \in Nat /\ MaxDrops \in Nat
      BY Bounds
    <3>6. orders \in [Orders -> Rows] /\ cards \in [Orders -> Rows]
      BY <1>1, <3>1 DEF BoardInit
    <3>7. /\ relayQueue = <<>> /\ chan = <<>> /\ polls = <<>> /\ seen = {} /\ ops = 0 /\ drops = 0
          /\ registered \in BOOLEAN /\ online \in BOOLEAN /\ overlapped \in BOOLEAN /\ missed \in BOOLEAN
          /\ online
      BY <1>1 DEF BoardInit
    <3>8. 0 <= ChanCap /\ 0 <= MaxPolls /\ 0 \in 0..MaxOps /\ 0 \in 0..MaxDrops
      BY <3>5
    <3> HIDE DEF Requests
    <3> QED BY <3>3, <3>4, <3>6, <3>7, <3>8 DEF BoardTypes
  <2>2. \A r \in Reqs : ~UnderWay(r) /\ ~Changed(r) /\ reqs[r].pc = "idle"
    BY <1>1 DEF BoardInit, UnderWay, Changed, Idle
  <2>3. Told = {} /\ Coming = {} /\ \A p : Due(p) = {}
    <3>1. Stream = <<>> /\ seen = {}
      BY <1>1 DEF BoardInit, Stream
    <3>2. Range(<<>>) = {}
      BY DEF Range
    <3> QED BY <3>1, <3>2 DEF Told, Coming, Due
  <2>4. RequestsApart /\ ToldOnce /\ OneAtATime
    BY <2>2, <2>3 DEF RequestsApart, ToldOnce, OneAtATime
  <2>5. polls = <<>> /\ cards = Open(orders)
    BY <1>1 DEF BoardInit
  <2>6. InOrder /\ SeenFirst /\ AnswersTold /\ CardsLead
    BY <2>2, <2>3, <2>5 DEF InOrder, SeenFirst, AnswersTold, CardsLead
  <2> QED BY <2>1, <2>4, <2>5, <2>6 DEF BoardInv
<1>2. ASSUME BoardInv, [BoardNext]_boardVars PROVE BoardInv'
  <2>1. CASE BoardNext
    <3>1. BoardTypes'
      BY <1>2, <2>1, BoardTypesStep DEF BoardInv
    <3>2. RequestsApart' /\ ToldOnce'
      BY <1>2, <2>1, <3>1, RequestsApartStep, ToldOnceStep DEF BoardInv
    <3>3. ~overlapped' => OneAtATime'
      BY <1>2, <2>1, <3>1, OneAtATimeStep DEF BoardInv
    <3>4. Following' => polls' = <<>> /\ InOrder' /\ SeenFirst' /\ AnswersTold' /\ CardsLead'
      BY <1>2, <2>1, <3>1, FollowingStep DEF BoardInv
    <3> QED BY <3>1, <3>2, <3>3, <3>4 DEF BoardInv
  <2>2. CASE UNCHANGED boardVars
    <3>1. /\ orders' = orders /\ cards' = cards /\ reqs' = reqs /\ relayQueue' = relayQueue /\ chan' = chan
          /\ seen' = seen /\ polls' = polls /\ registered' = registered /\ online' = online
          /\ overlapped' = overlapped /\ missed' = missed /\ ops' = ops /\ drops' = drops
      BY <2>2 DEF boardVars, hub, page
    <3>2. Stream' = Stream /\ Told' = Told /\ Coming' = Coming
      BY <3>1 DEF Stream, Told, Coming
    <3>3. \A p : Due(p)' = Due(p) /\ (Unsaid(p)' <=> Unsaid(p))
      BY <3>1, <3>2 DEF Due, Unsaid, EventOf
    <3>4. BoardTypes' /\ RequestsApart' /\ (ToldOnce => ToldOnce')
      BY <1>2, <3>1, <3>2 DEF BoardInv, BoardTypes, RequestsApart, ToldOnce, UnderWay, Changed, EventOf
    <3>5. OneAtATime => OneAtATime'
      BY <3>1, <3>2 DEF OneAtATime, UnderWay, Changed
    <3>6. /\ (InOrder => InOrder') /\ (SeenFirst => SeenFirst') /\ (AnswersTold => AnswersTold')
          /\ (CardsLead => CardsLead') /\ (Following' => Following)
      BY <3>1, <3>2, <3>3 DEF InOrder, SeenFirst, AnswersTold, CardsLead, EventOf, Following
    <3> QED BY <1>2, <3>1, <3>4, <3>5, <3>6 DEF BoardInv
  <2> QED BY <1>2, <2>1, <2>2
<1> QED BY <1>1, <1>2, PTL DEF BoardSpec

\* Type correctness of the board of the kitchen.
THEOREM BoardTypeCorrect == BoardSpec => []BoardTypeOK
<1>1. ASSUME BoardInv PROVE BoardTypeOK
  <2>1. BoardTypes
    BY <1>1 DEF BoardInv
  <2>2. \A r \in Reqs : reqs[r].order \in Orders \cup {NoOrder} /\ reqs[r].to \in Rows
    BY <2>1 DEF BoardTypes, Requests, Idle, Rows
  <2>3. \A q \in {relayQueue, chan} : \A i \in DOMAIN q : q[i] \in Events
    BY <2>1 DEF BoardTypes
  <2>4. \A i \in DOMAIN polls : polls[i] \in [Orders -> Rows \ Final]
    BY <2>1 DEF BoardTypes
  <2>5. {registered, online, overlapped, missed} \subseteq BOOLEAN
    BY <2>1, Zenon DEF BoardTypes
  <2> QED BY <2>1, <2>2, <2>3, <2>4, <2>5 DEF BoardTypes, BoardTypeOK
<1> QED BY <1>1, BoardInvHolds, PTL

\* Between changes the board of a page with its socket shows the orders as they
\* are, whatever copies of the events are still to come.
THEOREM BoardIsTrue == BoardSpec => []BoardTrueWhileHeard
<1>1. ASSUME BoardInv PROVE BoardTrueWhileHeard
  <2> SUFFICES ASSUME online, registered, Quiet, ~overlapped, ~missed, chan = <<>>, Range(relayQueue) \subseteq seen
               PROVE  cards = Open(orders)
    BY DEF BoardTrueWhileHeard
  <2>1. BoardTypes /\ CardsLead
    BY <1>1 DEF BoardInv, Following
  <2>2. \A p \in Orders : ~Unsaid(p) /\ Due(p) = {}
    <3>1. Coming = {}
      <4>1. Range(chan) = {}
        BY DEF Range
      <4> QED BY <2>1, <4>1, StreamFacts DEF Coming
    <3> QED BY <3>1 DEF Due, Unsaid, Quiet, Idle
  <2>3. \A p \in Orders : cards[p] = Open(orders)[p]
    BY <2>1, <2>2 DEF CardsLead
  <2>4. cards \in [Orders -> Rows] /\ DOMAIN Open(orders) = Orders
    BY <2>1 DEF BoardTypes, Open
  <2>5. Open(orders) = [p \in Orders |-> Open(orders)[p]]
    BY DEF Open
  <2>6. cards = [p \in Orders |-> cards[p]]
    BY <2>4
  <2> QED BY <2>3, <2>5, <2>6
<1> QED BY <1>1, BoardInvHolds, PTL
=============================================================================
