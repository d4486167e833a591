------------------------- MODULE TableService_proofs --------------------------
(***************************************************************************)
(* Theorems about TableService, for every number of tables, tabs,          *)
(* requests, links, staff and workers.                                     *)
(***************************************************************************)
EXTENDS TableService, FiniteSetTheorems, TLAPS

USE TablesAreOrdered, NothingAssumption, FiniteAssumption, BoundsAssumption

---------------------------------------------------------------------------
(* how an operation of the staff goes on *)

Holding(s) == staff[s].pc \in InTransaction

\* A transaction begins with the lock of a tab's row, takes the rows of tables
\* one after the other, and gives all up when it ends; outside a transaction
\* nothing is locked.
Progress(s, r) ==
  \/ r = staff[s]
  \/ r.pc \notin InTransaction /\ r.locked = {}
  \/ /\ ~Holding(s) /\ r.pc \in {"lockTables", "countTabs", "revoke"} /\ r.locked = {}
     /\ r.tab \in Tabs /\ ~TabLocked(r.tab) /\ tabs[r.tab].status # "NONE"
  \/ /\ staff[s].pc = "lockTables" /\ r.pc = "lockTables"
     /\ r.tab = staff[s].tab /\ r.to = staff[s].to
     /\ \E t \in NextToLock(s) : ~TableLocked(t, s) /\ r.locked = staff[s].locked \cup {t}
  \/ /\ staff[s].pc = "lockTables" /\ r.pc = "moveTab"
     /\ r.tab = staff[s].tab /\ r.locked = staff[s].locked
  \/ /\ staff[s].pc = "countTabs" /\ r.pc = "closeTab"
     /\ r.tab = staff[s].tab /\ r.locked = staff[s].locked
  \/ /\ staff[s].pc = "revoke" /\ r.pc = "issue"
     /\ r.tab = staff[s].tab /\ r.locked = staff[s].locked
     /\ \A l \in Links : links'[l].live => links'[l].tab # r.tab

\* What is known of the operations under way: the rows of their tabs and tables
\* are locked by them alone, and a link is issued when no other is live.
OperationsOK ==
  /\ \A s \in Staff : Holding(s) => staff[s].tab \in Tabs /\ tabs[staff[s].tab].status # "NONE"
  /\ \A s, u \in Staff : Holding(s) /\ Holding(u) /\ staff[s].tab = staff[u].tab => s = u
  /\ \A s \in Staff : staff[s].locked # {} => staff[s].pc \in {"lockTables", "moveTab"}
  /\ \A s, u \in Staff : s # u => staff[s].locked \cap staff[u].locked = {}
  /\ \A s \in Staff : staff[s].pc \in {"answer", "refuse"} => staff[s].request \in Requests
  /\ \A w \in Workers : worker[w].pc # "idle" => worker[w].request \in Requests

\* A move locks its tables in the order of their ids.
LocksAscend ==
  \A s \in Staff : staff[s].pc = "lockTables" =>
    \A t \in staff[s].locked, u \in RelatedTables(s) \ staff[s].locked : t < u

\* Whoever is about to issue a link has revoked the others of its tab.
IssuesAlone ==
  \A s \in Staff : staff[s].pc = "issue" => \A l \in Links : links[l].live => links[l].tab # staff[s].tab

\* The answers in the queue, in the hands of workers or about to be published
\* are no more than the operations begun.
Answering == {s \in Staff : staff[s].pc \in {"answer", "refuse"}}
Busy == {w \in Workers : worker[w].pc # "idle"}
AnswersBound == Len(queue) + Cardinality(Answering) + Cardinality(Busy) <= ops

TableInv == TypeOK /\ OperationsOK /\ LocksAscend /\ IssuesAlone /\ AnswersBound

\* Waiting for tables is ascending: who waits for a table held by another waits
\* for a smaller one than that other does.
WaitsAscend ==
  \A s, u \in Staff :
    staff[s].pc = "lockTables" /\ staff[u].pc = "lockTables" =>
      \A t \in NextToLock(s) \cap staff[u].locked, v \in NextToLock(u) : t < v

---------------------------------------------------------------------------
(* every operation goes on as Progress says *)

LEMMA IdleType == Idle \in Operation /\ Idle.pc = "idle" /\ Idle.locked = {}
BY DEF Idle, Operation, Place

\* The first statement of an operation.
LEMMA StaffStartsOK ==
  ASSUME TypeOK, NEW s \in Staff, StaffStarts(s)
  PROVE  /\ \E r \in Operation : staff' = [staff EXCEPT ![s] = r] /\ Progress(s, r)
         /\ staff[s] = Idle /\ ops < MaxOps /\ ops' = ops + 1
<1>0. staff \in [Staff -> Operation] /\ tabs \in [Tabs -> TabRow] /\ requests \in [Requests -> RequestRow]
      /\ staff = [staff EXCEPT ![s] = staff[s]]
  BY DEF TypeOK
<1>1. staff[s] = Idle /\ ops < MaxOps /\ ops' = ops + 1
  BY DEF StaffStarts, OpenCheck, MoveBegin, CloseBegin, Reopen, LinkBegin, RemoveCheck,
         SetTableStatus, AnswerRead, Begins
<1>9. ~Holding(s)
  BY <1>1 DEF Idle, Holding, InTransaction
<1>2. ASSUME NEW t \in Place, OpenCheck(s, t)
      PROVE  \E r \in Operation : staff' = [staff EXCEPT ![s] = r] /\ Progress(s, r)
  <2> DEFINE r == [Idle EXCEPT !.pc = "insertTab", !.to = t]
  <2>1. r \in Operation /\ Progress(s, r)
    BY DEF Idle, Operation, Place, Progress, InTransaction
  <2> QED BY <1>2, <2>1 DEF OpenCheck, Goto
<1>3. ASSUME NEW b \in Tabs, NEW t \in Place, MoveBegin(s, b, t)
      PROVE  \E r \in Operation : staff' = [staff EXCEPT ![s] = r] /\ Progress(s, r)
  <2> DEFINE r == [Idle EXCEPT !.pc = "lockTables", !.tab = b, !.to = t]
  <2>1. r \in Operation /\ r.pc = "lockTables" /\ r.tab = b /\ r.locked = {}
    BY DEF Idle, Operation, InTransaction
  <2>2. staff' = [staff EXCEPT ![s] = r] /\ ~TabLocked(b) /\ tabs[b].status # "NONE"
    BY <1>3 DEF MoveBegin, Goto
  <2> HIDE DEF r
  <2>3. Progress(s, r)
    BY <1>9, <2>1, <2>2 DEF Progress
  <2> QED BY <2>1, <2>2, <2>3
<1>4. ASSUME NEW b \in Tabs, CloseBegin(s, b)
      PROVE  \E r \in Operation : staff' = [staff EXCEPT ![s] = r] /\ Progress(s, r)
  <2> DEFINE r == [Idle EXCEPT !.pc = "countTabs", !.tab = b, !.to = tabs[b].table]
  <2>1. r \in Operation /\ r.pc = "countTabs" /\ r.tab = b /\ r.locked = {}
    <3>1. tabs[b].table \in Place
      BY <1>0 DEF TabRow
    <3> QED BY <3>1 DEF Idle, Operation, InTransaction
  <2>2. staff' = [staff EXCEPT ![s] = r] /\ ~TabLocked(b) /\ tabs[b].status # "NONE"
    BY <1>4 DEF CloseBegin, Goto
  <2> HIDE DEF r
  <2>3. Progress(s, r)
    BY <1>9, <2>1, <2>2 DEF Progress
  <2> QED BY <2>1, <2>2, <2>3
<1>5. ASSUME NEW b \in Tabs, LinkBegin(s, b)
      PROVE  \E r \in Operation : staff' = [staff EXCEPT ![s] = r] /\ Progress(s, r)
  <2> DEFINE r == [Idle EXCEPT !.pc = "revoke", !.tab = b]
  <2>1. r \in Operation /\ r.pc = "revoke" /\ r.tab = b /\ r.locked = {}
    BY DEF Idle, Operation, Place, InTransaction
  <2>2. staff' = [staff EXCEPT ![s] = r] /\ ~TabLocked(b) /\ tabs[b].status # "NONE"
    BY <1>5 DEF LinkBegin, Goto
  <2> HIDE DEF r
  <2>3. Progress(s, r)
    BY <1>9, <2>1, <2>2 DEF Progress
  <2> QED BY <2>1, <2>2, <2>3
<1>6. ASSUME NEW t \in Tables, RemoveCheck(s, t)
      PROVE  \E r \in Operation : staff' = [staff EXCEPT ![s] = r] /\ Progress(s, r)
  <2> DEFINE r == [Idle EXCEPT !.pc = "delete", !.to = t]
  <2>1. r \in Operation /\ Progress(s, r)
    BY DEF Idle, Operation, Place, Progress, InTransaction
  <2> QED BY <1>6, <2>1 DEF RemoveCheck, Goto
<1>7. ASSUME NEW q \in Requests, NEW t \in Place, AnswerRead(s, q, t)
      PROVE  \E r \in Operation : staff' = [staff EXCEPT ![s] = r] /\ Progress(s, r)
  <2>1. ASSUME NEW pc \in {"answer", "refuse"}
        PROVE  LET r == [Idle EXCEPT !.pc = pc, !.request = q, !.to = t]
               IN  r \in Operation /\ Progress(s, r)
    BY DEF Idle, Operation, Place, Progress, InTransaction
  <2> QED BY <1>7, <2>1 DEF AnswerRead, Goto
<1>8. ASSUME UNCHANGED staff
      PROVE  \E r \in Operation : staff' = [staff EXCEPT ![s] = r] /\ Progress(s, r)
  BY <1>0, <1>8 DEF Progress
<1> QED
  BY <1>1, <1>2, <1>3, <1>4, <1>5, <1>6, <1>7, <1>8 DEF StaffStarts, Reopen, SetTableStatus

\* The statements after it.
LEMMA StaffContinuesOK ==
  ASSUME TypeOK, OperationsOK, NEW s \in Staff, StaffContinues(s)
  PROVE  /\ \E r \in Operation : staff' = [staff EXCEPT ![s] = r] /\ Progress(s, r)
         /\ staff[s].pc # "idle" /\ ops' = ops
<1>0. /\ staff \in [Staff -> Operation] /\ staff[s] \in Operation /\ tabs \in [Tabs -> TabRow]
      /\ staff[s].locked # {} => staff[s].pc \in {"lockTables", "moveTab"}
  BY DEF TypeOK, OperationsOK
<1>1. staff[s].pc # "idle" /\ ops' = ops
  BY DEF StaffContinues, OpenInsert, OpenOccupy, MoveLock, MoveLocked, MoveCommit, CloseCount,
         CloseCommit, LinkRevoke, LinkIssue, RemoveDelete, AnswerPublish
<1>2. ASSUME staff' = [staff EXCEPT ![s] = Idle]
      PROVE  \E r \in Operation : staff' = [staff EXCEPT ![s] = r] /\ Progress(s, r)
  BY <1>2, IdleType DEF Progress, InTransaction
<1>a. ASSUME NEW pc \in InTransaction \cup {"occupy"}
      PROVE  LET r == [staff[s] EXCEPT !.pc = pc]
             IN  /\ r \in Operation /\ r.pc = pc /\ r.tab = staff[s].tab /\ r.to = staff[s].to
                 /\ r.locked = staff[s].locked
  BY <1>0 DEF Operation
<1>3. ASSUME NEW b \in Tabs, OpenInsert(s, b)
      PROVE  \E r \in Operation : staff' = [staff EXCEPT ![s] = r] /\ Progress(s, r)
  <2> DEFINE r == [staff[s] EXCEPT !.pc = "occupy"]
  <2>1. CASE staff' = [staff EXCEPT ![s] = r]
    <3>1. staff[s].locked = {}
      BY <1>0, <1>3 DEF OpenInsert
    <3>2. r \in Operation /\ r.pc = "occupy" /\ r.locked = {}
      BY <1>a, <3>1
    <3> HIDE DEF r
    <3> QED BY <2>1, <3>2 DEF Progress, InTransaction
  <2> QED BY <1>1, <1>2, <1>3, <2>1 DEF OpenInsert, Goto
<1>4. CASE MoveLock(s)
  <2>1. PICK t \in NextToLock(s) : /\ ~TableLocked(t, s) /\ staff[s].pc = "lockTables"
                                   /\ staff' = [staff EXCEPT ![s] = [staff[s] EXCEPT !.locked = @ \cup {t}]]
    BY <1>4 DEF MoveLock, Goto
  <2> DEFINE r == [staff[s] EXCEPT !.locked = staff[s].locked \cup {t}]
  <2>2. t \in Tables
    <3>1. staff[s].tab \in Tabs
      BY <2>1 DEF OperationsOK, Holding, InTransaction
    <3> QED BY <1>0, <3>1 DEF NextToLock, RelatedTables, Operation, TabRow, Place
  <2>3. /\ r \in Operation /\ r.pc = staff[s].pc /\ r.tab = staff[s].tab /\ r.to = staff[s].to
        /\ r.locked = staff[s].locked \cup {t}
    BY <1>0, <2>2 DEF Operation
  <2>4. staff' = [staff EXCEPT ![s] = r]
    BY <2>1
  <2> HIDE DEF r
  <2> QED BY <1>1, <2>1, <2>3, <2>4 DEF Progress
<1>5. CASE MoveLocked(s)
  <2> DEFINE r == [staff[s] EXCEPT !.pc = "moveTab"]
  <2>1. CASE staff' = [staff EXCEPT ![s] = r]
    <3>1. /\ r \in Operation /\ r.pc = "moveTab" /\ r.tab = staff[s].tab /\ r.locked = staff[s].locked
          /\ staff[s].pc = "lockTables"
      BY <1>a, <1>5 DEF InTransaction, MoveLocked
    <3> HIDE DEF r
    <3> QED BY <1>1, <2>1, <3>1 DEF Progress
  <2> QED BY <1>1, <1>2, <1>5, <2>1 DEF MoveLocked, Goto
<1>6. CASE CloseCount(s)
  <2> DEFINE n == Cardinality(OpenTabsAt(staff[s].to) \ {staff[s].tab})
             r == [staff[s] EXCEPT !.pc = "closeTab", !.count = n]
  <2>1. n \in Nat
    <3>1. IsFiniteSet(OpenTabsAt(staff[s].to) \ {staff[s].tab})
      BY FS_Subset DEF OpenTabsAt
    <3> QED BY <3>1, FS_CardinalityType
  <2> HIDE DEF n
  <2>2. r \in Operation /\ r.pc = "closeTab" /\ r.tab = staff[s].tab /\ r.locked = staff[s].locked
    BY <1>0, <2>1 DEF Operation, InTransaction
  <2>3. staff' = [staff EXCEPT ![s] = r] /\ staff[s].pc = "countTabs"
    BY <1>6 DEF CloseCount, Goto, n
  <2> HIDE DEF r
  <2> QED BY <1>1, <2>2, <2>3 DEF Progress
<1>7. CASE LinkRevoke(s)
  <2> DEFINE r == [staff[s] EXCEPT !.pc = "issue"]
  <2>1. /\ r \in Operation /\ r.pc = "issue" /\ r.tab = staff[s].tab /\ r.locked = staff[s].locked
    BY <1>a DEF InTransaction
  <2>2. \A l \in Links : links'[l].live => links'[l].tab # staff[s].tab
    <3>1. links' = [l \in Links |-> IF links[l].tab = staff[s].tab
                                   THEN [links[l] EXCEPT !.live = FALSE] ELSE links[l]]
      BY <1>7 DEF LinkRevoke
    <3>2. \A l \in Links : links[l] \in [tab: Tabs \cup {NoTab}, live: BOOLEAN]
      BY DEF TypeOK
    <3>3. ASSUME NEW l \in Links, links'[l].live PROVE links'[l].tab # staff[s].tab
      <4>1. CASE links[l].tab = staff[s].tab
        <5>1. links'[l] = [links[l] EXCEPT !.live = FALSE]
          BY <3>1, <4>1
        <5>2. links'[l].live = FALSE
          BY <3>2, <5>1
        <5> QED BY <3>3, <5>2
      <4>2. CASE links[l].tab # staff[s].tab
        BY <3>1, <4>2
      <4> QED BY <4>1, <4>2
    <3> QED BY <3>3
  <2>3. staff' = [staff EXCEPT ![s] = r] /\ staff[s].pc = "revoke"
    BY <1>7 DEF LinkRevoke, Goto
  <2> HIDE DEF r
  <2> QED BY <1>1, <2>1, <2>2, <2>3 DEF Progress
<1> QED
  BY <1>1, <1>2, <1>3, <1>4, <1>5, <1>6, <1>7
     DEF StaffContinues, Goto, OpenOccupy, MoveCommit, CloseCommit, LinkIssue, RemoveDelete, AnswerPublish

\* In a step of the system at most one operation moves.
LEMMA OneMoves ==
  ASSUME TypeOK, OperationsOK, [Next]_vars
  PROVE  \/ UNCHANGED staff
         \/ \E s \in Staff, r \in Operation : staff' = [staff EXCEPT ![s] = r] /\ Progress(s, r)
<1>1. ASSUME NEW s \in Staff, StaffStarts(s) \/ StaffContinues(s)
      PROVE  \E r \in Operation : staff' = [staff EXCEPT ![s] = r] /\ Progress(s, r)
  BY <1>1, StaffStartsOK, StaffContinuesOK
<1>2. ASSUME NEW w \in Workers, Works(w) \/ Crash(w) PROVE UNCHANGED staff
  BY <1>2 DEF Works, Take, Approve, Seat, OpenForRequest, Reject, Crash
<1> QED BY <1>1, <1>2 DEF Next, vars

---------------------------------------------------------------------------
(* what becomes of the rows of tabs, tables and links *)

\* A tab never stops existing.
LEMMA TabsKept ==
  ASSUME TypeOK, [Next]_vars, NEW b \in Tabs, tabs[b].status # "NONE"
  PROVE  /\ tabs'[b].status # "NONE" /\ tabs'[b].source = tabs[b].source
         /\ tabs'[b].table # tabs[b].table =>
              \E s \in Staff : staff[s].pc = "moveTab" /\ staff[s].tab = b /\ staff'[s] = Idle
<1>0. tabs \in [Tabs -> TabRow] /\ tabs[b] \in TabRow /\ staff \in [Staff -> Operation]
  BY DEF TypeOK
<1>1. ASSUME NEW c, NEW t, NEW q, tabs[c].status = "NONE", tabs' = NewTab(c, t, q)
      PROVE  tabs'[b] = tabs[b]
  BY <1>0, <1>1 DEF NewTab
<1>2. ASSUME NEW s \in Staff, MoveCommit(s)
      PROVE  /\ tabs'[b].status = tabs[b].status /\ tabs'[b].source = tabs[b].source
             /\ tabs'[b].table # tabs[b].table =>
                  staff[s].pc = "moveTab" /\ staff[s].tab = b /\ staff'[s] = Idle
  BY <1>0, <1>2 DEF MoveCommit, TabRow, Goto
<1>3. ASSUME NEW c, NEW status \in {"OPEN", "CLOSED"}, tabs' = [tabs EXCEPT ![c].status = status]
      PROVE  tabs'[b].status # "NONE" /\ tabs'[b].source = tabs[b].source /\ tabs'[b].table = tabs[b].table
  BY <1>0, <1>3 DEF TabRow
<1>4. ASSUME UNCHANGED tabs
      PROVE  tabs'[b].status # "NONE" /\ tabs'[b].source = tabs[b].source /\ tabs'[b].table = tabs[b].table
  BY <1>4
<1>5. ASSUME NEW s \in Staff, StaffStarts(s)
      PROVE  tabs'[b].status # "NONE" /\ tabs'[b].source = tabs[b].source /\ tabs'[b].table = tabs[b].table
  BY <1>3, <1>4, <1>5 DEF StaffStarts, OpenCheck, MoveBegin, CloseBegin, Reopen, LinkBegin,
                          RemoveCheck, SetTableStatus, AnswerRead
<1>6. ASSUME NEW s \in Staff, StaffContinues(s), ~MoveCommit(s)
      PROVE  tabs'[b].status # "NONE" /\ tabs'[b].source = tabs[b].source /\ tabs'[b].table = tabs[b].table
  BY <1>1, <1>3, <1>4, <1>6 DEF StaffContinues, OpenInsert, OpenOccupy, MoveLock, MoveLocked,
                          CloseCount, CloseCommit, LinkRevoke, LinkIssue, RemoveDelete, AnswerPublish
<1>7. ASSUME NEW w \in Workers, Works(w) \/ Crash(w)
      PROVE  tabs'[b].status # "NONE" /\ tabs'[b].source = tabs[b].source /\ tabs'[b].table = tabs[b].table
  BY <1>1, <1>4, <1>7 DEF Works, Take, Approve, Seat, OpenForRequest, Reject, Crash
<1> QED BY <1>2, <1>4, <1>5, <1>6, <1>7 DEF Next, vars

\* A deleted table does not come back.
LEMMA GoneKept ==
  ASSUME TypeOK, [Next]_vars, NEW t \in Tables, tables[t] = "GONE"
  PROVE  tables'[t] = "GONE"
<1>0. tables \in [Tables -> {"AVAILABLE", "OCCUPIED", "GONE"}]
  BY DEF TypeOK
<1>1. ASSUME NEW where \in [Tables -> {"AVAILABLE", "OCCUPIED", "GONE"}], NEW u, NEW status,
             where[t] = "GONE"
      PROVE  WithStatus(where, u, status)[t] = "GONE"
  BY <1>1 DEF WithStatus
<1>2. ASSUME NEW s \in Staff, MoveCommit(s) PROVE tables'[t] = "GONE"
  <2>1. WithStatus(tables, staff[s].to, "OCCUPIED") \in [Tables -> {"AVAILABLE", "OCCUPIED", "GONE"}]
    BY <1>0 DEF WithStatus
  <2> QED BY <1>0, <1>1, <1>2, <2>1 DEF MoveCommit
<1>3. ASSUME NEW s \in Staff, StaffStarts(s) PROVE tables'[t] = "GONE"
  <2>1. ASSUME NEW b \in Tabs, Reopen(s, b) PROVE tables'[t] = "GONE"
    BY <1>0, <1>1, <2>1 DEF Reopen
  <2>2. ASSUME NEW u \in Tables, NEW status, SetTableStatus(s, u, status) PROVE tables'[t] = "GONE"
    BY <1>0, <2>2 DEF SetTableStatus
  <2>3. CASE UNCHANGED tables
    BY <2>3
  <2> QED BY <1>3, <2>1, <2>2, <2>3
          DEF StaffStarts, OpenCheck, MoveBegin, CloseBegin, LinkBegin, RemoveCheck, AnswerRead
<1>4. ASSUME NEW s \in Staff, StaffContinues(s) PROVE tables'[t] = "GONE"
  <2>1. CASE CloseCommit(s) \/ OpenOccupy(s)
    BY <1>0, <1>1, <2>1 DEF CloseCommit, OpenOccupy
  <2>2. CASE RemoveDelete(s)
    BY <1>0, <2>2 DEF RemoveDelete
  <2>3. CASE UNCHANGED tables
    BY <2>3
  <2> QED BY <1>2, <1>4, <2>1, <2>2, <2>3
          DEF StaffContinues, OpenInsert, MoveLock, MoveLocked, CloseCount, LinkRevoke, LinkIssue,
              AnswerPublish
<1>5. ASSUME NEW w \in Workers, Works(w) \/ Crash(w) PROVE tables'[t] = "GONE"
  BY <1>0, <1>1, <1>5 DEF Works, Take, Approve, Seat, OpenForRequest, Reject, Crash
<1> QED BY <1>3, <1>4, <1>5 DEF Next, vars

\* A link becomes live only when it is issued.
LEMMA LinksKept ==
  ASSUME TypeOK, [Next]_vars
  PROVE  \/ \A l \in Links : links'[l].live => links[l].live /\ links'[l].tab = links[l].tab
         \/ \E s \in Staff, l \in Links :
              /\ staff[s].pc = "issue" /\ staff' = [staff EXCEPT ![s] = Idle]
              /\ links' = [links EXCEPT ![l] = [tab |-> staff[s].tab, live |-> TRUE]]
<1>0. \A l \in Links : links[l] \in [tab: Tabs \cup {NoTab}, live: BOOLEAN]
  BY DEF TypeOK
<1>1. ASSUME NEW b, links' = [l \in Links |-> IF links[l].tab = b THEN [links[l] EXCEPT !.live = FALSE]
                                              ELSE links[l]]
      PROVE  \A l \in Links : links'[l].live => links[l].live /\ links'[l].tab = links[l].tab
  <2> SUFFICES ASSUME NEW l \in Links, links'[l].live
               PROVE  links[l].live /\ links'[l].tab = links[l].tab
    OBVIOUS
  <2>1. ASSUME NEW r \in [tab: Tabs \cup {NoTab}, live: BOOLEAN]
        PROVE  [r EXCEPT !.live = FALSE].live = FALSE
    OBVIOUS
  <2>2. CASE links[l].tab = b
    <3>1. links'[l] = [links[l] EXCEPT !.live = FALSE]
      BY <1>1, <2>2
    <3>2. links'[l].live = FALSE
      BY <1>0, <2>1, <3>1
    <3> QED BY <3>2
  <2>3. CASE links[l].tab # b
    BY <1>1, <2>3
  <2> QED BY <2>2, <2>3
<1>2. ASSUME NEW s \in Staff, StaffStarts(s) PROVE UNCHANGED links
  BY <1>2 DEF StaffStarts, OpenCheck, MoveBegin, CloseBegin, Reopen, LinkBegin, RemoveCheck,
              SetTableStatus, AnswerRead
<1>3. ASSUME NEW s \in Staff, CloseCommit(s) \/ LinkRevoke(s)
      PROVE  \E b : links' = [l \in Links |-> IF links[l].tab = b THEN [links[l] EXCEPT !.live = FALSE]
                                              ELSE links[l]]
  BY <1>3 DEF CloseCommit, LinkRevoke
<1>4. ASSUME NEW s \in Staff, StaffContinues(s), ~(CloseCommit(s) \/ LinkRevoke(s))
      PROVE  UNCHANGED links \/ \E l \in Links : LinkIssue(s, l)
  BY <1>4 DEF StaffContinues, OpenInsert, OpenOccupy, MoveLock, MoveLocked, MoveCommit, CloseCount,
              RemoveDelete, AnswerPublish
<1>5. ASSUME NEW w \in Workers, Works(w) \/ Crash(w) PROVE UNCHANGED links
  BY <1>5 DEF Works, Take, Approve, Seat, OpenForRequest, Reject, Crash
<1>6. UNCHANGED links => \A l \in Links : links'[l].live => links[l].live /\ links'[l].tab = links[l].tab
  OBVIOUS
<1>7. ASSUME NEW s \in Staff, StaffContinues(s)
      PROVE  \/ \A l \in Links : links'[l].live => links[l].live /\ links'[l].tab = links[l].tab
             \/ \E l \in Links : LinkIssue(s, l)
  BY <1>1, <1>3, <1>4, <1>6, <1>7
<1>8. ASSUME NEW s \in Staff, NEW l \in Links, LinkIssue(s, l)
      PROVE  /\ staff[s].pc = "issue" /\ staff' = [staff EXCEPT ![s] = Idle]
             /\ links' = [links EXCEPT ![l] = [tab |-> staff[s].tab, live |-> TRUE]]
  BY <1>8 DEF LinkIssue, Goto
<1>9. UNCHANGED links \/ \E s \in Staff : StaffContinues(s)
  BY <1>2, <1>5 DEF Next, vars
<1> QED BY <1>6, <1>7, <1>8, <1>9

---------------------------------------------------------------------------
(* the invariant is inductive *)

\* A worker at work has its request.
LEMMA WorkersStep ==
  ASSUME TypeOK, OperationsOK, [Next]_vars, NEW w \in Workers, worker'[w].pc # "idle"
  PROVE  worker'[w].request \in Requests
<1>0. /\ worker \in [Workers -> Work] /\ queue \in Seq(Answer)
      /\ worker[w].pc # "idle" => worker[w].request \in Requests
  BY DEF TypeOK, OperationsOK
<1>1. ASSUME NEW v \in Workers, Take(v) PROVE worker'[w].request \in Requests
  <2>1. Head(queue) \in Answer
    BY <1>0, <1>1 DEF Take
  <2>2. worker' \in {[worker EXCEPT ![v] = IdleWorker],
                     [worker EXCEPT ![v] = [pc |-> IF Head(queue).action = "APPROVE" THEN "approve" ELSE "reject",
                          request |-> Head(queue).request, action |-> Head(queue).action,
                          seen |-> requests[Head(queue).request].table]]}
    BY <1>1 DEF Take, Advance
  <2>3. CASE v = w
    <3>1. worker'[w] # IdleWorker
      BY DEF IdleWorker
    <3> QED BY <1>0, <2>1, <2>2, <2>3, <3>1 DEF Answer
  <2>4. CASE v # w
    BY <1>0, <2>2, <2>4
  <2> QED BY <2>3, <2>4
<1>2. ASSUME NEW v \in Workers, NEW pc, pc # "idle", worker[v].pc # "idle",
             worker' = [worker EXCEPT ![v] = [worker[v] EXCEPT !.pc = pc]]
      PROVE  worker'[w].request \in Requests
  <2>1. CASE v = w
    <3>1. worker'[w] = [worker[w] EXCEPT !.pc = pc]
      BY <1>0, <1>2, <2>1
    <3> QED BY <1>0, <1>2, <2>1, <3>1 DEF Work
  <2>2. CASE v # w
    BY <1>0, <1>2, <2>2
  <2> QED BY <2>1, <2>2
<1>3. ASSUME NEW v \in Workers, worker' = [worker EXCEPT ![v] = IdleWorker]
      PROVE  worker'[w].request \in Requests
  BY <1>0, <1>3 DEF IdleWorker
<1>4. ASSUME NEW v \in Workers, Works(v) \/ Crash(v), ~Take(v) PROVE worker'[w].request \in Requests
  BY <1>2, <1>3, <1>4 DEF Works, Approve, Seat, OpenForRequest, Reject, Crash, Advance
<1>5. ASSUME UNCHANGED worker PROVE worker'[w].request \in Requests
  BY <1>0, <1>5
<1>6. ASSUME NEW s \in Staff, StaffStarts(s) \/ StaffContinues(s) PROVE UNCHANGED worker
  BY <1>6 DEF StaffStarts, OpenCheck, MoveBegin, CloseBegin, Reopen, LinkBegin, RemoveCheck,
              SetTableStatus, AnswerRead, StaffContinues, OpenInsert, OpenOccupy, MoveLock, MoveLocked,
              MoveCommit, CloseCount, CloseCommit, LinkRevoke, LinkIssue, RemoveDelete, AnswerPublish
<1> QED BY <1>1, <1>4, <1>5, <1>6 DEF Next, vars

\* Only who looks at a request begins to answer one.
LEMMA AnswersKept ==
  ASSUME TypeOK, [Next]_vars, NEW s \in Staff, staff'[s].pc \in {"answer", "refuse"}
  PROVE  \/ staff'[s] = staff[s]
         \/ \E q \in Requests, t \in Place : AnswerRead(s, q, t)
<1> DEFINE Goal == staff'[s] = staff[s] \/ \E q \in Requests, t \in Place : AnswerRead(s, q, t)
<1>0. staff \in [Staff -> Operation] /\ Idle.pc = "idle"
  BY IdleType DEF TypeOK
<1>1. ASSUME staff'[s] = staff[s] PROVE Goal
  BY <1>1
<1>2. ASSUME NEW u \in Staff, NEW q \in Requests, NEW t \in Place, AnswerRead(u, q, t)
      PROVE  Goal
  <2>1. CASE u = s
    BY <1>2, <2>1
  <2>2. CASE u # s
    BY <1>0, <1>1, <1>2, <2>2 DEF AnswerRead, Goto
  <2> QED BY <2>1, <2>2
<1>3. ASSUME NEW u \in Staff, NEW r, r.pc \notin {"answer", "refuse"}, staff' = [staff EXCEPT ![u] = r]
      PROVE  Goal
  BY <1>0, <1>1, <1>3
<1>4. ASSUME NEW u \in Staff, StaffStarts(u)
      PROVE  Goal
  <2>1. ASSUME NEW t \in Place, OpenCheck(u, t) PROVE Goal
    BY <1>3, <2>1 DEF OpenCheck, Goto, Idle
  <2>2. ASSUME NEW b \in Tabs, NEW t \in Place, MoveBegin(u, b, t) PROVE Goal
    BY <1>3, <2>2 DEF MoveBegin, Goto, Idle
  <2>3. ASSUME NEW b \in Tabs, CloseBegin(u, b) \/ LinkBegin(u, b) PROVE Goal
    BY <1>3, <2>3 DEF CloseBegin, LinkBegin, Goto, Idle
  <2>4. ASSUME NEW t \in Tables, RemoveCheck(u, t) PROVE Goal
    BY <1>3, <2>4 DEF RemoveCheck, Goto, Idle
  <2>5. ASSUME UNCHANGED staff PROVE Goal
    BY <1>1, <2>5
  <2> QED BY <1>2, <1>4, <2>1, <2>2, <2>3, <2>4, <2>5 DEF StaffStarts, Reopen, SetTableStatus
<1>5. ASSUME NEW u \in Staff, StaffContinues(u) PROVE Goal
  <2>1. ASSUME NEW pc, pc \notin {"answer", "refuse"}
        PROVE  [staff[u] EXCEPT !.pc = pc].pc \notin {"answer", "refuse"}
    BY <1>0, <2>1 DEF Operation
  <2>2. CASE staff' = [staff EXCEPT ![u] = Idle]
    BY <1>0, <1>3, <2>2
  <2>3. ASSUME NEW pc, pc \notin {"answer", "refuse"},
               staff' = [staff EXCEPT ![u] = [staff[u] EXCEPT !.pc = pc]]
        PROVE  Goal
    BY <1>3, <2>1, <2>3
  <2>4. CASE MoveLock(u)
    <3>1. PICK t : staff' = [staff EXCEPT ![u] = [staff[u] EXCEPT !.locked = @ \cup {t}]]
      BY <2>4 DEF MoveLock, Goto
    <3>2. [staff[u] EXCEPT !.locked = staff[u].locked \cup {t}].pc = "lockTables"
      BY <1>0, <2>4 DEF MoveLock, Operation
    <3> QED BY <1>3, <3>1, <3>2
  <2>5. CASE CloseCount(u)
    <3>1. PICK n : staff' = [staff EXCEPT ![u] = [staff[u] EXCEPT !.pc = "closeTab", !.count = n]]
      BY <2>5 DEF CloseCount, Goto
    <3>2. [staff[u] EXCEPT !.pc = "closeTab", !.count = n].pc = "closeTab"
      BY <1>0 DEF Operation
    <3> QED BY <1>3, <3>1, <3>2
  <2>6. ASSUME NEW b \in Tabs, OpenInsert(u, b)
        PROVE  staff' = [staff EXCEPT ![u] = Idle] \/ staff' = [staff EXCEPT ![u] = [staff[u] EXCEPT !.pc = "occupy"]]
    BY <2>6 DEF OpenInsert, Goto
  <2>7. CASE MoveLocked(u) \/ LinkRevoke(u)
    <3>1. \/ staff' = [staff EXCEPT ![u] = Idle]
          \/ staff' = [staff EXCEPT ![u] = [staff[u] EXCEPT !.pc = "moveTab"]]
          \/ staff' = [staff EXCEPT ![u] = [staff[u] EXCEPT !.pc = "issue"]]
      BY <2>7 DEF MoveLocked, LinkRevoke, Goto
    <3> QED BY <2>2, <2>3, <3>1
  <2>8. ASSUME NEW l \in Links, LinkIssue(u, l) PROVE staff' = [staff EXCEPT ![u] = Idle]
    BY <2>8 DEF LinkIssue, Goto
  <2>9. ASSUME OpenOccupy(u) \/ MoveCommit(u) \/ CloseCommit(u) \/ RemoveDelete(u) \/ AnswerPublish(u)
        PROVE  staff' = [staff EXCEPT ![u] = Idle]
    BY <2>9 DEF OpenOccupy, MoveCommit, CloseCommit, RemoveDelete, AnswerPublish, Goto
  <2> QED BY <1>5, <2>2, <2>3, <2>4, <2>5, <2>6, <2>7, <2>8, <2>9 DEF StaffContinues
<1>6. ASSUME NEW w \in Workers, Works(w) \/ Crash(w) PROVE UNCHANGED staff
  BY <1>6 DEF Works, Take, Approve, Seat, OpenForRequest, Reject, Crash
<1> QED BY <1>1, <1>4, <1>5, <1>6 DEF Next, vars


\* Who answers a request has one.
LEMMA AnswersStep ==
  ASSUME TypeOK, OperationsOK, [Next]_vars, NEW s \in Staff, staff'[s].pc \in {"answer", "refuse"}
  PROVE  staff'[s].request \in Requests
<1>1. CASE staff'[s] = staff[s]
  BY <1>1 DEF OperationsOK
<1>2. ASSUME NEW q \in Requests, NEW t \in Place, AnswerRead(s, q, t)
      PROVE  staff'[s].request \in Requests
  <2>1. PICK pc : staff' = [staff EXCEPT ![s] = [Idle EXCEPT !.pc = pc, !.request = q, !.to = t]]
    BY <1>2 DEF AnswerRead, Goto
  <2>2. [Idle EXCEPT !.pc = pc, !.request = q, !.to = t].request = q
    BY DEF Idle
  <2>3. staff \in [Staff -> Operation]
    BY DEF TypeOK
  <2> QED BY <2>1, <2>2, <2>3
<1> QED BY <1>1, <1>2, AnswersKept

\* Operations keep the rows of their tabs and tables to themselves.
LEMMA OperationsStep ==
  ASSUME TypeOK, OperationsOK, [Next]_vars
  PROVE  OperationsOK'
<1>0. staff \in [Staff -> Operation]
  BY DEF TypeOK
<1>1. CASE UNCHANGED staff
  BY <1>0, <1>1, TabsKept, WorkersStep, AnswersStep DEF OperationsOK, Holding
<1>2. ASSUME NEW s \in Staff, NEW r \in Operation, staff' = [staff EXCEPT ![s] = r], Progress(s, r)
      PROVE  OperationsOK'
  <2>1. staff'[s] = r /\ \A u \in Staff : u # s => staff'[u] = staff[u]
    BY <1>0, <1>2
  <2>2. r.pc \in InTransaction =>
          /\ r.tab \in Tabs /\ tabs[r.tab].status # "NONE"
          /\ \A u \in Staff : u # s /\ Holding(u) => staff[u].tab # r.tab
    BY <1>2 DEF Progress, OperationsOK, Holding, TabLocked, InTransaction
  <2>3. r.locked # {} => r.pc \in {"lockTables", "moveTab"}
    BY <1>2 DEF Progress, OperationsOK, InTransaction
  <2>4. \A u \in Staff : u # s => staff[u].locked \cap r.locked = {}
    BY <1>2 DEF Progress, OperationsOK, TableLocked
  <2>5. \A u \in Staff : Holding(u)' => staff'[u].tab \in Tabs /\ tabs'[staff'[u].tab].status # "NONE"
    BY <2>1, <2>2, TabsKept DEF OperationsOK, Holding
  <2>6. \A u, v \in Staff : Holding(u)' /\ Holding(v)' /\ staff'[u].tab = staff'[v].tab => u = v
    BY <2>1, <2>2 DEF OperationsOK, Holding
  <2>7. \A u \in Staff : staff'[u].locked # {} => staff'[u].pc \in {"lockTables", "moveTab"}
    BY <2>1, <2>3 DEF OperationsOK
  <2>8. \A u, v \in Staff : u # v => staff'[u].locked \cap staff'[v].locked = {}
    BY <2>1, <2>4 DEF OperationsOK
  <2> QED BY <2>5, <2>6, <2>7, <2>8, WorkersStep, AnswersStep DEF OperationsOK, Holding
<1> QED BY <1>1, <1>2, OneMoves

\* Rows of tables are locked in the order of their ids, although other
\* operations delete tables meanwhile.
LEMMA AscendStep ==
  ASSUME TypeOK, OperationsOK, LocksAscend, [Next]_vars
  PROVE  LocksAscend'
<1>0. staff \in [Staff -> Operation] /\ tabs \in [Tabs -> TabRow] /\ Idle.pc = "idle"
  BY IdleType DEF TypeOK
\* The tables a move is to lock become no more.
<1>1. ASSUME NEW s \in Staff, staff[s].pc = "lockTables", staff'[s].pc = "lockTables",
             staff'[s].tab = staff[s].tab, staff'[s].to = staff[s].to
      PROVE  RelatedTables(s)' \subseteq RelatedTables(s)
  <2>1. staff[s].tab \in Tabs /\ tabs[staff[s].tab].status # "NONE"
    BY <1>1 DEF OperationsOK, Holding, InTransaction
  <2>2. tabs'[staff[s].tab].table = tabs[staff[s].tab].table
    <3>1. SUFFICES ASSUME NEW u \in Staff, staff[u].pc = "moveTab", staff[u].tab = staff[s].tab
                   PROVE  FALSE
      BY <2>1, TabsKept
    <3> QED BY <1>1, <3>1 DEF OperationsOK, Holding, InTransaction
  <2>3. \A t \in {tabs[staff[s].tab].table, staff[s].to} \ {NoTable} : t \in Tables
    BY <1>0, <2>1 DEF TabRow, Operation, Place
  <2> QED BY <1>1, <2>2, <2>3, GoneKept DEF RelatedTables
<1>2. SUFFICES ASSUME NEW s \in Staff, staff'[s].pc = "lockTables",
                      NEW t \in staff'[s].locked, NEW u \in RelatedTables(s)' \ staff'[s].locked
               PROVE  t < u
  BY DEF LocksAscend
<1>3. CASE staff'[s] = staff[s]
  BY <1>1, <1>2, <1>3 DEF LocksAscend
<1>4. ASSUME NEW r \in Operation, staff'[s] = r, Progress(s, r)
      PROVE  t < u
  <2>1. CASE r.locked = {}
    BY <1>2, <1>4, <2>1
  <2>2. CASE \E v \in NextToLock(s) : r.locked = staff[s].locked \cup {v} /\ r.tab = staff[s].tab
                                      /\ r.to = staff[s].to /\ staff[s].pc = "lockTables"
    <3>1. PICK v \in NextToLock(s) : r.locked = staff[s].locked \cup {v}
      BY <2>2
    <3>2. u \in RelatedTables(s) \ staff[s].locked /\ u # v
      BY <1>1, <1>2, <1>4, <2>2, <3>1
    <3>3. v <= u /\ v \in Tables /\ u \in Tables
      <4>1. staff[s].tab \in Tabs
        BY <2>2 DEF OperationsOK, Holding, InTransaction
      <4> QED BY <1>0, <3>1, <3>2, <4>1 DEF NextToLock, RelatedTables, TabRow, Operation, Place
    <3>4. t = v \/ t \in staff[s].locked
      BY <1>2, <1>4, <3>1
    <3>5. t \in staff[s].locked => t < u
      BY <2>2, <3>2 DEF LocksAscend
    <3> QED BY <3>2, <3>3, <3>4, <3>5
  <2> QED BY <1>2, <1>3, <1>4, <2>1, <2>2 DEF Progress
<1>5. staff'[s] = staff[s] \/ \E r \in Operation : staff'[s] = r /\ Progress(s, r)
  BY <1>0, OneMoves
<1> QED BY <1>3, <1>4, <1>5

\* The links of a tab are revoked and issued by one operation at a time.
LEMMA IssueStep ==
  ASSUME TypeOK, OperationsOK, IssuesAlone, [Next]_vars
  PROVE  IssuesAlone'
<1>0. staff \in [Staff -> Operation] /\ Idle.pc = "idle" /\ links \in [Links -> [tab: Tabs \cup {NoTab}, live: BOOLEAN]]
  BY IdleType DEF TypeOK
<1>1. SUFFICES ASSUME NEW s \in Staff, staff'[s].pc = "issue", NEW l \in Links, links'[l].live
               PROVE  links'[l].tab # staff'[s].tab
  BY DEF IssuesAlone
<1>2. CASE staff'[s] = staff[s]
  <2>1. CASE links[l].live /\ links'[l].tab = links[l].tab
    BY <1>1, <1>2, <2>1 DEF IssuesAlone
  <2>2. ASSUME NEW u \in Staff, NEW k \in Links, staff[u].pc = "issue", staff' = [staff EXCEPT ![u] = Idle],
               links' = [links EXCEPT ![k] = [tab |-> staff[u].tab, live |-> TRUE]]
        PROVE  links'[l].tab # staff'[s].tab
    <3>1. u # s
      BY <1>0, <1>1, <2>2
    <3>2. staff[u].tab # staff[s].tab
      BY <1>1, <1>2, <2>2, <3>1 DEF OperationsOK, Holding, InTransaction
    <3>3. CASE k = l
      BY <1>0, <1>2, <2>2, <3>2, <3>3
    <3>4. CASE k # l
      BY <1>0, <1>1, <1>2, <2>2, <3>4 DEF IssuesAlone
    <3> QED BY <3>3, <3>4
  <2> QED BY <1>1, <2>1, <2>2, LinksKept
<1>3. ASSUME NEW r \in Operation, staff'[s] = r, Progress(s, r) PROVE links'[l].tab # staff'[s].tab
  BY <1>1, <1>2, <1>3 DEF Progress, InTransaction
<1>4. staff'[s] = staff[s] \/ \E r \in Operation : staff'[s] = r /\ Progress(s, r)
  BY <1>0, OneMoves
<1> QED BY <1>2, <1>3, <1>4

\* Only a worker that takes a message becomes busy.
LEMMA BusyKept ==
  ASSUME TypeOK, [Next]_vars, NEW w \in Workers, worker'[w].pc # "idle", ~Take(w)
  PROVE  worker[w].pc # "idle"
<1>0. worker \in [Workers -> Work]
  BY DEF TypeOK
<1>1. ASSUME NEW v \in Workers, Works(v) \/ Crash(v) PROVE worker[w].pc # "idle"
  <2>1. CASE v = w
    BY <1>1, <2>1 DEF Works, Approve, Seat, OpenForRequest, Reject, Crash
  <2>2. CASE v # w
    BY <1>0, <1>1, <2>2 DEF Works, Take, Approve, Seat, OpenForRequest, Reject, Crash, Advance
  <2> QED BY <2>1, <2>2
<1>2. ASSUME NEW s \in Staff, StaffStarts(s) \/ StaffContinues(s) PROVE UNCHANGED worker
  BY <1>2 DEF StaffStarts, OpenCheck, MoveBegin, CloseBegin, Reopen, LinkBegin, RemoveCheck,
              SetTableStatus, AnswerRead, StaffContinues, OpenInsert, OpenOccupy, MoveLock, MoveLocked,
              MoveCommit, CloseCount, CloseCommit, LinkRevoke, LinkIssue, RemoveDelete, AnswerPublish
<1>3. ASSUME UNCHANGED worker PROVE worker[w].pc # "idle"
  BY <1>3
<1> QED BY <1>1, <1>2, <1>3 DEF Next, vars

\* The queue changes only when an answer is published or taken, or a dead worker
\* gives one back.
LEMMA QueueKept ==
  ASSUME [Next]_vars
  PROVE  \/ UNCHANGED queue
         \/ \E s \in Staff : AnswerPublish(s)
         \/ \E w \in Workers : Take(w) \/ Crash(w)
<1>1. ASSUME NEW s \in Staff, StaffStarts(s) \/ StaffContinues(s)
      PROVE  UNCHANGED queue \/ AnswerPublish(s)
  BY <1>1 DEF StaffStarts, OpenCheck, MoveBegin, CloseBegin, Reopen, LinkBegin, RemoveCheck,
              SetTableStatus, AnswerRead, StaffContinues, OpenInsert, OpenOccupy, MoveLock, MoveLocked,
              MoveCommit, CloseCount, CloseCommit, LinkRevoke, LinkIssue, RemoveDelete
<1>2. ASSUME NEW w \in Workers, Works(w) \/ Crash(w)
      PROVE  UNCHANGED queue \/ Take(w) \/ Crash(w)
  BY <1>2 DEF Works, Approve, Seat, OpenForRequest, Reject
<1> QED BY <1>1, <1>2 DEF Next, vars

\* A set that gains at most one element.
LEMMA OneMore ==
  ASSUME NEW S, NEW T, NEW x, IsFiniteSet(S), T \subseteq S \cup {x}
  PROVE  Cardinality(T) <= Cardinality(S) + 1
<1>1. IsFiniteSet(S \cup {x}) /\ Cardinality(S \cup {x}) \in {Cardinality(S), Cardinality(S) + 1}
  BY FS_AddElement, Zenon
<1>2. Cardinality(T) <= Cardinality(S \cup {x})
  BY <1>1, FS_Subset
<1>3. IsFiniteSet(T)
  BY <1>1, FS_Subset
<1> QED BY <1>1, <1>2, <1>3, FS_CardinalityType

\* No answer is published twice or returned to the queue while it is there.
LEMMA BoundStep ==
  ASSUME TypeOK, OperationsOK, AnswersBound, [Next]_vars
  PROVE  AnswersBound'
<1>0. /\ staff \in [Staff -> Operation] /\ worker \in [Workers -> Work] /\ queue \in Seq(Answer)
      /\ Len(queue) \in Nat /\ ops \in Nat
  BY DEF TypeOK
<1>1. /\ IsFiniteSet(Answering) /\ IsFiniteSet(Busy) /\ IsFiniteSet(Answering') /\ IsFiniteSet(Busy')
      /\ Cardinality(Answering) \in Nat /\ Cardinality(Busy) \in Nat
      /\ Cardinality(Answering') \in Nat /\ Cardinality(Busy') \in Nat
  <2>1. Answering \subseteq Staff /\ Answering' \subseteq Staff /\ Busy \subseteq Workers /\ Busy' \subseteq Workers
    BY DEF Answering, Busy
  <2> QED BY <2>1, FS_Subset, FS_CardinalityType
<1>2. ops' \in Nat /\ ops' >= ops
  <2>1. ASSUME NEW s \in Staff, StaffStarts(s) PROVE ops' = ops + 1
    BY <2>1, StaffStartsOK
  <2>2. ASSUME NEW s \in Staff, StaffContinues(s) PROVE ops' = ops
    BY <2>2, StaffContinuesOK
  <2>3. ASSUME NEW w \in Workers, Works(w) \/ Crash(w) PROVE ops' = ops
    BY <2>3 DEF Works, Take, Approve, Seat, OpenForRequest, Reject, Crash
  <2> QED BY <1>0, <2>1, <2>2, <2>3 DEF Next, vars
<1>3. ASSUME NEW s \in Staff, AnswerPublish(s) PROVE AnswersBound'
  <2>1. Len(queue') = Len(queue) + 1 /\ UNCHANGED worker /\ s \in Answering
    <3>1. \E e : queue' = Append(queue, e)
      BY <1>3 DEF AnswerPublish
    <3> QED BY <1>0, <1>3, <3>1 DEF AnswerPublish, Answering
  <2>2. Answering' \subseteq Answering \ {s}
    <3>1. staff'[s] = Idle /\ \A u \in Staff : u # s => staff'[u] = staff[u]
      BY <1>0, <1>3 DEF AnswerPublish, Goto
    <3> QED BY <3>1, IdleType DEF Answering
  <2>3. Cardinality(Answering') <= Cardinality(Answering) - 1
    <3>1. /\ IsFiniteSet(Answering \ {s})
          /\ Cardinality(Answering \ {s}) = Cardinality(Answering) - 1
      BY <1>1, <2>1, FS_RemoveElement
    <3> QED BY <1>1, <2>2, <3>1, FS_Subset
  <2>4. Busy' = Busy
    BY <2>1 DEF Busy
  <2> QED BY <1>0, <1>1, <1>2, <2>1, <2>3, <2>4 DEF AnswersBound
<1>4. ASSUME NEW w \in Workers, Take(w) PROVE AnswersBound'
  <2>1. Len(queue') = Len(queue) - 1 /\ UNCHANGED staff
    BY <1>0, <1>4 DEF Take
  <2>2. Busy' \subseteq Busy \cup {w}
    BY <1>0, <1>4 DEF Take, Advance, Busy
  <2>3. Cardinality(Busy') <= Cardinality(Busy) + 1
    BY <1>1, <2>2, OneMore
  <2>4. Answering' = Answering
    BY <2>1 DEF Answering
  <2> QED BY <1>0, <1>1, <1>2, <2>1, <2>3, <2>4 DEF AnswersBound
<1>5. ASSUME NEW w \in Workers, Crash(w) PROVE AnswersBound'
  <2>1. Len(queue') = Len(queue) + 1 /\ UNCHANGED staff /\ w \in Busy
    BY <1>0, <1>5 DEF Crash, Returned, Busy
  <2>2. Busy' \subseteq Busy \ {w}
    BY <1>0, <1>5 DEF Crash, Advance, Busy, IdleWorker
  <2>3. Cardinality(Busy') <= Cardinality(Busy) - 1
    <3>1. IsFiniteSet(Busy \ {w}) /\ Cardinality(Busy \ {w}) = Cardinality(Busy) - 1
      BY <1>1, <2>1, FS_RemoveElement
    <3> QED BY <1>1, <2>2, <3>1, FS_Subset
  <2>4. Answering' = Answering
    BY <2>1 DEF Answering
  <2> QED BY <1>0, <1>1, <1>2, <2>1, <2>3, <2>4 DEF AnswersBound
<1>6. ASSUME NEW s \in Staff, NEW q \in Requests, NEW t \in Place, AnswerRead(s, q, t) PROVE AnswersBound'
  <2>1. ops' = ops + 1 /\ UNCHANGED <<queue, worker>> /\ Answering' \subseteq Answering \cup {s}
    BY <1>0, <1>6 DEF AnswerRead, Begins, Goto, Answering
  <2>2. Cardinality(Answering') <= Cardinality(Answering) + 1
    BY <1>1, <2>1, OneMore
  <2>3. Busy' = Busy
    BY <2>1 DEF Busy
  <2> QED BY <1>0, <1>1, <2>1, <2>2, <2>3 DEF AnswersBound
<1>7. CASE /\ UNCHANGED queue /\ \A w \in Workers : ~Take(w)
           /\ \A s \in Staff, q \in Requests, t \in Place : ~AnswerRead(s, q, t)
  <2>1. Answering' \subseteq Answering /\ Busy' \subseteq Busy
    BY <1>7, AnswersKept, BusyKept DEF Answering, Busy
  <2>2. Cardinality(Answering') <= Cardinality(Answering) /\ Cardinality(Busy') <= Cardinality(Busy)
    BY <1>1, <2>1, FS_Subset
  <2> QED BY <1>0, <1>1, <1>2, <1>7, <2>2 DEF AnswersBound
<1> QED BY <1>3, <1>4, <1>5, <1>6, <1>7, QueueKept

---------------------------------------------------------------------------
(* types *)

LEMMA TablesType ==
  ASSUME TypeOK, [Next]_vars
  PROVE  tables' \in [Tables -> {"AVAILABLE", "OCCUPIED", "GONE"}]
<1> DEFINE Kinds == [Tables -> {"AVAILABLE", "OCCUPIED", "GONE"}]
<1>0. tables \in Kinds
  BY DEF TypeOK
<1>1. ASSUME NEW where \in Kinds, NEW t, NEW status \in {"AVAILABLE", "OCCUPIED"}
      PROVE  WithStatus(where, t, status) \in Kinds
  BY DEF WithStatus
<1>2. ASSUME NEW s \in Staff, StaffStarts(s) PROVE tables' \in Kinds
  <2>1. ASSUME NEW t \in Tables, NEW status \in {"AVAILABLE", "OCCUPIED"}, SetTableStatus(s, t, status)
        PROVE  tables' \in Kinds
    BY <1>0, <2>1 DEF SetTableStatus
  <2>2. ASSUME NEW b \in Tabs, Reopen(s, b) PROVE tables' \in Kinds
    BY <1>0, <1>1, <2>2 DEF Reopen
  <2>3. CASE UNCHANGED tables
    BY <1>0, <2>3
  <2> QED BY <1>2, <2>1, <2>2, <2>3
          DEF StaffStarts, OpenCheck, MoveBegin, CloseBegin, LinkBegin, RemoveCheck, AnswerRead
<1>3. ASSUME NEW s \in Staff, StaffContinues(s) PROVE tables' \in Kinds
  <2>1. CASE RemoveDelete(s)
    BY <1>0, <2>1 DEF RemoveDelete
  <2>2. CASE MoveCommit(s)
    BY <1>0, <1>1, <2>2 DEF MoveCommit
  <2>3. CASE CloseCommit(s) \/ OpenOccupy(s)
    BY <1>0, <1>1, <2>3 DEF CloseCommit, OpenOccupy
  <2>4. CASE UNCHANGED tables
    BY <1>0, <2>4
  <2> QED BY <1>3, <2>1, <2>2, <2>3, <2>4
          DEF StaffContinues, OpenInsert, MoveLock, MoveLocked, CloseCount, LinkRevoke, LinkIssue,
              AnswerPublish
<1>4. ASSUME NEW w \in Workers, Works(w) \/ Crash(w) PROVE tables' \in Kinds
  BY <1>0, <1>1, <1>4 DEF Works, Take, Approve, Seat, OpenForRequest, Reject, Crash
<1> QED BY <1>0, <1>2, <1>3, <1>4 DEF Next, vars

LEMMA TabsType ==
  ASSUME TypeOK, [Next]_vars
  PROVE  tabs' \in [Tabs -> TabRow]
<1>0. /\ tabs \in [Tabs -> TabRow] /\ staff \in [Staff -> Operation] /\ worker \in [Workers -> Work]
  BY DEF TypeOK
<1>1. ASSUME NEW c, NEW t \in Place, NEW q \in Requests \cup {NoRequest}, tabs' = NewTab(c, t, q)
      PROVE  tabs' \in [Tabs -> TabRow]
  BY <1>0, <1>1 DEF NewTab, TabRow
<1>2. ASSUME NEW c, NEW status \in {"OPEN", "CLOSED"}, tabs' = [tabs EXCEPT ![c].status = status]
      PROVE  tabs' \in [Tabs -> TabRow]
  BY <1>0, <1>2 DEF TabRow
<1>3. ASSUME NEW c, NEW t \in Place, tabs' = [tabs EXCEPT ![c].table = t]
      PROVE  tabs' \in [Tabs -> TabRow]
  BY <1>0, <1>3 DEF TabRow
<1>4. ASSUME NEW s \in Staff, StaffStarts(s) PROVE tabs' \in [Tabs -> TabRow]
  BY <1>0, <1>2, <1>4 DEF StaffStarts, OpenCheck, MoveBegin, CloseBegin, Reopen, LinkBegin,
                          RemoveCheck, SetTableStatus, AnswerRead
<1>5. ASSUME NEW s \in Staff, StaffContinues(s) PROVE tabs' \in [Tabs -> TabRow]
  <2>1. staff[s].to \in Place
    BY <1>0 DEF Operation
  <2>2. ASSUME NEW b \in Tabs, OpenInsert(s, b) PROVE tabs' \in [Tabs -> TabRow]
    BY <1>1, <2>1, <2>2 DEF OpenInsert
  <2>3. CASE MoveCommit(s)
    BY <1>3, <2>1, <2>3 DEF MoveCommit
  <2>4. CASE CloseCommit(s)
    BY <1>2, <2>4 DEF CloseCommit
  <2>5. CASE UNCHANGED tabs
    BY <1>0, <2>5
  <2> QED BY <1>5, <2>2, <2>3, <2>4, <2>5
          DEF StaffContinues, OpenOccupy, MoveLock, MoveLocked, CloseCount, LinkRevoke, LinkIssue,
              RemoveDelete, AnswerPublish
<1>6. ASSUME NEW w \in Workers, Works(w) \/ Crash(w) PROVE tabs' \in [Tabs -> TabRow]
  <2>1. worker[w].seen \in Place /\ worker[w].request \in Requests \cup {NoRequest}
    BY <1>0 DEF Work
  <2> QED BY <1>0, <1>1, <1>6, <2>1 DEF Works, Take, Approve, Seat, OpenForRequest, Reject, Crash
<1> QED BY <1>0, <1>4, <1>5, <1>6 DEF Next, vars

LEMMA RequestsType ==
  ASSUME TypeOK, [Next]_vars
  PROVE  requests' \in [Requests -> RequestRow]
<1>0. /\ requests \in [Requests -> RequestRow] /\ staff \in [Staff -> Operation]
      /\ worker \in [Workers -> Work]
  BY DEF TypeOK
<1>1. ASSUME NEW q, NEW status \in {"PENDING", "APPROVED", "REJECTED"}, NEW t \in Place,
             requests' = [requests EXCEPT ![q] = [status |-> status, table |-> t]]
      PROVE  requests' \in [Requests -> RequestRow]
  BY <1>0, <1>1 DEF RequestRow
<1>2. ASSUME NEW s \in Staff, AnswerPublish(s) PROVE requests' \in [Requests -> RequestRow]
  <2>1. staff[s].to \in Place
    BY <1>0 DEF Operation
  <2> QED BY <1>1, <1>2, <2>1 DEF AnswerPublish
<1>3. ASSUME NEW s \in Staff, StaffStarts(s) \/ StaffContinues(s)
      PROVE  UNCHANGED requests \/ AnswerPublish(s)
  BY <1>3 DEF StaffStarts, OpenCheck, MoveBegin, CloseBegin, Reopen, LinkBegin, RemoveCheck,
              SetTableStatus, AnswerRead, StaffContinues, OpenInsert, OpenOccupy, MoveLock, MoveLocked,
              MoveCommit, CloseCount, CloseCommit, LinkRevoke, LinkIssue, RemoveDelete
<1>4. ASSUME NEW w \in Workers, Works(w) \/ Crash(w) PROVE requests' \in [Requests -> RequestRow]
  <2>1. worker[w].seen \in Place
    BY <1>0 DEF Work
  <2> QED BY <1>0, <1>1, <1>4, <2>1 DEF Works, Take, Approve, Seat, OpenForRequest, Reject, Crash
<1> QED BY <1>0, <1>2, <1>3, <1>4 DEF Next, vars

LEMMA QueueType ==
  ASSUME TypeOK, OperationsOK, [Next]_vars
  PROVE  queue' \in Seq(Answer)
<1>0. queue \in Seq(Answer) /\ worker \in [Workers -> Work]
  BY DEF TypeOK
<1>1. ASSUME NEW s \in Staff, AnswerPublish(s) PROVE queue' \in Seq(Answer)
  <2>1. staff[s].request \in Requests
    BY <1>1 DEF AnswerPublish, OperationsOK
  <2>2. [request |-> staff[s].request,
         action |-> IF staff[s].pc = "answer" THEN "APPROVE" ELSE "REJECT"] \in Answer
    BY <2>1 DEF Answer
  <2> QED BY <1>0, <1>1, <2>2 DEF AnswerPublish
<1>2. ASSUME NEW w \in Workers, Crash(w) PROVE queue' \in Seq(Answer)
  <2>1. worker[w].request \in Requests /\ worker[w].action \in {"APPROVE", "REJECT"}
    BY <1>0, <1>2 DEF Crash, OperationsOK, Work
  <2>2. [request |-> worker[w].request, action |-> worker[w].action] \in Answer
    BY <2>1 DEF Answer
  <2> QED BY <1>0, <1>2, <2>2 DEF Crash, Returned
<1>3. ASSUME NEW w \in Workers, Take(w) PROVE queue' \in Seq(Answer)
  BY <1>0, <1>3 DEF Take
<1> QED BY <1>0, <1>1, <1>2, <1>3, QueueKept

LEMMA WorkerType ==
  ASSUME TypeOK, [Next]_vars
  PROVE  worker' \in [Workers -> Work]
<1>0. worker \in [Workers -> Work] /\ requests \in [Requests -> RequestRow] /\ queue \in Seq(Answer)
      /\ IdleWorker \in Work
  BY DEF TypeOK, IdleWorker, Work, Place
<1>1. ASSUME NEW w \in Workers, NEW r \in Work, Advance(w, r) PROVE worker' \in [Workers -> Work]
  BY <1>0, <1>1 DEF Advance
<1>2. ASSUME NEW w \in Workers, Take(w) PROVE worker' \in [Workers -> Work]
  <2>1. Head(queue) \in Answer
    BY <1>0, <1>2 DEF Take
  <2>2. requests[Head(queue).request].table \in Place
    BY <1>0, <2>1 DEF Answer, RequestRow
  <2>3. [pc |-> IF Head(queue).action = "APPROVE" THEN "approve" ELSE "reject",
         request |-> Head(queue).request, action |-> Head(queue).action,
         seen |-> requests[Head(queue).request].table] \in Work
    BY <2>1, <2>2 DEF Work, Answer
  <2> QED BY <1>0, <1>1, <1>2, <2>3 DEF Take
<1>3. ASSUME NEW w \in Workers, Works(w) \/ Crash(w), ~Take(w) PROVE worker' \in [Workers -> Work]
  <2>1. ASSUME NEW pc \in {"seat", "open"} PROVE [worker[w] EXCEPT !.pc = pc] \in Work
    BY <1>0 DEF Work
  <2> QED BY <1>0, <1>1, <1>3, <2>1 DEF Works, Approve, Seat, OpenForRequest, Reject, Crash
<1>4. ASSUME NEW s \in Staff, StaffStarts(s) \/ StaffContinues(s) PROVE UNCHANGED worker
  BY <1>4 DEF StaffStarts, OpenCheck, MoveBegin, CloseBegin, Reopen, LinkBegin, RemoveCheck,
              SetTableStatus, AnswerRead, StaffContinues, OpenInsert, OpenOccupy, MoveLock, MoveLocked,
              MoveCommit, CloseCount, CloseCommit, LinkRevoke, LinkIssue, RemoveDelete, AnswerPublish
<1> QED BY <1>0, <1>2, <1>3, <1>4 DEF Next, vars

LEMMA LinksType ==
  ASSUME TypeOK, OperationsOK, [Next]_vars
  PROVE  links' \in [Links -> [tab: Tabs \cup {NoTab}, live: BOOLEAN]]
<1>0. links \in [Links -> [tab: Tabs \cup {NoTab}, live: BOOLEAN]]
  BY DEF TypeOK
<1>1. ASSUME NEW s \in Staff, CloseCommit(s) \/ LinkRevoke(s)
      PROVE  links' \in [Links -> [tab: Tabs \cup {NoTab}, live: BOOLEAN]]
  <2>1. PICK b : links' = [l \in Links |-> IF links[l].tab = b THEN [links[l] EXCEPT !.live = FALSE]
                                           ELSE links[l]]
    BY <1>1 DEF CloseCommit, LinkRevoke
  <2>2. ASSUME NEW r \in [tab: Tabs \cup {NoTab}, live: BOOLEAN]
        PROVE  [r EXCEPT !.live = FALSE] \in [tab: Tabs \cup {NoTab}, live: BOOLEAN]
    OBVIOUS
  <2> QED BY <1>0, <2>1, <2>2
<1>2. ASSUME NEW s \in Staff, NEW l \in Links, LinkIssue(s, l)
      PROVE  links' \in [Links -> [tab: Tabs \cup {NoTab}, live: BOOLEAN]]
  <2>1. staff[s].tab \in Tabs
    BY <1>2 DEF LinkIssue, OperationsOK, Holding, InTransaction
  <2> QED BY <1>0, <1>2, <2>1 DEF LinkIssue
<1>3. ASSUME NEW s \in Staff, StaffStarts(s) \/ StaffContinues(s), ~CloseCommit(s), ~LinkRevoke(s)
      PROVE  UNCHANGED links \/ \E l \in Links : LinkIssue(s, l)
  BY <1>3 DEF StaffStarts, OpenCheck, MoveBegin, CloseBegin, Reopen, LinkBegin, RemoveCheck,
              SetTableStatus, AnswerRead, StaffContinues, OpenInsert, OpenOccupy, MoveLock, MoveLocked,
              MoveCommit, CloseCount, RemoveDelete, AnswerPublish
<1>4. ASSUME NEW w \in Workers, Works(w) \/ Crash(w) PROVE UNCHANGED links
  BY <1>4 DEF Works, Take, Approve, Seat, OpenForRequest, Reject, Crash
<1> QED BY <1>0, <1>1, <1>2, <1>3, <1>4 DEF Next, vars

LEMMA CountersType ==
  ASSUME TypeOK, OperationsOK, [Next]_vars
  PROVE  crashes' \in 0..MaxCrashes /\ ops' \in 0..MaxOps
<1>0. crashes \in 0..MaxCrashes /\ ops \in 0..MaxOps
  BY DEF TypeOK
<1>1. ASSUME NEW s \in Staff, StaffStarts(s)
      PROVE  crashes' \in 0..MaxCrashes /\ ops' \in 0..MaxOps
  <2>1. UNCHANGED crashes
    BY <1>1 DEF StaffStarts, OpenCheck, MoveBegin, CloseBegin, Reopen, LinkBegin, RemoveCheck,
                SetTableStatus, AnswerRead
  <2> QED BY <1>0, <1>1, <2>1, StaffStartsOK
<1>2. ASSUME NEW s \in Staff, StaffContinues(s)
      PROVE  crashes' \in 0..MaxCrashes /\ ops' \in 0..MaxOps
  <2>1. UNCHANGED crashes
    BY <1>2 DEF StaffContinues, OpenInsert, OpenOccupy, MoveLock, MoveLocked, MoveCommit, CloseCount,
                CloseCommit, LinkRevoke, LinkIssue, RemoveDelete, AnswerPublish
  <2> QED BY <1>0, <1>2, <2>1, StaffContinuesOK
<1>3. ASSUME NEW w \in Workers, Works(w) \/ Crash(w)
      PROVE  crashes' \in 0..MaxCrashes /\ ops' \in 0..MaxOps
  BY <1>0, <1>3 DEF Works, Take, Approve, Seat, OpenForRequest, Reject, Crash
<1> QED BY <1>0, <1>1, <1>2, <1>3 DEF Next, vars

---------------------------------------------------------------------------
(* theorems *)

LEMMA TableStep ==
  ASSUME TableInv, [Next]_vars
  PROVE  TableInv'
<1>1. TypeOK /\ OperationsOK /\ LocksAscend /\ IssuesAlone /\ AnswersBound
  BY DEF TableInv
<1>2. OperationsOK' /\ LocksAscend' /\ IssuesAlone' /\ AnswersBound'
  BY <1>1, OperationsStep, AscendStep, IssueStep, BoundStep
<1>3. staff' \in [Staff -> Operation]
  <2>1. staff \in [Staff -> Operation]
    BY <1>1 DEF TypeOK
  <2> QED BY <1>1, <2>1, OneMoves
<1>4. queue' \in Seq(Answer) /\ ops' \in Nat
  BY <1>1, QueueType, CountersType
<1>5. Len(queue') <= ops'
  <2>1. Answering' \subseteq Staff /\ Busy' \subseteq Workers
    BY DEF Answering, Busy
  <2>2. Cardinality(Answering') \in Nat /\ Cardinality(Busy') \in Nat
    BY <2>1, FS_Subset, FS_CardinalityType
  <2>3. Len(queue') \in Nat
    BY <1>4
  <2> QED BY <1>2, <1>4, <2>2, <2>3 DEF AnswersBound
<1>6. TypeOK'
  BY <1>1, <1>3, <1>4, <1>5, TablesType, TabsType, RequestsType, WorkerType, LinksType, CountersType
     DEF TypeOK
<1> QED BY <1>2, <1>6 DEF TableInv

LEMMA TableInit ==
  ASSUME Init
  PROVE  TableInv
<1>1. \A s \in Staff : staff[s] = Idle
  BY DEF Init
<1>2. \A w \in Workers : worker[w].pc = "idle"
  BY DEF Init, IdleWorker
<1>3. OperationsOK /\ LocksAscend /\ IssuesAlone
  BY <1>1, <1>2, IdleType DEF OperationsOK, LocksAscend, IssuesAlone, Holding, InTransaction
<1>4. AnswersBound
  <2>1. Answering = {} /\ Busy = {}
    BY <1>1, <1>2, IdleType DEF Answering, Busy
  <2>2. Len(queue) = 0 /\ ops = 0
    BY DEF Init
  <2> QED BY <2>1, <2>2, FS_EmptySet DEF AnswersBound
<1>5. TypeOK
  <2>1. tabs \in [Tabs -> TabRow] /\ tables \in [Tables -> {"AVAILABLE", "OCCUPIED", "GONE"}]
    BY DEF Init, TabRow
  <2>2. requests \in [Requests -> RequestRow]
    BY DEF Init, RequestRow
  <2>3. queue \in Seq(Answer) /\ Len(queue) <= ops
    BY DEF Init
  <2>4. staff \in [Staff -> Operation]
    BY IdleType DEF Init
  <2>5. worker \in [Workers -> Work]
    BY DEF Init, IdleWorker, Work, Place
  <2> QED BY <2>1, <2>2, <2>3, <2>4, <2>5 DEF Init, TypeOK
<1> QED BY <1>3, <1>4, <1>5 DEF TableInv

\* Tables, tabs, requests, links and all operations stay well-typed, and the
\* queue never holds more answers than operations were begun.
THEOREM TypeCorrect == Spec => []TypeOK
<1>1. TableInv => TypeOK
  BY DEF TableInv
<1> QED BY TableInit, TableStep, <1>1, PTL DEF Spec

\* Two tabs never stem from one request, however often it is approved, its
\* message delivered, and however workers interleave and die.
THEOREM RequestsOnce == Spec => []OneTabPerRequest
<1>1. Init => OneTabPerRequest
  BY DEF Init, OneTabPerRequest
<1>2. TableInv /\ OneTabPerRequest /\ [Next]_vars => OneTabPerRequest'
  <2> SUFFICES ASSUME TypeOK, OneTabPerRequest, [Next]_vars PROVE OneTabPerRequest'
    BY DEF TableInv
  <2>0. tabs \in [Tabs -> TabRow]
    BY DEF TypeOK
  <2>1. ASSUME UNCHANGED tabs PROVE OneTabPerRequest'
    BY <2>1 DEF OneTabPerRequest
  <2>2. ASSUME NEW b, NEW t, NEW q, tabs' = NewTab(b, t, q), q = NoRequest \/ ~CodeTaken(q)
        PROVE  OneTabPerRequest'
    BY <2>0, <2>2 DEF NewTab, CodeTaken, OneTabPerRequest
  <2>3. ASSUME \A b \in Tabs : tabs'[b].source = tabs[b].source PROVE OneTabPerRequest'
    BY <2>3 DEF OneTabPerRequest
  <2>4. ASSUME NEW s \in Staff, StaffStarts(s) PROVE OneTabPerRequest'
    <3>1. \A b \in Tabs : tabs'[b].source = tabs[b].source
      <4>1. ASSUME NEW c \in Tabs, Reopen(s, c) PROVE \A b \in Tabs : tabs'[b].source = tabs[b].source
        BY <2>0, <4>1 DEF Reopen, TabRow
      <4> QED BY <2>4, <4>1 DEF StaffStarts, OpenCheck, MoveBegin, CloseBegin, LinkBegin, RemoveCheck,
                                SetTableStatus, AnswerRead
    <3> QED BY <2>3, <3>1
  <2>5. ASSUME NEW s \in Staff, StaffContinues(s) PROVE OneTabPerRequest'
    <3>1. CASE MoveCommit(s) \/ CloseCommit(s)
      <4>1. \A b \in Tabs : tabs'[b].source = tabs[b].source
        BY <2>0, <3>1 DEF MoveCommit, CloseCommit, TabRow
      <4> QED BY <2>3, <4>1
    <3> QED BY <2>1, <2>2, <2>5, <3>1
            DEF StaffContinues, OpenInsert, OpenOccupy, MoveLock, MoveLocked, CloseCount, LinkRevoke,
                LinkIssue, RemoveDelete, AnswerPublish
  <2>6. ASSUME NEW w \in Workers, Works(w) \/ Crash(w) PROVE OneTabPerRequest'
    BY <2>1, <2>2, <2>6 DEF Works, Take, Approve, Seat, OpenForRequest, Reject, Crash
  <2> QED BY <2>1, <2>4, <2>5, <2>6 DEF Next, vars
<1> QED BY <1>1, <1>2, TableInit, TableStep, PTL DEF Spec

\* At most one live link opens a tab, whoever renews it and at whatever time.
THEOREM LinksOnce == Spec => []OneLiveLink
<1>1. Init => OneLiveLink
  BY DEF Init, OneLiveLink
<1>2. TableInv /\ OneLiveLink /\ [Next]_vars => OneLiveLink'
  <2> SUFFICES ASSUME TypeOK, IssuesAlone, OneLiveLink, [Next]_vars PROVE OneLiveLink'
    BY DEF TableInv
  <2>0. links \in [Links -> [tab: Tabs \cup {NoTab}, live: BOOLEAN]]
    BY DEF TypeOK
  <2>1. CASE \A l \in Links : links'[l].live => links[l].live /\ links'[l].tab = links[l].tab
    BY <2>1 DEF OneLiveLink
  <2>2. ASSUME NEW s \in Staff, NEW l \in Links, staff[s].pc = "issue",
               links' = [links EXCEPT ![l] = [tab |-> staff[s].tab, live |-> TRUE]]
        PROVE  OneLiveLink'
    <3>1. \A k \in Links : links'[k] = IF k = l THEN [tab |-> staff[s].tab, live |-> TRUE] ELSE links[k]
      BY <2>0, <2>2
    <3>2. \A k \in Links : links[k].live => links[k].tab # staff[s].tab
      BY <2>2 DEF IssuesAlone
    <3> QED BY <3>1, <3>2 DEF OneLiveLink
  <2> QED BY <2>1, <2>2, LinksKept
<1> QED BY <1>1, <1>2, TableInit, TableStep, PTL DEF Spec

\* No moves wait for each other's tables, in a circle of any length: along a
\* chain of waiting operations the ids of the tables they wait for ascend, and
\* only a move waits while it holds tables.
THEOREM NoCircleOfWaiting == Spec => []WaitsAscend
<1>1. TableInv => WaitsAscend
  <2> SUFFICES ASSUME LocksAscend, NEW s \in Staff, NEW u \in Staff, staff[u].pc = "lockTables",
                      NEW t \in NextToLock(s) \cap staff[u].locked, NEW v \in NextToLock(u)
               PROVE  t < v
    BY DEF TableInv, WaitsAscend
  <2> QED BY DEF LocksAscend, NextToLock
<1> QED BY <1>1, TableInit, TableStep, PTL DEF Spec
===============================================================================
