---- MODULE TableService ----
(***************************************************************************)
(* Tables, tabs, the requests by which guests ask for a table and the      *)
(* portal's links: the operations of tables.service.ts that open, move,    *)
(* close and reopen tabs, and process_table_event.go, which carries out    *)
(* what the staff answered.  Money is TabBilling's.                        *)
(*                                                                         *)
(* A member of staff runs one operation at a time, statement by statement; *)
(* an operation inside a transaction holds the row of its tab, and then    *)
(* the rows of the tables it changes.  A worker is one consumer of         *)
(* admin.table.events.                                                     *)
(***************************************************************************)
EXTENDS Naturals, FiniteSets, Sequences

CONSTANTS
  Tables,       \* the tables' ids: numbers, because rows are locked by id
  Tabs,         \* the tabs that can be opened
  Requests,     \* the guests' requests for a table or a tab
  Links,        \* portal credentials that can be issued
  Staff,        \* users of the panel, one operation each at a time
  Workers,      \* consumers of admin.table.events
  NoTable, NoTab, NoRequest,
  MaxEvents,    \* bound: events in the queue
  MaxCrashes,   \* bound: deaths of workers
  MaxOps        \* bound: operations the staff begins

ASSUME TablesAreOrdered == Tables \subseteq Nat /\ NoTable \notin Tables
ASSUME NothingAssumption == NoTab \notin Tabs /\ NoRequest \notin Requests
ASSUME FiniteAssumption == IsFiniteSet(Tabs) /\ IsFiniteSet(Staff) /\ IsFiniteSet(Workers)
ASSUME BoundsAssumption == MaxCrashes \in Nat /\ MaxOps \in Nat

VARIABLES
  tables,       \* status of each table, "GONE" when its row was deleted
  tabs,         \* each tab's status, table and source request
  requests,     \* each request's status and table
  queue,        \* admin.table.events, with the answers published
  links,        \* portal credentials: whose, and live or revoked
  staff,        \* what each member of staff is doing
  worker,       \* what each consumer is doing, with the message it holds
  crashes,
  ops           \* operations begun

vars == <<tables, tabs, requests, queue, links, staff, worker, crashes, ops>>

Place == Tables \cup {NoTable}

Idle == [pc |-> "idle", tab |-> NoTab, to |-> NoTable, request |-> NoRequest,
         locked |-> {}, count |-> 0]

IdleWorker == [pc |-> "idle", request |-> NoRequest, action |-> "APPROVE",
               seen |-> NoTable]

\* The phases in which an operation's transaction holds the row of its tab.
InTransaction == {"lockTables", "moveTab", "countTabs", "closeTab", "revoke", "issue"}

Operation == [pc: InTransaction \cup {"idle", "insertTab", "occupy", "answer", "refuse", "delete"},
              tab: Tabs \cup {NoTab}, to: Place, request: Requests \cup {NoRequest},
              locked: SUBSET Tables, count: Nat]

Work == [pc: {"idle", "approve", "seat", "open", "reject"}, request: Requests \cup {NoRequest},
         action: {"APPROVE", "REJECT"}, seen: Place]

TabRow == [status: {"NONE", "OPEN", "CLOSED"}, table: Place, source: Requests \cup {NoRequest}]

RequestRow == [status: {"PENDING", "APPROVED", "REJECTED"}, table: Place]

Answer == [request: Requests, action: {"APPROVE", "REJECT"}]

TypeOK ==
  /\ tables \in [Tables -> {"AVAILABLE", "OCCUPIED", "GONE"}]
  /\ tabs \in [Tabs -> TabRow]
  /\ requests \in [Requests -> RequestRow]
  /\ queue \in Seq(Answer)
  /\ Len(queue) <= ops                  \* one message of each answer, at most
  /\ links \in [Links -> [tab: Tabs \cup {NoTab}, live: BOOLEAN]]
  /\ staff \in [Staff -> Operation]
  /\ worker \in [Workers -> Work]
  /\ crashes \in 0..MaxCrashes /\ ops \in 0..MaxOps

Init ==
  /\ \E seat \in [Tabs -> Place] :       \* some guests are seated already
       /\ tabs = [b \in Tabs |-> [status |-> IF seat[b] = NoTable THEN "NONE" ELSE "OPEN",
                                  table |-> seat[b], source |-> NoRequest]]
       /\ tables = [t \in Tables |-> IF \E b \in Tabs : seat[b] = t THEN "OCCUPIED"
                                      ELSE "AVAILABLE"]
  /\ requests \in [Requests -> [status: {"PENDING"}, table: Place]]
  /\ queue = <<>>
  /\ links = [l \in Links |-> [tab |-> NoTab, live |-> FALSE]]
  /\ staff = [s \in Staff |-> Idle]
  /\ worker = [w \in Workers |-> IdleWorker]
  /\ crashes = 0 /\ ops = 0

--------------------------------------------------------------------------------
TabLocked(b) == \E s \in Staff : staff[s].tab = b /\ staff[s].pc \in InTransaction

Locked(t) == \E s \in Staff : t \in staff[s].locked

TableLocked(t, by) == \E s \in Staff \ {by} : t \in staff[s].locked

\* UPDATE tables SET status: nothing happens to a row that is gone.
WithStatus(where, t, status) ==
  IF t \in Tables /\ where[t] # "GONE" THEN [where EXCEPT ![t] = status] ELSE where

OpenTabsAt(t) == {b \in Tabs : tabs[b].status = "OPEN" /\ tabs[b].table = t}

NewTab(b, t, r) == [tabs EXCEPT ![b] = [status |-> "OPEN", table |-> t, source |-> r]]

Goto(s, what) == staff' = [staff EXCEPT ![s] = what]

\* An idle member of staff begins an operation.
Begins(s) == staff[s] = Idle /\ ops < MaxOps /\ ops' = ops + 1

(* openTab: the table is looked up, then the tab saved, then the table     *)
(* marked, in statements of their own.                                     *)
OpenCheck(s, t) ==
  /\ Begins(s)
  /\ t \in Tables => tables[t] # "GONE"
  /\ Goto(s, [Idle EXCEPT !.pc = "insertTab", !.to = t])
  /\ UNCHANGED <<tables, tabs, requests, queue, links, worker, crashes>>

OpenInsert(s, b) ==
  /\ staff[s].pc = "insertTab"
  /\ tabs[b].status = "NONE"
  /\ tabs' = NewTab(b, staff[s].to, NoRequest)
  /\ Goto(s, IF staff[s].to = NoTable THEN Idle ELSE [staff[s] EXCEPT !.pc = "occupy"])
  /\ UNCHANGED <<tables, requests, queue, links, worker, crashes, ops>>

OpenOccupy(s) ==
  /\ staff[s].pc = "occupy"
  /\ ~TableLocked(staff[s].to, s)
  /\ tables' = WithStatus(tables, staff[s].to, "OCCUPIED")
  /\ Goto(s, Idle)
  /\ UNCHANGED <<tabs, requests, queue, links, worker, crashes, ops>>

(* updateTabTable: one transaction; the tab's row, then both tables' rows  *)
(* in the order of their ids, then the writes.                             *)
MoveBegin(s, b, t) ==
  /\ Begins(s)
  /\ tabs[b].status = "OPEN" /\ ~TabLocked(b)
  /\ t # tabs[b].table
  /\ Goto(s, [Idle EXCEPT !.pc = "lockTables", !.tab = b, !.to = t])
  /\ UNCHANGED <<tables, tabs, requests, queue, links, worker, crashes>>

RelatedTables(s) ==
  {t \in {tabs[staff[s].tab].table, staff[s].to} \ {NoTable} : tables[t] # "GONE"}

NextToLockAsNamed(s) ==
  LET named == <<tabs[staff[s].tab].table, staff[s].to>>
      left == {i \in 1..2 : named[i] \in RelatedTables(s) \ staff[s].locked}
  IN  {named[i] : i \in {j \in left : \A k \in left : j <= k}}

\* ORDER BY id FOR UPDATE: the next row to lock is the least not yet locked.
NextToLock(s) ==
  {t \in RelatedTables(s) \ staff[s].locked :
     \A u \in RelatedTables(s) \ staff[s].locked : t <= u}

MoveLock(s) ==
  /\ staff[s].pc = "lockTables"
  /\ \E t \in NextToLock(s) :
       /\ ~TableLocked(t, s)
       /\ Goto(s, [staff[s] EXCEPT !.locked = @ \cup {t}])
  /\ UNCHANGED <<tables, tabs, requests, queue, links, worker, crashes, ops>>

MoveLocked(s) ==
  /\ staff[s].pc = "lockTables"
  /\ RelatedTables(s) \subseteq staff[s].locked
  /\ Goto(s, IF staff[s].to # NoTable /\ staff[s].to \notin staff[s].locked
             THEN Idle                        \* table not found: rollback
             ELSE [staff[s] EXCEPT !.pc = "moveTab"])
  /\ UNCHANGED <<tables, tabs, requests, queue, links, worker, crashes, ops>>

MoveCommit(s) ==
  LET b == staff[s].tab
      from == tabs[b].table
      emptied == OpenTabsAt(from) \ {b} = {}
      seated == WithStatus(tables, staff[s].to, "OCCUPIED")
  IN  /\ staff[s].pc = "moveTab"
      /\ tabs' = [tabs EXCEPT ![b].table = staff[s].to]
      /\ tables' = IF emptied THEN WithStatus(seated, from, "AVAILABLE") ELSE seated
      /\ Goto(s, Idle)
      /\ UNCHANGED <<requests, queue, links, worker, crashes, ops>>

(* finalizeTabInternal, as far as tables and links go: under the tab's     *)
(* lock, count the other tabs of the table, then free it.                  *)
CloseBegin(s, b) ==
  /\ Begins(s)
  /\ tabs[b].status # "NONE" /\ ~TabLocked(b)
  /\ Goto(s, [Idle EXCEPT !.pc = "countTabs", !.tab = b, !.to = tabs[b].table])
  /\ UNCHANGED <<tables, tabs, requests, queue, links, worker, crashes>>

CloseCount(s) ==
  /\ staff[s].pc = "countTabs"
  /\ Goto(s, [staff[s] EXCEPT !.pc = "closeTab",
                !.count = Cardinality(OpenTabsAt(staff[s].to) \ {staff[s].tab})])
  /\ UNCHANGED <<tables, tabs, requests, queue, links, worker, crashes, ops>>

CloseCommit(s) ==
  LET b == staff[s].tab
      frees == staff[s].to # NoTable /\ staff[s].count = 0
  IN  /\ staff[s].pc = "closeTab"
      /\ frees => ~TableLocked(staff[s].to, s)
      /\ tabs' = [tabs EXCEPT ![b].status = "CLOSED"]
      /\ tables' = IF frees THEN WithStatus(tables, staff[s].to, "AVAILABLE") ELSE tables
      /\ links' = [l \in Links |-> IF links[l].tab = b THEN [links[l] EXCEPT !.live = FALSE]
                                   ELSE links[l]]
      /\ Goto(s, Idle)
      /\ UNCHANGED <<requests, queue, worker, crashes, ops>>

(* reopenTab: an administrator, when the tab is not paid.                  *)
Reopen(s, b) ==
  /\ Begins(s)
  /\ tabs[b].status = "CLOSED" /\ ~TabLocked(b)
  /\ ~TableLocked(tabs[b].table, s)
  /\ tabs' = [tabs EXCEPT ![b].status = "OPEN"]
  /\ tables' = WithStatus(tables, tabs[b].table, "OCCUPIED")
  /\ UNCHANGED <<requests, queue, links, staff, worker, crashes>>

LinkBeginUnlocked(s, b) ==
  /\ Begins(s)
  /\ tabs[b].status = "OPEN"
  /\ Goto(s, [Idle EXCEPT !.pc = "revoke", !.tab = b])
  /\ UNCHANGED <<tables, tabs, requests, queue, links, worker, crashes>>

(* createPortalAccess: revoke the live links of the tab, issue another.    *)
LinkBegin(s, b) ==
  /\ Begins(s)
  /\ tabs[b].status = "OPEN" /\ ~TabLocked(b)
  /\ Goto(s, [Idle EXCEPT !.pc = "revoke", !.tab = b])
  /\ UNCHANGED <<tables, tabs, requests, queue, links, worker, crashes>>

\* The revocation is seen by others at the commit; by then the tab's row has
\* been locked all along, so it may as well be applied here.
LinkRevoke(s) ==
  /\ staff[s].pc = "revoke"
  /\ links' = [l \in Links |-> IF links[l].tab = staff[s].tab
                               THEN [links[l] EXCEPT !.live = FALSE] ELSE links[l]]
  /\ Goto(s, [staff[s] EXCEPT !.pc = "issue"])
  /\ UNCHANGED <<tables, tabs, requests, queue, worker, crashes, ops>>

LinkIssue(s, l) ==
  /\ staff[s].pc = "issue"
  /\ links[l].tab = NoTab
  /\ links' = [links EXCEPT ![l] = [tab |-> staff[s].tab, live |-> TRUE]]
  /\ Goto(s, Idle)
  /\ UNCHANGED <<tables, tabs, requests, queue, worker, crashes, ops>>

(* updateStatus and remove: a table's status is set freely; a free table   *)
(* is deleted, in a statement after the one that found it free.            *)
SetTableStatus(s, t, status) ==
  /\ Begins(s)
  /\ tables[t] \notin {"GONE", status} /\ ~TableLocked(t, s)
  /\ tables' = [tables EXCEPT ![t] = status]
  /\ UNCHANGED <<tabs, requests, queue, links, staff, worker, crashes>>

RemoveCheck(s, t) ==
  /\ Begins(s)
  /\ tables[t] = "AVAILABLE"
  /\ Goto(s, [Idle EXCEPT !.pc = "delete", !.to = t])
  /\ UNCHANGED <<tables, tabs, requests, queue, links, worker, crashes>>

\* The foreign keys of tabs and requests keep a table that they name.
RemoveDelete(s) ==
  LET t == staff[s].to
      named == (\E b \in Tabs : tabs[b].table = t) \/ (\E r \in Requests : requests[r].table = t)
  IN  /\ staff[s].pc = "delete" /\ ~TableLocked(t, s)
      /\ tables' = IF named THEN tables ELSE [tables EXCEPT ![t] = "GONE"]
      /\ Goto(s, Idle)
      /\ UNCHANGED <<tabs, requests, queue, links, worker, crashes, ops>>

(* approveRequest and rejectRequest: the row is read, then saved as        *)
(* PENDING and the answer published.                                       *)
AnswerRead(s, r, t) ==
  /\ Begins(s) /\ Len(queue) < MaxEvents
  /\ \/ requests[r].status # "REJECTED"
        /\ Goto(s, [Idle EXCEPT !.pc = "answer", !.request = r, !.to = t])
     \/ requests[r].status = "PENDING" /\ t = requests[r].table
        /\ Goto(s, [Idle EXCEPT !.pc = "refuse", !.request = r, !.to = t])
  /\ UNCHANGED <<tables, tabs, requests, queue, links, worker, crashes>>

AnswerPublish(s) ==
  LET r == staff[s].request IN
  /\ staff[s].pc \in {"answer", "refuse"} /\ Len(queue) < MaxEvents
  /\ requests' = [requests EXCEPT ![r] = [status |-> "PENDING", table |-> staff[s].to]]
  /\ queue' = Append(queue, [request |-> r,
                             action |-> IF staff[s].pc = "answer" THEN "APPROVE" ELSE "REJECT"])
  /\ Goto(s, Idle)
  /\ UNCHANGED <<tables, tabs, links, worker, crashes, ops>>

--------------------------------------------------------------------------------
(* process_table_event.go.  A message is gone from the queue when it is    *)
(* acknowledged, after an error too; a death gives it back.                *)
Advance(w, what) == worker' = [worker EXCEPT ![w] = what]

Take(w) ==
  LET e == Head(queue)
      pending == requests[e.request].status = "PENDING"
  IN  /\ worker[w] = IdleWorker
      /\ queue # <<>>
      /\ queue' = Tail(queue)
      /\ Advance(w, IF pending
                    THEN [pc |-> IF e.action = "APPROVE" THEN "approve" ELSE "reject",
                          request |-> e.request, action |-> e.action,
                          seen |-> requests[e.request].table]
                    ELSE IdleWorker)
      /\ UNCHANGED <<tables, tabs, requests, links, staff, crashes, ops>>

Approve(w) ==
  /\ worker[w].pc = "approve"
  /\ requests' = [requests EXCEPT ![worker[w].request] =
                    [status |-> "APPROVED", table |-> worker[w].seen]]
  /\ Advance(w, [worker[w] EXCEPT !.pc = "seat"])
  /\ UNCHANGED <<tables, tabs, queue, links, staff, crashes, ops>>

Seat(w) ==
  LET t == worker[w].seen IN
  /\ worker[w].pc = "seat"
  /\ t # NoTable => ~Locked(t)
  /\ tables' = WithStatus(tables, t, "OCCUPIED")
  /\ Advance(w, IF t # NoTable /\ tables[t] = "GONE" THEN IdleWorker
                ELSE [worker[w] EXCEPT !.pc = "open"])
  /\ UNCHANGED <<tabs, requests, queue, links, staff, crashes, ops>>

CodeTakenNever(r) == FALSE

\* The public code comes from the request's id and is unique: a request that
\* has a tab gets no other one.
CodeTaken(r) == \E b \in Tabs : tabs[b].source = r

OpenForRequest(w) ==
  LET r == worker[w].request
      t == worker[w].seen
      joins == t # NoTable /\ OpenTabsAt(t) # {}
  IN  /\ worker[w].pc = "open"
      /\ Advance(w, IdleWorker)
      /\ \/ UNCHANGED tabs       \* a tab joined, or the code is another tab's: error
         \/ /\ ~joins /\ ~CodeTaken(r)
            /\ \E b \in Tabs : tabs[b].status = "NONE" /\ tabs' = NewTab(b, t, r)
      /\ UNCHANGED <<tables, requests, queue, links, staff, crashes, ops>>

Reject(w) ==
  /\ worker[w].pc = "reject"
  /\ requests' = [requests EXCEPT ![worker[w].request] =
                    [status |-> "REJECTED", table |-> worker[w].seen]]
  /\ Advance(w, IdleWorker)
  /\ UNCHANGED <<tables, tabs, queue, links, staff, crashes, ops>>

\* The unacknowledged message returns to the head of the queue.
Returned(w) == <<[request |-> worker[w].request, action |-> worker[w].action]>> \o queue

Crash(w) ==
  /\ worker[w].pc # "idle" /\ crashes < MaxCrashes
  /\ crashes' = crashes + 1
  /\ queue' = Returned(w)
  /\ Advance(w, IdleWorker)
  /\ UNCHANGED <<tables, tabs, requests, links, staff, ops>>

--------------------------------------------------------------------------------
StaffStarts(s) ==
  \/ \E t \in Place : OpenCheck(s, t)
  \/ \E b \in Tabs, t \in Place : MoveBegin(s, b, t)
  \/ \E b \in Tabs : CloseBegin(s, b) \/ Reopen(s, b) \/ LinkBegin(s, b)
  \/ \E t \in Tables : RemoveCheck(s, t)
  \/ \E t \in Tables, status \in {"AVAILABLE", "OCCUPIED"} : SetTableStatus(s, t, status)
  \/ \E r \in Requests, t \in Place : AnswerRead(s, r, t)

StaffContinues(s) ==
  \/ \E b \in Tabs : OpenInsert(s, b)
  \/ OpenOccupy(s)
  \/ MoveLock(s) \/ MoveLocked(s) \/ MoveCommit(s)
  \/ CloseCount(s) \/ CloseCommit(s)
  \/ LinkRevoke(s) \/ \E l \in Links : LinkIssue(s, l)
  \/ RemoveDelete(s)
  \/ AnswerPublish(s)

Works(w) == Take(w) \/ Approve(w) \/ Seat(w) \/ OpenForRequest(w) \/ Reject(w)

Next ==
  \/ \E s \in Staff : StaffStarts(s) \/ StaffContinues(s)
  \/ \E w \in Workers : Works(w) \/ Crash(w)

Spec == Init /\ [][Next]_vars

(* A server runs the statements of a transaction it has begun, PostgreSQL  *)
(* queues those who wait for a row, and a consumer goes on with its        *)
(* messages; nobody has to begin anything.                                 *)
FairSpec ==
  /\ Spec
  /\ \A s \in Staff : SF_vars(MoveLock(s)) /\ WF_vars(MoveLocked(s) \/ MoveCommit(s) \/ CloseCount(s))
                      /\ SF_vars(CloseCommit(s)) /\ WF_vars(LinkRevoke(s))
  /\ \A w \in Workers : WF_vars(Take(w) \/ Approve(w) \/ Reject(w) \/ OpenForRequest(w))
                        /\ SF_vars(Seat(w))

--------------------------------------------------------------------------------
(* A request leads to at most one tab, although it may be approved again   *)
(* after its tab was opened, the message delivered again after a death,    *)
(* and two workers may hold two messages of it.                            *)
OneTabPerRequest ==
  \A a, b \in Tabs : tabs[a].source = tabs[b].source /\ tabs[a].source # NoRequest => a = b

(* At most one link opens a tab, although several members of staff renew   *)
(* it: the last one issued revokes the others (createPortalAccess).        *)
OneLiveLink ==
  \A k, l \in Links : links[k].live /\ links[l].live /\ links[k].tab = links[l].tab => k = l

(* Moves and closings that cross each other end: nobody waits for the row  *)
(* of a table held by one who waits (updateTabTable, finalizeTabInternal). *)
TransactionsEnd ==
  \A s \in Staff : staff[s].pc \in {"lockTables", "moveTab", "countTabs", "closeTab"} ~> staff[s] = Idle

(* An answer that was published is applied, although the worker that takes *)
(* it may die: the request is not left waiting.                            *)
AnswerApplied ==
  \A r \in Requests :
    (\E i \in 1..Len(queue) : queue[i].request = r) ~> requests[r].status # "PENDING"

(* What staff and guests ask of the tables comes to an end.                *)
TableWorkEnds == TransactionsEnd /\ AnswerApplied
================================================================================
