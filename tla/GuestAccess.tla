---------------------------- MODULE GuestAccess ----------------------------
(***************************************************************************)
(* How a guest comes to a tab and what the guest may do with it: the code  *)
(* of the tab, the QR code of the table, requests the staff answer, joins  *)
(* the opener of a tab answers, portal links, and the search every message *)
(* makes for the tab it is about (handle_whatsapp_message.go,              *)
(* handle_whatsapp_ordering.go, handle_portal_conversation.go).            *)
(*                                                                         *)
(* The restaurant has one table.  Messages of WhatsApp are handled one at  *)
(* a time, those of the portal beside them; a handler works on a copy of   *)
(* the session and writes the whole of it at the end, unless a statement   *)
(* fails or the worker dies before; errors the code ignores let it go on.  *)
(* The dialogue that puts an order together is module Ordering's.          *)
(***************************************************************************)
EXTENDS Naturals, Sequences, FiniteSetsExt

CONSTANTS
  Guests, Nobody,       \* phones, and the owner of a tab without one
  MaxTabs, MaxJoins,    \* bounds: tabs opened, requests to join one
  MaxMessages,          \* bound: messages that are handled
  MaxEvents             \* bound: messages, acts of the staff, sessions that expire

Tabs == 1..MaxTabs      \* in the order they were opened; 0 is no tab
Participants == Guests \cup Tabs   \* t stands for "portal:<t>"
Consumers == {"whatsapp", "portal"}

ASSUME GuestsApart == Guests \cap Tabs = {} /\ Nobody \notin Participants

ASSUME Bounded == MaxTabs \in Nat \ {0} /\ MaxJoins \in Nat

VARIABLES
  tabs,        \* the tabs: status, owner, at the table?, what is due
  joins,       \* the requests to join a tab
  pending,     \* by guest, the kinds of pending requests: table or plain
  approved,    \* guests with an approved request that names the table
  calls,       \* by tab, the open requests to close its bill
  sessions,    \* by participant, the session under its key in Redis
  handlers,    \* by consumer, the message it handles
  leaving,     \* closed tabs whose sessions are still to be released
  messages, acts,  \* counters for the bounds
  grants,      \* who was let into which tab, and how
  crossed,     \* tabs two handlers were about to call the staff for
  overwritten, \* participants whose session was written over a newer one
  undelivered  \* answered requests to join whose answer did not reach the session

vars == <<tabs, joins, pending, approved, calls, sessions, handlers, leaving,
          messages, acts, grants, crossed, overwritten, undelivered>>

States == {"WELCOME", "MAIN_MENU", "WAITING_TAB_CODE", "WAITING_TABLE_CONFIRMATION",
           "WAITING_ADMIN_APPROVAL", "WAITING_COLLAB_CHOICE", "WAITING_JOIN_APPROVAL",
           "WAITING_OPENER_DECISION", "VIEWING_TAB", "CLOSING_TAB", "SERVICE_REQUEST"}

\* scanned, main, ask and portal are the context: the table of the QR code, its
\* main tab, the join request to answer, the tab a portal link authorises.
Session == [state : States \cup {"NONE"}, tab : 0..MaxTabs, table : BOOLEAN,
            scanned : BOOLEAN, main : 0..MaxTabs, ask : 0..MaxJoins, portal : 0..MaxTabs]

NoSession == [state |-> "NONE", tab |-> 0, table |-> FALSE,
              scanned |-> FALSE, main |-> 0, ask |-> 0, portal |-> 0]

\* bill "settled": paid in full, or reopened after it was
Tab == [status : {"OPEN", "CLOSED"}, owner : Guests \cup {Nobody}, table : BOOLEAN,
        bill : {"empty", "owing", "settled"}]

Join == [by : Guests, main : Tabs, type : {"SHARED", "INDIVIDUAL"},
         status : {"PENDING", "APPROVED", "REJECTED"}]

NoTab == [status |-> "CLOSED", owner |-> Nobody, table |-> FALSE, bill |-> "empty"]

Idle == [at |-> "idle", who |-> Nobody, goal |-> "none", tab |-> 0, row |-> NoTab,
         sess |-> NoSession, base |-> NoSession, peer |-> NoSession]

Handler == [at : {"idle", "think", "find", "claim", "decide", "look", "insert", "deliver", "save"},
            who : Participants \cup {Nobody}, tab : 0..MaxTabs, row : Tab,
            goal : {"none", "guard", "view", "repeat", "portal", "exit", "pay", "staff",
                    "closing", "waiter", "service", "code", "approve", "reject"},
            sess : Session, base : Session, peer : Session]

Ways == {"owner", "shared", "blank", "portal", "stale"}

TypeOK ==
  /\ tabs \in Seq(Tab) /\ Len(tabs) <= MaxTabs
  /\ joins \in Seq(Join) /\ Len(joins) <= MaxJoins
  /\ pending \in [Guests -> SUBSET {"table", "plain"}]
  /\ approved \subseteq Guests
  /\ calls \in [Tabs -> Nat]
  /\ sessions \in [Participants -> Session]
  /\ handlers \in [Consumers -> Handler]
  /\ leaving \subseteq (Guests \cup {Nobody}) \X Tabs
  /\ grants \subseteq Participants \X Tabs \X Ways
  /\ crossed \subseteq Tabs /\ overwritten \subseteq Participants
  /\ undelivered \subseteq DOMAIN joins

-----------------------------------------------------------------------------
(* The session and the search for its tab *)

WithoutContext(s) == [s EXCEPT !.scanned = FALSE, !.main = 0, !.ask = 0, !.portal = 0]

resetSessionAccess(s) == [WithoutContext(s) EXCEPT !.tab = 0, !.table = FALSE]

To(s, state) == [s EXCEPT !.state = state]

Open(t) == tabs[t].status = "OPEN"

OpenAtTable == {t \in DOMAIN tabs : Open(t) /\ tabs[t].table}

isCustomerVisibleTab(t) == Open(t) /\ tabs[t].bill # "settled"

hasApprovedAnyJoinAccess(who, t) ==
  \E j \in DOMAIN joins :
    joins[j].by = who /\ joins[j].main = t /\ joins[j].status = "APPROVED"

hasApprovedSharedJoinAccess(who, t) ==
  \E j \in DOMAIN joins :
    /\ joins[j].by = who /\ joins[j].main = t
    /\ joins[j].type = "SHARED" /\ joins[j].status = "APPROVED"

canSessionAccessTab(who, s, t) ==
  /\ isCustomerVisibleTab(t)
  /\ \/ tabs[t].owner \in {who, Nobody}
     \/ s.portal = t
     \/ hasApprovedSharedJoinAccess(who, t)

canSessionCloseTab(who, s, row, t) == s.portal = t \/ row.owner = who

\* The table's tabs come in no order: own before shared before nobody's.
findAccessibleOpenTabByTable(who) ==
  LET seen   == {t \in OpenAtTable : isCustomerVisibleTab(t)}
      own    == {t \in seen : tabs[t].owner = who}
      shared == {t \in seen : hasApprovedSharedJoinAccess(who, t)}
  IN IF own # {} THEN own
     ELSE IF shared # {} THEN shared
     ELSE {t \in seen : tabs[t].owner = Nobody}

\* By phone the newest comes first (opened_at DESC).
findSessionOpenTab(who, s) ==
  LET mine == {t \in DOMAIN tabs : isCustomerVisibleTab(t) /\ tabs[t].owner = who}
      near == findAccessibleOpenTabByTable(who)
  IN IF s.tab # 0 /\ canSessionAccessTab(who, s, s.tab) THEN {s.tab}
     ELSE IF s.table /\ near # {} THEN near
     ELSE IF mine # {} THEN {Max(mine)}
     ELSE IF who \in approved THEN near
     ELSE {}

findUnauthorizedOpenTabForSession(who, s) ==
  LET closedTo(t) == tabs[t].owner # Nobody /\ ~canSessionAccessTab(who, s, t)
  IN \/ s.tab # 0 /\ Open(s.tab) /\ ~canSessionAccessTab(who, s, s.tab)
     \/ /\ s.table \/ who \in approved
        /\ \E t \in OpenAtTable : isCustomerVisibleTab(t) /\ closedTo(t)

\* A tab of nobody becomes the guest's, a tab without a table gets the guest's.
Reconciled(who, s, row) ==
  [row EXCEPT !.owner = IF @ = Nobody /\ who \in Guests THEN who ELSE @,
              !.table = @ \/ s.table \/ who \in approved]

-----------------------------------------------------------------------------
(* A message: read the session, find out what is meant, write the session *)

Busy(who) == \E c \in Consumers : handlers[c].at # "idle" /\ handlers[c].who = who

Granted(who, t, how) == grants \cup {<<who, t, how>>}

Message ==
  /\ messages < MaxMessages /\ messages + acts < MaxEvents
  /\ messages' = messages + 1

BeginWhatsApp(g) ==
  /\ handlers["whatsapp"].at = "idle"
  /\ Message
  /\ handlers' = [handlers EXCEPT !["whatsapp"] =
       [Idle EXCEPT !.at = "think", !.who = g, !.sess = sessions[g], !.base = sessions[g]]]
  /\ UNCHANGED <<tabs, joins, pending, approved, calls, sessions, leaving, acts,
                 grants, crossed, overwritten, undelivered>>

\* ExecutePortal: the session is the owner's, or that of the link itself.
BeginPortal(t) ==
  LET who == IF tabs[t].owner = Nobody THEN t ELSE tabs[t].owner
      old == sessions[who]
  IN /\ handlers["portal"].at = "idle" /\ Open(t)
     /\ Message
     /\ handlers' = [handlers EXCEPT !["portal"] = [Idle EXCEPT
          !.at = "think", !.who = who, !.base = old,
          !.sess = [old EXCEPT !.state = IF @ \in {"NONE", "WELCOME"} THEN "MAIN_MENU" ELSE @,
                               !.tab = t, !.table = @ \/ tabs[t].table, !.portal = t]]]
     /\ grants' = Granted(who, t, "portal")
     /\ UNCHANGED <<tabs, joins, pending, approved, calls, sessions, leaving, acts,
                    crossed, overwritten, undelivered>>

\* The handler comes to an end: it only has to write the session.
Finish(c, s) == handlers' = [handlers EXCEPT ![c] =
  [Idle EXCEPT !.at = "save", !.who = handlers[c].who, !.sess = s, !.base = handlers[c].base]]

\* The handler looks for the tab of the session s to do something with it.
Seek(c, s, goal) == handlers' = [handlers EXCEPT ![c] =
  [@ EXCEPT !.at = "find", !.goal = goal, !.sess = s, !.tab = 0, !.row = NoTab]]

Thinks(c, state) == handlers[c].at = "think" /\ handlers[c].sess.state = state

FirstMessage(c) ==
  LET s == handlers[c].sess
  IN /\ Thinks(c, "NONE")
     /\ \/ Finish(c, To(s, "WELCOME"))                      \* no QR code
        \/ \E t \in OpenAtTable :
             Finish(c, [s EXCEPT !.state = "WAITING_COLLAB_CHOICE", !.scanned = TRUE, !.main = t])
        \/ Finish(c, [s EXCEPT !.state = "WAITING_TABLE_CONFIRMATION",  \* no tab, or an error
                               !.scanned = TRUE])
     /\ UNCHANGED <<tabs, joins, pending, approved, calls, sessions, leaving, messages, acts,
                    grants, crossed, overwritten, undelivered>>

\* A request for a tab without a table, one at a time.
createComandaRequest(c) ==
  LET h == handlers[c]
  IN IF pending[h.who] # {}
     THEN Finish(c, To(h.sess, "WAITING_ADMIN_APPROVAL")) /\ UNCHANGED pending
     ELSE /\ pending' = [pending EXCEPT ![h.who] = {"plain"}]
          /\ Finish(c, To(resetSessionAccess(h.sess), "WAITING_ADMIN_APPROVAL"))

handleWelcomeMenu(c) ==
  LET s == handlers[c].sess
  IN /\ Thinks(c, "WELCOME")
     /\ \/ Finish(c, s) /\ UNCHANGED pending
        \/ Finish(c, To(s, "WAITING_TAB_CODE")) /\ UNCHANGED pending
        \/ createComandaRequest(c)
     /\ UNCHANGED <<tabs, joins, approved, calls, sessions, leaving, messages, acts,
                    grants, crossed, overwritten, undelivered>>

\* The code of a tab of nobody makes the guest its owner; a whole row is written.
handleTabCode(c) ==
  LET h == handlers[c]
  IN /\ Thinks(c, "WAITING_TAB_CODE")
     /\ \/ Finish(c, h.sess) /\ UNCHANGED grants             \* no open tab, or another's
        \/ Finish(c, To(resetSessionAccess(h.sess), "WELCOME")) /\ UNCHANGED grants
        \/ \E t \in DOMAIN tabs :
             /\ Open(t) /\ tabs[t].owner \in {h.who, Nobody}
             /\ handlers' = [handlers EXCEPT ![c] =
                  [@ EXCEPT !.at = IF tabs[t].owner = Nobody THEN "claim" ELSE "decide",
                            !.goal = "code", !.tab = t,
                            !.row = [tabs[t] EXCEPT !.owner = h.who]]]
             /\ grants' = IF tabs[t].owner = Nobody THEN Granted(h.who, t, "blank") ELSE grants
     /\ UNCHANGED <<tabs, joins, pending, approved, calls, sessions, leaving, messages, acts,
                    crossed, overwritten, undelivered>>

handleTableConfirmation(c) ==
  LET h == handlers[c]
  IN /\ Thinks(c, "WAITING_TABLE_CONFIRMATION")
     /\ \/ Finish(c, To(resetSessionAccess(h.sess), "WELCOME")) /\ UNCHANGED pending
        \/ /\ h.sess.scanned                                 \* how many people
           /\ pending' = [pending EXCEPT ![h.who] = @ \cup {"table"}]
           /\ Finish(c, To(WithoutContext(h.sess), "WAITING_ADMIN_APPROVAL"))
        \/ /\ ~h.sess.scanned
           /\ Finish(c, To(h.sess, "MAIN_MENU")) /\ UNCHANGED pending
        \/ h.sess.scanned /\ Finish(c, h.sess) /\ UNCHANGED pending
     /\ UNCHANGED <<tabs, joins, approved, calls, sessions, leaving, messages, acts,
                    grants, crossed, overwritten, undelivered>>

handleWaitingAdminApproval(c) ==
  LET h == handlers[c]
  IN /\ Thinks(c, "WAITING_ADMIN_APPROVAL")
     /\ \/ Finish(c, h.sess) /\ UNCHANGED pending
        \/ /\ \/ pending[h.who] = {} /\ UNCHANGED pending    \* cancelPendingTableRequest
              \/ \E k \in pending[h.who] : pending' = [pending EXCEPT ![h.who] = @ \ {k}]
           /\ Finish(c, To(resetSessionAccess(h.sess), "WELCOME"))
     /\ UNCHANGED <<tabs, joins, approved, calls, sessions, leaving, messages, acts,
                    grants, crossed, overwritten, undelivered>>

-----------------------------------------------------------------------------
(* Joining a tab *)

\* The request is stored, the opener's session is made to ask, and the guest waits.
handleCollabChoice(c) ==
  LET h == handlers[c]
      s == h.sess
      opener == tabs[s.main].owner
  IN /\ Thinks(c, "WAITING_COLLAB_CHOICE")
     /\ \/ Finish(c, To(WithoutContext(s), "MAIN_MENU")) /\ UNCHANGED <<joins, sessions>>
        \/ Finish(c, To(s, "MAIN_MENU")) /\ UNCHANGED <<joins, sessions>>   \* no table, or an error
        \/ s.scanned /\ Finish(c, s) /\ UNCHANGED <<joins, sessions>>
        \/ \E type \in {"SHARED", "INDIVIDUAL"} :
             /\ s.scanned /\ Len(joins) < MaxJoins
             /\ joins' = Append(joins, [by |-> h.who, main |-> s.main, type |-> type,
                                        status |-> "PENDING"])
             /\ \/ /\ opener \in Guests /\ sessions[opener] # NoSession
                   /\ sessions' = [sessions EXCEPT ![opener] =
                        [@ EXCEPT !.state = "WAITING_OPENER_DECISION", !.ask = Len(joins')]]
                \/ UNCHANGED sessions                        \* none, or an error
             /\ Finish(c, To(s, "WAITING_JOIN_APPROVAL"))
     /\ UNCHANGED <<tabs, pending, approved, calls, leaving, messages, acts,
                    grants, crossed, overwritten, undelivered>>

handleWaitingJoinApproval(c) ==
  LET s == handlers[c].sess
  IN /\ Thinks(c, "WAITING_JOIN_APPROVAL")
     /\ \/ Finish(c, s)
        \/ Finish(c, To(WithoutContext(s), "MAIN_MENU"))
     /\ UNCHANGED <<tabs, joins, pending, approved, calls, sessions, leaving, messages, acts,
                    grants, crossed, overwritten, undelivered>>

\* The answer is written, and the requester's session read; Deliver goes on.  The
\* answer stands although the session cannot be read, and an error of its write is
\* ignored: the request then waits for another answer.
handleOpenerDecision(c) ==
  LET h == handlers[c]
      s == h.sess
      j == joins[s.ask]
      done == To([s EXCEPT !.ask = 0], "MAIN_MENU")
      Answer(goal, status) ==
        /\ \/ /\ joins' = [joins EXCEPT ![s.ask].status = status]
              /\ grants' = IF status = "APPROVED" /\ j.type = "SHARED"
                           THEN Granted(j.by, j.main, "shared") ELSE grants
           \/ UNCHANGED <<joins, grants>>
        /\ \/ /\ sessions[j.by] = NoSession
              /\ Finish(c, done) /\ UNCHANGED undelivered
           \/ /\ sessions[j.by] # NoSession
              /\ handlers' = [handlers EXCEPT ![c] =
                   [@ EXCEPT !.at = "deliver", !.goal = goal, !.peer = sessions[j.by]]]
              /\ UNCHANGED undelivered
           \/ Finish(c, done) /\ undelivered' = undelivered \cup {s.ask}
      Nothing == UNCHANGED <<joins, grants, undelivered>>
  IN /\ Thinks(c, "WAITING_OPENER_DECISION")
     /\ \/ Finish(c, To(s, "MAIN_MENU")) /\ Nothing         \* no request, or an error
        \/ s.ask # 0 /\ j.status # "PENDING" /\ Finish(c, done) /\ Nothing
        \/ /\ s.ask # 0 /\ j.status = "PENDING"
           /\ \/ Finish(c, s) /\ Nothing
              \/ Answer("approve", "APPROVED")
              \/ Answer("reject", "REJECTED")
     /\ UNCHANGED <<tabs, pending, approved, calls, sessions, leaving, messages, acts,
                    crossed, overwritten>>

Write(who, s, base) ==
  /\ sessions' = [sessions EXCEPT ![who] = s]
  /\ overwritten' = IF sessions[who] = base THEN overwritten ELSE overwritten \cup {who}

NewTab(owner, table) ==
  [status |-> "OPEN", owner |-> owner, table |-> table, bill |-> "empty"]

DeliverConsentOnly(c) ==
  LET h == handlers[c]
      j == joins[h.sess.ask]
      Reaches(s) ==
        \/ Write(j.by, s, h.peer) /\ undelivered' = undelivered \ {h.sess.ask}
        \/ UNCHANGED <<sessions, overwritten>> /\ undelivered' = undelivered \cup {h.sess.ask}
      Admit(t) == Reaches(To([WithoutContext(h.peer) EXCEPT !.tab = t, !.table = TRUE],
                             "MAIN_MENU"))
  IN /\ h.at = "deliver"
     /\ \/ /\ h.goal = "approve" /\ j.type = "SHARED"
           /\ Admit(j.main) /\ UNCHANGED <<tabs, grants>>
        \/ /\ h.goal = "approve" /\ j.type = "INDIVIDUAL" /\ Len(tabs) < MaxTabs
           /\ tabs' = Append(tabs, NewTab(j.by, TRUE))
           /\ grants' = Granted(j.by, Len(tabs'), "owner")
           /\ Admit(Len(tabs'))
        \/ /\ h.goal = "approve" /\ j.type = "INDIVIDUAL"
           /\ Admit(0) /\ UNCHANGED <<tabs, grants>>
        \/ /\ h.goal = "reject"
           /\ UNCHANGED <<sessions, overwritten, undelivered>> /\ UNCHANGED <<tabs, grants>>
     /\ Finish(c, To([h.sess EXCEPT !.ask = 0], "MAIN_MENU"))
     /\ UNCHANGED <<joins, pending, approved, calls, leaving, messages, acts, crossed>>

\* The requester's session is written; an error of that is ignored, as is one of the
\* new tab's insert, whose id (0 here) the session then names in vain.
Deliver(c) ==
  LET h == handlers[c]
      j == joins[h.sess.ask]
      Reaches(s) ==
        \/ Write(j.by, s, h.peer) /\ undelivered' = undelivered \ {h.sess.ask}
        \/ UNCHANGED <<sessions, overwritten>> /\ undelivered' = undelivered \cup {h.sess.ask}
      Admit(t) == Reaches(To([WithoutContext(h.peer) EXCEPT !.tab = t, !.table = TRUE],
                             "MAIN_MENU"))
  IN /\ h.at = "deliver"
     /\ \/ /\ h.goal = "approve" /\ j.type = "SHARED"
           /\ Admit(j.main) /\ UNCHANGED <<tabs, grants>>
        \/ /\ h.goal = "approve" /\ j.type = "INDIVIDUAL" /\ Len(tabs) < MaxTabs
           /\ tabs' = Append(tabs, NewTab(j.by, TRUE))
           /\ grants' = Granted(j.by, Len(tabs'), "owner")
           /\ Admit(Len(tabs'))
        \/ /\ h.goal = "approve" /\ j.type = "INDIVIDUAL"
           /\ Admit(0) /\ UNCHANGED <<tabs, grants>>
        \/ /\ h.goal = "reject"
           /\ Reaches(To(WithoutContext(h.peer), "MAIN_MENU")) /\ UNCHANGED <<tabs, grants>>
     /\ Finish(c, To([h.sess EXCEPT !.ask = 0], "MAIN_MENU"))
     /\ UNCHANGED <<joins, pending, approved, calls, leaving, messages, acts, crossed>>

-----------------------------------------------------------------------------
(* Doing something with the tab *)

\* A pending request keeps the guest out of the menu (guardMainMenuAccess).
handleMainMenuSimplified(c) ==
  LET h == handlers[c]
  IN /\ Thinks(c, "MAIN_MENU")
     /\ IF h.who \in Guests /\ pending[h.who] # {}
        THEN Finish(c, To(h.sess, "WAITING_ADMIN_APPROVAL"))
        ELSE Seek(c, h.sess, "guard")
     /\ UNCHANGED <<tabs, joins, pending, approved, calls, sessions, leaving, messages, acts,
                    grants, crossed, overwritten, undelivered>>

handleViewingTab(c) ==
  LET s == handlers[c].sess
  IN /\ Thinks(c, "VIEWING_TAB")
     /\ Finish(c, To(s, "MAIN_MENU")) \/ Seek(c, s, "view") \/ Seek(c, s, "closing")
     /\ UNCHANGED <<tabs, joins, pending, approved, calls, sessions, leaving, messages, acts,
                    grants, crossed, overwritten, undelivered>>

\* Pay by phone, call the staff, back, or (any other text) the question again.
handleClosingTab(c) ==
  LET s == handlers[c].sess
  IN /\ Thinks(c, "CLOSING_TAB")
     /\ \/ Finish(c, To(s, "MAIN_MENU"))
        \/ \E goal \in {"pay", "staff", "closing"} : Seek(c, s, goal)
     /\ UNCHANGED <<tabs, joins, pending, approved, calls, sessions, leaving, messages, acts,
                    grants, crossed, overwritten, undelivered>>

handleServiceRequest(c) ==
  /\ Thinks(c, "SERVICE_REQUEST")
  /\ Seek(c, handlers[c].sess, "service")
  /\ UNCHANGED <<tabs, joins, pending, approved, calls, sessions, leaving, messages, acts,
                 grants, crossed, overwritten, undelivered>>

\* findSessionExitTab takes the tab of the session as it is; every other search
\* ends in reconcileOpenTabMetadata.
AsItIs(h) ==
  /\ h.goal = "exit" /\ h.sess.tab # 0
  /\ canSessionAccessTab(h.who, h.sess, h.sess.tab)
  /\ canSessionCloseTab(h.who, h.sess, tabs[h.sess.tab], h.sess.tab)

Row(h, t) == IF AsItIs(h) THEN tabs[t] ELSE Reconciled(h.who, h.sess, tabs[t])

\* The session has the tab and, once reconciled, its table.
Taken(h, t) ==
  [h EXCEPT !.at = IF Row(h, t) = tabs[t] THEN "decide" ELSE "claim", !.tab = t, !.row = Row(h, t),
            !.sess = [h.sess EXCEPT !.tab = t, !.table = @ \/ (Row(h, t).table /\ ~AsItIs(h))]]

Find(c) ==
  LET h == handlers[c]
      found == IF AsItIs(h) THEN {h.sess.tab} ELSE findSessionOpenTab(h.who, h.sess)
  IN /\ h.at = "find"
     /\ \/ /\ found = {}
           /\ handlers' = [handlers EXCEPT ![c].at = "decide"] /\ UNCHANGED grants
        \/ \E t \in found :
             /\ handlers' = [handlers EXCEPT ![c] = Taken(h, t)]
             /\ grants' = IF tabs[t].owner = Nobody THEN Granted(h.who, t, "blank") ELSE grants
     /\ UNCHANGED <<tabs, joins, pending, approved, calls, sessions, leaving, messages, acts,
                    crossed, overwritten, undelivered>>

\* tabRepo.Update writes every column, as the handler read it: a guest who has lost
\* the tab meanwhile owns it again.  An error sends a guest with a code back; any
\* other handler goes on with the row as it was to be.
Claim(c) ==
  LET h == handlers[c]
      owner == h.row.owner
      goesOn == handlers' = [handlers EXCEPT ![c].at = "decide"]
  IN /\ h.at = "claim"
     /\ \/ /\ tabs' = [tabs EXCEPT ![h.tab] = h.row]
           /\ grants' = IF owner = h.who THEN Granted(owner, h.tab, "owner")
                        ELSE IF owner # Nobody /\ owner # tabs[h.tab].owner
                        THEN Granted(owner, h.tab, "stale")
                        ELSE grants
           /\ goesOn
        \/ /\ IF h.goal = "code" THEN Finish(c, h.sess) ELSE goesOn
           /\ UNCHANGED <<tabs, grants>>
     /\ UNCHANGED <<joins, pending, approved, calls, sessions, leaving, messages, acts,
                    crossed, overwritten, undelivered>>

Decides(c, goal) == handlers[c].at = "decide" /\ handlers[c].goal = goal

\* With a tab or a table the guest may choose from the menu.  A waiter's chat that
\* is open is taken up without a search.
guardMainMenuAccess(c) ==
  LET h == handlers[c]
      s == IF h.tab = 0 THEN [h.sess EXCEPT !.table = TRUE] ELSE h.sess
  IN /\ Decides(c, "guard")
     /\ IF h.tab # 0 \/ h.sess.table \/ h.who \in approved
        THEN \/ \E goal \in {"view", "repeat", "portal", "exit", "waiter", "closing"} : Seek(c, s, goal)
             \/ \E state \in {"MAIN_MENU", "SERVICE_REQUEST"} : Finish(c, To(s, state))
        ELSE Finish(c, To(resetSessionAccess(h.sess), "WELCOME"))
     /\ UNCHANGED <<tabs, joins, pending, approved, calls, sessions, leaving, messages, acts,
                    grants, crossed, overwritten, undelivered>>

\* What a guest chose is done with the tab that was found, if there is one; the
\* session goes to the given state either way.
Does(c, goal, states) ==
  /\ Decides(c, goal)
  /\ \E state \in states : Finish(c, To(handlers[c].sess, state))
  /\ UNCHANGED <<tabs, joins, pending, approved, calls, sessions, leaving, messages, acts,
                 grants, crossed, overwritten, undelivered>>

buildTabSummaryResponse(c)   == Does(c, "view", {"VIEWING_TAB"})
handleRepeatLastRound(c)     == Does(c, "repeat", {"MAIN_MENU"})
handlePortalAccess(c)        == Does(c, "portal", {"MAIN_MENU"})
handleExitQRCode(c)          == Does(c, "exit", {"MAIN_MENU"})
createCheckoutLink(c)        == Does(c, "pay", {"MAIN_MENU"})
getOrCreateOpenWaiterChat(c) == Does(c, "waiter", {"SERVICE_REQUEST", "MAIN_MENU"})

TabCodeAccepted(c) ==
  LET h == handlers[c]
  IN /\ Decides(c, "code")
     /\ Finish(c, To([h.sess EXCEPT !.tab = h.tab, !.table = @ \/ h.row.table], "MAIN_MENU"))
     /\ UNCHANGED <<tabs, joins, pending, approved, calls, sessions, leaving, messages, acts,
                    grants, crossed, overwritten, undelivered>>

\* Only with an open tab does the chat with the staff lead back to the menu.
ServiceRequestContinues(c) ==
  IF handlers[c].tab # 0 THEN Does(c, "service", {"MAIN_MENU", "SERVICE_REQUEST"})
  ELSE /\ Decides(c, "service")
       /\ Finish(c, To(resetSessionAccess(handlers[c].sess), "WELCOME"))
       /\ UNCHANGED <<tabs, joins, pending, approved, calls, sessions, leaving, messages, acts,
                      grants, crossed, overwritten, undelivered>>

MayClose(h) == h.tab # 0 /\ canSessionCloseTab(h.who, h.sess, h.row, h.tab)

startClosingTabFlow(c) ==
  LET h == handlers[c]
      asked == \/ h.tab = 0 /\ ~findUnauthorizedOpenTabForSession(h.who, h.sess)
               \/ MayClose(h) /\ h.row.bill # "empty"
  IN /\ Decides(c, "closing")
     /\ Finish(c, To(h.sess, IF asked THEN "CLOSING_TAB" ELSE "MAIN_MENU"))
     /\ UNCHANGED <<tabs, joins, pending, approved, calls, sessions, leaving, messages, acts,
                    grants, crossed, overwritten, undelivered>>

\* The one in charge calls the staff to close: a tab without a table by the waiter's
\* chat, one at the table by a request, unless one is open.
requestCloseBillByStaff(c) ==
  LET h == handlers[c]
  IN /\ Decides(c, "staff")
     /\ IF ~MayClose(h)  THEN Finish(c, To(h.sess, "MAIN_MENU"))
        ELSE IF h.row.table THEN handlers' = [handlers EXCEPT ![c].at = "look"]
        ELSE Seek(c, h.sess, "waiter") \/ Finish(c, To(h.sess, "SERVICE_REQUEST"))
     /\ UNCHANGED <<tabs, joins, pending, approved, calls, sessions, leaving, messages, acts,
                    grants, crossed, overwritten, undelivered>>

Inserts(c, t) == handlers[c].at = "insert" /\ handlers[c].tab = t

CallWithoutLooking(c) ==
  LET h == handlers[c]
  IN /\ h.at = "look"
     /\ handlers' = [handlers EXCEPT ![c].at = "insert"]
     /\ crossed' = IF \E d \in Consumers \ {c} : Inserts(d, h.tab)
                   THEN crossed \cup {h.tab} ELSE crossed
     /\ UNCHANGED <<tabs, joins, pending, approved, calls, sessions, leaving, messages, acts,
                    grants, overwritten, undelivered>>

\* FindOpenByTabAndType, and then the insert: nothing keeps another out in between.
LookForCall(c) ==
  LET h == handlers[c]
  IN /\ h.at = "look"
     /\ \/ /\ calls[h.tab] = 0
           /\ handlers' = [handlers EXCEPT ![c].at = "insert"]
           /\ crossed' = IF \E d \in Consumers \ {c} : Inserts(d, h.tab)
                         THEN crossed \cup {h.tab} ELSE crossed
        \/ Finish(c, To(h.sess, "MAIN_MENU")) /\ UNCHANGED crossed   \* one is open, or an error
     /\ UNCHANGED <<tabs, joins, pending, approved, calls, sessions, leaving, messages, acts,
                    grants, overwritten, undelivered>>

InsertCall(c) ==
  LET h == handlers[c]
  IN /\ h.at = "insert"
     /\ calls' = [calls EXCEPT ![h.tab] = @ + 1] \/ UNCHANGED calls
     /\ Finish(c, To(h.sess, "MAIN_MENU"))
     /\ UNCHANGED <<tabs, joins, pending, approved, sessions, leaving, messages, acts,
                    grants, crossed, overwritten, undelivered>>

Save(c) ==
  LET h == handlers[c]
  IN /\ h.at = "save"
     /\ Write(h.who, h.sess, h.base)
     /\ handlers' = [handlers EXCEPT ![c] = Idle]
     /\ UNCHANGED <<tabs, joins, pending, approved, calls, leaving, messages, acts,
                    grants, crossed, undelivered>>

\* The handler returns an error, or its worker dies: what it stored stays, the session
\* is as it was.  A message that is delivered again is one more message.
Stops(c) ==
  LET h == handlers[c]
  IN /\ h.at # "idle"
     /\ handlers' = [handlers EXCEPT ![c] = Idle]
     /\ undelivered' = IF h.at = "deliver" THEN undelivered \cup {h.sess.ask} ELSE undelivered
     /\ UNCHANGED <<tabs, joins, pending, approved, calls, sessions, leaving, messages, acts,
                    grants, crossed, overwritten>>

Handle(c) ==
  \/ FirstMessage(c) \/ handleWelcomeMenu(c) \/ handleTabCode(c)
  \/ handleTableConfirmation(c) \/ handleWaitingAdminApproval(c)
  \/ handleCollabChoice(c) \/ handleWaitingJoinApproval(c)
  \/ handleOpenerDecision(c) \/ Deliver(c)
  \/ handleMainMenuSimplified(c) \/ handleViewingTab(c) \/ handleClosingTab(c) \/ handleServiceRequest(c)
  \/ Find(c) \/ Claim(c) \/ guardMainMenuAccess(c)
  \/ buildTabSummaryResponse(c) \/ handleRepeatLastRound(c) \/ handlePortalAccess(c)
  \/ handleExitQRCode(c) \/ createCheckoutLink(c) \/ getOrCreateOpenWaiterChat(c)
  \/ TabCodeAccepted(c) \/ ServiceRequestContinues(c)
  \/ startClosingTabFlow(c) \/ requestCloseBillByStaff(c) \/ LookForCall(c) \/ InsertCall(c)
  \/ Save(c) \/ Stops(c)

-----------------------------------------------------------------------------
(* The staff *)

Act == messages + acts < MaxEvents /\ acts' = acts + 1

\* The worker opens a tab, or takes one of the table's, whoever's it is; one
\* step here (TableService has its statements).  It may fail once the request is
\* approved, and goes on when the session cannot be written.
Approve(g, kind, atTable) ==
  LET near == IF atTable THEN OpenAtTable ELSE {}
      Admit(t) ==
        \/ /\ sessions[g] # NoSession
           /\ sessions' = [sessions EXCEPT ![g] =
                [@ EXCEPT !.state = "MAIN_MENU", !.tab = t, !.table = atTable]]
        \/ UNCHANGED sessions
  IN /\ Act
     /\ kind \in pending[g] /\ (kind = "table" => atTable)
     /\ pending' = [pending EXCEPT ![g] = @ \ {kind}]
     /\ approved' = IF atTable THEN approved \cup {g} ELSE approved
     /\ \/ /\ near = {} /\ Len(tabs) < MaxTabs
           /\ tabs' = Append(tabs, NewTab(g, atTable))
           /\ grants' = Granted(g, Len(tabs'), "owner")
           /\ Admit(Len(tabs'))
        \/ \E t \in near : Admit(t) /\ UNCHANGED <<tabs, grants>>
        \/ UNCHANGED <<tabs, grants, sessions>>
     /\ UNCHANGED <<joins, calls, handlers, leaving, messages,
                    crossed, overwritten, undelivered>>

Reject(g, kind) ==
  /\ Act
  /\ kind \in pending[g]
  /\ pending' = [pending EXCEPT ![g] = @ \ {kind}]
  /\ \/ /\ sessions[g] # NoSession
        /\ sessions' = [sessions EXCEPT ![g] = To(resetSessionAccess(@), "WELCOME")]
     \/ UNCHANGED sessions
  /\ UNCHANGED <<tabs, joins, approved, calls, handlers, leaving, messages,
                 grants, crossed, overwritten, undelivered>>

HasOpenTab(g) == \E t \in DOMAIN tabs : Open(t) /\ tabs[t].owner = g

openTab(owner, atTable) ==
  /\ Act
  /\ Len(tabs) < MaxTabs /\ (owner \in Guests => ~HasOpenTab(owner))
  /\ tabs' = Append(tabs, NewTab(owner, atTable))
  /\ grants' = IF owner \in Guests THEN Granted(owner, Len(tabs'), "owner") ELSE grants
  /\ UNCHANGED <<joins, pending, approved, calls, sessions, handlers, leaving, messages,
                 crossed, overwritten, undelivered>>

\* The tab is another guest's from now on, or nobody's.
updateTabCustomer(t, owner) ==
  LET old == tabs[t].owner
  IN /\ Act
     /\ Open(t) /\ owner # old /\ (owner \in Guests => ~HasOpenTab(owner))
     /\ tabs' = [tabs EXCEPT ![t].owner = owner]
     /\ grants' = (grants \ {<<old, t, "owner">>})
                    \cup (IF owner \in Guests THEN {<<owner, t, "owner">>} ELSE {})
     /\ UNCHANGED <<joins, pending, approved, calls, sessions, handlers, leaving, messages,
                    crossed, overwritten, undelivered>>

finalizeTab(t) ==
  /\ Act
  /\ Open(t)
  /\ tabs' = [tabs EXCEPT ![t].status = "CLOSED", ![t].bill = "settled"]
  /\ calls' = [calls EXCEPT ![t] = 0]
  /\ leaving' = leaving \cup {<<tabs[t].owner, t>>}
  /\ UNCHANGED <<joins, pending, approved, sessions, handlers, messages,
                 grants, crossed, overwritten, undelivered>>

\* A session deleted while a message of its guest is handled will come back.
Forget(ps) ==
  /\ sessions' = [p \in Participants |-> IF p \in ps THEN NoSession ELSE sessions[p]]
  /\ overwritten' = overwritten \cup {p \in ps : Busy(p)}

\* Sessions of the owner's phone or with the tab are deleted; the call may fail.
ReleaseSessions(owner, t) ==
  /\ <<owner, t>> \in leaving
  /\ leaving' = leaving \ {<<owner, t>>}
  /\ \/ Forget({p \in Participants : p = owner \/ sessions[p].tab = t})
     \/ UNCHANGED <<sessions, overwritten>>
  /\ UNCHANGED <<tabs, joins, pending, approved, calls, handlers, messages, acts,
                 grants, crossed, undelivered>>

reopenTab(t) ==
  /\ Act
  /\ ~Open(t)
  /\ tabs' = [tabs EXCEPT ![t].status = "OPEN"]
  /\ UNCHANGED <<joins, pending, approved, calls, sessions, handlers, leaving, messages,
                 grants, crossed, overwritten, undelivered>>

\* Orders are billed, payments settle what is due.
Bill(t) ==
  /\ Act
  /\ Open(t) /\ tabs[t].bill # "settled"
  /\ tabs' = [tabs EXCEPT ![t].bill = IF @ = "empty" THEN "owing" ELSE "settled"]
  /\ UNCHANGED <<joins, pending, approved, calls, sessions, handlers, leaving, messages,
                 grants, crossed, overwritten, undelivered>>

\* After a day Redis forgets a session.
Expire(p) ==
  /\ Act
  /\ sessions[p] # NoSession
  /\ Forget({p})
  /\ UNCHANGED <<tabs, joins, pending, approved, calls, handlers, leaving, messages,
                 grants, crossed, undelivered>>

Staff ==
  \/ \E g \in Guests, kind \in {"table", "plain"} :
       Reject(g, kind) \/ \E atTable \in BOOLEAN : Approve(g, kind, atTable)
  \/ \E owner \in Guests \cup {Nobody} :
       \/ \E atTable \in BOOLEAN : openTab(owner, atTable)
       \/ \E t \in DOMAIN tabs : updateTabCustomer(t, owner)
  \/ \E t \in DOMAIN tabs : finalizeTab(t) \/ reopenTab(t) \/ Bill(t)
  \/ \E l \in leaving : ReleaseSessions(l[1], l[2])
  \/ \E p \in Participants : Expire(p)

-----------------------------------------------------------------------------
\* An empty restaurant; or one guest has opened the table's tab and ordered, and
\* another may have scanned its code.
Init ==
  /\ joins = <<>> /\ pending = [g \in Guests |-> {}] /\ calls = [t \in Tabs |-> 0]
  /\ handlers = [c \in Consumers |-> Idle]
  /\ leaving = {} /\ messages = 0 /\ acts = 0 /\ crossed = {} /\ overwritten = {}
  /\ undelivered = {}
  /\ \/ /\ tabs = <<>> /\ approved = {} /\ grants = {}
        /\ sessions = [p \in Participants |-> NoSession]
     \/ \E opener \in Guests :
          /\ tabs = <<[NewTab(opener, TRUE) EXCEPT !.bill = "owing"]>>
          /\ approved = {opener} /\ grants = {<<opener, 1, "owner">>}
          /\ \E state \in {"MAIN_MENU", "CLOSING_TAB"}, scanners \in SUBSET (Guests \ {opener}) :
               sessions = [p \in Participants |->
                 CASE p = opener    -> [NoSession EXCEPT !.state = state,
                                                         !.tab = 1, !.table = TRUE]
                   [] p \in scanners -> [NoSession EXCEPT !.state = "WAITING_COLLAB_CHOICE",
                                                          !.scanned = TRUE, !.main = 1]
                   [] OTHER         -> NoSession]

Next ==
  \/ \E g \in Guests : BeginWhatsApp(g)
  \/ \E t \in DOMAIN tabs : BeginPortal(t)
  \/ \E c \in Consumers : Handle(c)
  \/ Staff

Spec == Init /\ [][Next]_vars

-----------------------------------------------------------------------------
\* Tabs are kept apart: the search a message makes finds only a tab the guest was
\* let into - as its owner, by the opener's consent to share it, by its portal link,
\* because it was nobody's, or as a former owner whom a handler's old copy of the row
\* made the owner again - and only the owner or a holder of the link calls the
\* staff to close it, unless the tab changed hands since it was read or its row could
\* not be written.  A guest
\* admitted with a tab of their own, or still waiting, has none of this over the tab
\* beside theirs, although both are at the table.
TabsKeptApart ==
  [][\A c \in Consumers :
       LET h == handlers'[c]
       IN /\ handlers[c].at = "find" /\ h.tab # 0 =>
               \E how \in Ways : <<h.who, h.tab, how>> \in grants'
          /\ h.at = "look" /\ h.row = tabs[h.tab] =>
               \E how \in {"owner", "portal", "stale"} : <<h.who, h.tab, how>> \in grants]_vars

Latest(g) == Max({j \in DOMAIN joins : joins[j].by = g})

\* A guest whose request to join was answered does not go on waiting for the answer,
\* whatever opener, guest and expiry did in between, unless one message's session was
\* written over another's, or a failure or death after the answer was stored kept it
\* from the guest's session (nothing tells the guest later: the opener who tries again
\* hears that the request is answered).
AnsweredNotWaiting ==
  \A g \in Guests :
    /\ sessions[g].state = "WAITING_JOIN_APPROVAL" /\ ~Busy(g)
    /\ \E j \in DOMAIN joins : joins[j].by = g
    /\ \A c \in Consumers : handlers[c].at # "deliver"
    /\ joins[Latest(g)].status # "PENDING"
    => g \in overwritten \/ Latest(g) \in undelivered

\* One tab has one open request to close it, however often the staff are called,
\* unless two messages looked for one at the same time.
AloneCalledOnce == \A t \in Tabs : calls[t] > 1 => t \in crossed
=============================================================================
