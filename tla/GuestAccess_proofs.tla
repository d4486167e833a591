-------------------------- MODULE GuestAccess_proofs --------------------------
(***************************************************************************)
(* Proofs about how guests come to a tab (module GuestAccess), for any     *)
(* number of guests, tabs, requests to join, messages and acts of the      *)
(* staff.                                                                  *)
(***************************************************************************)
EXTENDS GuestAccess, WellFoundedInduction, TLAPS

-----------------------------------------------------------------------------
(* The invariant the others rest on.                                       *)
\* The states of the session of a portal link, which has no phone.
LinkStates == {"NONE", "WELCOME", "MAIN_MENU", "VIEWING_TAB", "CLOSING_TAB", "SERVICE_REQUEST"}

\* What a session refers to exists, and who has the authority of a link got it.
Good(p, s) ==
  /\ s \in Session
  /\ s.tab <= Len(tabs) /\ s.ask <= Len(joins)
  /\ s.state = "WAITING_COLLAB_CHOICE" => s.scanned /\ s.main \in 1..Len(tabs)
  /\ p \in Tabs => s.state \in LinkStates
  /\ s.portal # 0 => <<p, s.portal, "portal">> \in grants

SessionsGood ==
  \A p \in Participants :
    Good(p, sessions[p]) /\ (sessions[p].state = "NONE" => sessions[p] = NoSession)

\* How far a handler has come with the session it read (base).
Comes(h) ==
  /\ h.at = "think" => h.sess.state \in {h.base.state, "MAIN_MENU"}
  /\ h.at = "think" /\ h.who \in Tabs => h.sess.state \notin {"NONE", "WELCOME"}
  /\ h.at # "think" => h.sess.state # "NONE"
  /\ h.sess.state = "WAITING_COLLAB_CHOICE" => h.base.state \in {"NONE", "WAITING_COLLAB_CHOICE"}
  /\ h.sess.state = "WAITING_JOIN_APPROVAL" =>
       h.base.state \in {"WAITING_COLLAB_CHOICE", "WAITING_JOIN_APPROVAL"}

Sound(h) ==
  /\ h \in Handler
  /\ h.at = "idle" <=> h.who = Nobody
  /\ h.at # "idle" => Good(h.who, h.sess) /\ Comes(h)
  /\ h.tab <= Len(tabs)
  /\ h.at = "find" => h.tab = 0
  /\ h.at \in {"claim", "look", "insert"} => h.tab # 0
  /\ h.at = "deliver" => h.sess.ask # 0 /\ h.peer.tab <= Len(tabs)
  /\ h.at = "look" => h.row.owner = h.who \/ <<h.who, h.tab, "portal">> \in grants

JoinsGood ==
  \A j \in DOMAIN joins :
    /\ joins[j].main <= Len(tabs)
    /\ joins[j].type = "SHARED" /\ joins[j].status = "APPROVED" =>
         <<joins[j].by, joins[j].main, "shared">> \in grants

OwnersGood ==
  \A t \in DOMAIN tabs : tabs[t].owner # Nobody =>
    <<tabs[t].owner, t, "owner">> \in grants \/ <<tabs[t].owner, t, "stale">> \in grants

GuestInv ==
  /\ TypeOK /\ SessionsGood /\ JoinsGood /\ OwnersGood
  /\ \A c \in Consumers : Sound(handlers[c])

-----------------------------------------------------------------------------
(* Sessions and handlers, field by field.                                  *)
LEMMA NoSessionParts ==
  /\ NoSession \in Session /\ NoSession.state = "NONE" /\ NoSession.tab = 0
  /\ NoSession.ask = 0 /\ NoSession.portal = 0
BY Bounded DEF NoSession, Session

LEMMA Moved ==
  ASSUME NEW s \in Session, NEW state \in States
  PROVE  /\ To(s, state) \in Session /\ To(s, state).state = state
         /\ To(s, state).tab = s.tab /\ To(s, state).table = s.table
         /\ To(s, state).scanned = s.scanned /\ To(s, state).main = s.main
         /\ To(s, state).ask = s.ask /\ To(s, state).portal = s.portal
BY DEF To, Session

LEMMA Without ==
  ASSUME NEW s \in Session
  PROVE  /\ WithoutContext(s) \in Session
         /\ WithoutContext(s).state = s.state /\ WithoutContext(s).tab = s.tab
         /\ WithoutContext(s).ask = 0 /\ WithoutContext(s).portal = 0
<1>1. 0 \in 0..MaxTabs /\ 0 \in 0..MaxJoins
  BY Bounded
<1>2. WithoutContext(s) \in Session
  BY <1>1 DEF WithoutContext, Session
<1> QED BY <1>2 DEF WithoutContext, Session

LEMMA ResetParts ==
  ASSUME NEW s \in Session
  PROVE  /\ resetSessionAccess(s) \in Session
         /\ resetSessionAccess(s).state = s.state /\ resetSessionAccess(s).tab = 0
         /\ resetSessionAccess(s).ask = 0 /\ resetSessionAccess(s).portal = 0
BY Bounded, Without DEF resetSessionAccess, Session

LEMMA NoAsk ==
  ASSUME NEW s \in Session
  PROVE  LET n == [s EXCEPT !.ask = 0]
         IN /\ n \in Session /\ n.state = s.state /\ n.tab = s.tab /\ n.ask = 0 /\ n.portal = s.portal
            /\ n.scanned = s.scanned /\ n.main = s.main
BY Bounded DEF Session

LEMMA AtATable ==
  ASSUME NEW s \in Session
  PROVE  LET n == [s EXCEPT !.table = TRUE]
         IN /\ n \in Session /\ n.state = s.state /\ n.tab = s.tab /\ n.ask = s.ask /\ n.portal = s.portal
            /\ n.scanned = s.scanned /\ n.main = s.main
BY DEF Session

LEMMA NoTabParts == NoTab \in Tab
BY DEF NoTab, Tab

LEMMA IdleParts ==
  /\ Idle \in Handler /\ Idle.at = "idle" /\ Idle.who = Nobody /\ Idle.tab = 0
  /\ Idle.sess = NoSession /\ Idle.base = NoSession
BY Bounded, NoSessionParts, NoTabParts DEF Idle, Handler

\* A handler that has only to write the session s.
Ended(h, s) == [Idle EXCEPT !.at = "save", !.who = h.who, !.sess = s, !.base = h.base]

LEMMA EndedParts ==
  ASSUME NEW h \in Handler, NEW s \in Session
  PROVE  /\ Ended(h, s) \in Handler /\ Ended(h, s).at = "save" /\ Ended(h, s).who = h.who
         /\ Ended(h, s).tab = 0 /\ Ended(h, s).sess = s /\ Ended(h, s).base = h.base
BY IdleParts DEF Ended, Handler

Sought(h, s, goal) == [h EXCEPT !.at = "find", !.goal = goal, !.sess = s, !.tab = 0, !.row = NoTab]

Goals == {"none", "guard", "view", "repeat", "portal", "exit", "pay", "staff",
          "closing", "waiter", "service", "code", "approve", "reject"}

LEMMA SoughtParts ==
  ASSUME NEW h \in Handler, NEW s \in Session, NEW goal \in Goals
  PROVE  /\ Sought(h, s, goal) \in Handler /\ Sought(h, s, goal).at = "find"
         /\ Sought(h, s, goal).who = h.who /\ Sought(h, s, goal).tab = 0
         /\ Sought(h, s, goal).sess = s /\ Sought(h, s, goal).base = h.base
<1>1. 0 \in 0..MaxTabs
  BY Bounded
<1>2. Sought(h, s, goal) \in Handler
  BY <1>1, NoTabParts DEF Sought, Handler, Goals
<1> QED BY <1>2 DEF Sought, Handler

-----------------------------------------------------------------------------
(* What is known stays known while tabs, requests and links are added.     *)
Grows ==
  /\ Len(tabs) <= Len(tabs') /\ Len(joins) <= Len(joins')
  /\ \A p, t : <<p, t, "portal">> \in grants => <<p, t, "portal">> \in grants'

LEMMA Lengths == TypeOK => Len(tabs) \in Nat /\ Len(joins) \in Nat /\ Len(tabs) <= MaxTabs /\ Len(joins) <= MaxJoins
BY Bounded DEF TypeOK

LEMMA GoodGrows ==
  ASSUME TypeOK, TypeOK', Grows, NEW p, NEW s, Good(p, s)
  PROVE  Good(p, s)'
<1>1. Len(tabs) \in Nat /\ Len(tabs') \in Nat /\ Len(joins) \in Nat /\ Len(joins') \in Nat
  BY DEF TypeOK
<1>2. s \in Session /\ s.tab \in Nat /\ s.ask \in Nat /\ s.main \in Nat
  BY Bounded DEF Good, Session
<1> QED BY <1>1, <1>2 DEF Good, Grows

LEMMA SoundGrows ==
  ASSUME TypeOK, TypeOK', Grows, NEW h, Sound(h)
  PROVE  Sound(h)'
<1>1. Len(tabs) \in Nat /\ Len(tabs') \in Nat
  BY DEF TypeOK
<1>2. h \in Handler /\ h.tab \in Nat
  BY Bounded DEF Sound, Handler
<1>3. h.at # "idle" => Good(h.who, h.sess)'
  BY GoodGrows DEF Sound
<1>4. h.peer.tab \in Nat
  BY <1>2, Bounded DEF Handler, Session
<1> QED BY <1>1, <1>2, <1>3, <1>4 DEF Sound, Grows, Comes

LEMMA SessionsGrow ==
  ASSUME TypeOK, TypeOK', SessionsGood, Grows, UNCHANGED sessions
  PROVE  SessionsGood'
BY GoodGrows DEF SessionsGood

LEMMA JoinsGrow ==
  ASSUME TypeOK, TypeOK', JoinsGood, Grows, UNCHANGED joins,
         \A p, t : <<p, t, "shared">> \in grants => <<p, t, "shared">> \in grants'
  PROVE  JoinsGood'
<1>1. Len(tabs) \in Nat /\ Len(tabs') \in Nat
  BY DEF TypeOK
<1>2. \A j \in DOMAIN joins : joins[j] \in Join
  BY DEF TypeOK
<1>3. \A j \in DOMAIN joins : joins[j].main \in Nat
  BY <1>2, Bounded DEF Join, Tabs
<1> QED BY <1>1, <1>3 DEF JoinsGood, Grows

-----------------------------------------------------------------------------
(* A handler that moves on without a word to the others.                   *)
Turn(c) ==
  \E h \in Handler :
    /\ handlers' = [handlers EXCEPT ![c] = h]
    /\ Sound(h)
    /\ h.who = handlers[c].who /\ h.base = handlers[c].base
    /\ h.sess.state = "WAITING_JOIN_APPROVAL" => handlers[c].sess.state = "WAITING_JOIN_APPROVAL"
    /\ h.at \notin {"idle", "deliver", "insert"}

LEMMA Working ==
  ASSUME GuestInv, NEW c \in Consumers, handlers[c].at # "idle"
  PROVE  /\ handlers[c] \in Handler /\ handlers[c].sess \in Session
         /\ handlers[c].who \in Participants /\ handlers[c].who # Nobody
         /\ Good(handlers[c].who, handlers[c].sess) /\ Comes(handlers[c])
BY DEF GuestInv, Sound, Handler

\* Who may be asked, told or admitted has a phone.
LEMMA HasPhone ==
  ASSUME GuestInv, NEW c \in Consumers, handlers[c].at = "think",
         handlers[c].sess.state \notin {"MAIN_MENU", "VIEWING_TAB", "CLOSING_TAB", "SERVICE_REQUEST"}
  PROVE  handlers[c].who \in Guests /\ handlers[c].who \notin Tabs
<1>1. handlers[c].who \notin Tabs
  BY Working DEF Good, Comes, LinkStates
<1> QED BY <1>1, Working DEF Participants

LEMMA FinishTurn ==
  ASSUME GuestInv, NEW c \in Consumers, handlers[c].at # "idle", NEW s, Finish(c, s),
         Good(handlers[c].who, s), s.state # "NONE",
         s.state = "WAITING_COLLAB_CHOICE" => handlers[c].base.state \in {"NONE", "WAITING_COLLAB_CHOICE"},
         s.state = "WAITING_JOIN_APPROVAL" => handlers[c].sess.state = "WAITING_JOIN_APPROVAL"
  PROVE  Turn(c)
<1>1. handlers' = [handlers EXCEPT ![c] = Ended(handlers[c], s)]
  BY DEF Finish, Ended
<1>2. s \in Session
  BY DEF Good
<1> DEFINE e == Ended(handlers[c], s)
<1>3. /\ e \in Handler /\ e.at = "save" /\ e.who = handlers[c].who
      /\ e.tab = 0 /\ e.sess = s /\ e.base = handlers[c].base
  BY <1>2, Working, EndedParts
<1>4. Len(tabs) \in Nat
  BY Lengths DEF GuestInv
<1> HIDE DEF e
<1>5. Comes(e)
  BY <1>3, Working DEF Comes
<1>6. Sound(e)
  BY <1>3, <1>4, <1>5, Working DEF Sound
<1> QED BY <1>1, <1>3, <1>6 DEF Turn, e

LEMMA SeekTurn ==
  ASSUME GuestInv, NEW c \in Consumers, handlers[c].at # "idle", NEW s, NEW goal \in Goals,
         Seek(c, s, goal), Good(handlers[c].who, s), s.state = handlers[c].sess.state, s.state # "NONE"
  PROVE  Turn(c)
<1>1. handlers' = [handlers EXCEPT ![c] = Sought(handlers[c], s, goal)]
  BY DEF Seek, Sought
<1>2. s \in Session
  BY DEF Good
<1> DEFINE e == Sought(handlers[c], s, goal)
<1>3. /\ e \in Handler /\ e.at = "find" /\ e.who = handlers[c].who
      /\ e.tab = 0 /\ e.sess = s /\ e.base = handlers[c].base
  BY <1>2, Working, SoughtParts
<1>4. Len(tabs) \in Nat
  BY Lengths DEF GuestInv
<1> HIDE DEF e
<1>5. Comes(e)
  BY <1>3, Working DEF Comes
<1>6. Sound(e)
  BY <1>3, <1>4, <1>5, Working DEF Sound
<1> QED BY <1>1, <1>3, <1>6 DEF Turn, e

LEMMA FinishSame ==
  ASSUME GuestInv, NEW c \in Consumers, handlers[c].at # "idle", Finish(c, handlers[c].sess),
         handlers[c].sess.state # "NONE"
  PROVE  Turn(c)
<1>1. handlers[c].sess.state = "WAITING_COLLAB_CHOICE" =>
        handlers[c].base.state \in {"NONE", "WAITING_COLLAB_CHOICE"}
  BY Working DEF Comes
<1> QED BY <1>1, Working, FinishTurn

LEMMA SeekSame ==
  ASSUME GuestInv, NEW c \in Consumers, handlers[c].at # "idle", NEW goal \in Goals,
         Seek(c, handlers[c].sess, goal), handlers[c].sess.state # "NONE"
  PROVE  Turn(c)
BY Working, SeekTurn

\* A session that loses some of its context is good, and so is one sent to a
\* state its guest may come to.
LEMMA GoodLess ==
  ASSUME TypeOK, NEW p, NEW s, Good(p, s),
         NEW r, r \in {s, WithoutContext(s), resetSessionAccess(s), [s EXCEPT !.ask = 0], [s EXCEPT !.table = TRUE]}
  PROVE  /\ r \in Session /\ r.state = s.state
         /\ r.tab <= Len(tabs) /\ r.ask <= Len(joins)
         /\ r.portal # 0 => <<p, r.portal, "portal">> \in grants
<1>1. s \in Session /\ Len(tabs) \in Nat /\ Len(joins) \in Nat
  BY DEF Good, TypeOK
<1>2. CASE r = s
  BY <1>1, <1>2 DEF Good
<1>3. CASE r = WithoutContext(s)
  BY <1>1, <1>3, Without DEF Good
<1>4. CASE r = resetSessionAccess(s)
  BY <1>1, <1>4, ResetParts DEF Good
<1>5. CASE r = [s EXCEPT !.ask = 0]
  BY <1>1, <1>5, NoAsk DEF Good
<1>6. CASE r = [s EXCEPT !.table = TRUE]
  BY <1>1, <1>6, AtATable DEF Good
<1> QED BY <1>2, <1>3, <1>4, <1>5, <1>6

LEMMA GoodTo ==
  ASSUME NEW p, NEW r \in Session, NEW state \in States,
         r.tab <= Len(tabs), r.ask <= Len(joins),
         r.portal # 0 => <<p, r.portal, "portal">> \in grants,
         state # "WAITING_COLLAB_CHOICE", p \in Tabs => state \in LinkStates
  PROVE  Good(p, To(r, state))
BY Moved DEF Good

LEMMA FinishTo ==
  ASSUME GuestInv, NEW c \in Consumers, handlers[c].at # "idle", NEW r, NEW state \in States,
         r \in {handlers[c].sess, WithoutContext(handlers[c].sess), resetSessionAccess(handlers[c].sess),
                [handlers[c].sess EXCEPT !.ask = 0], [handlers[c].sess EXCEPT !.table = TRUE]},
         Finish(c, To(r, state)),
         state \notin {"WAITING_COLLAB_CHOICE", "WAITING_JOIN_APPROVAL"},
         handlers[c].who \in Tabs => state \in LinkStates
  PROVE  Turn(c)
<1>1. /\ r \in Session /\ r.tab <= Len(tabs) /\ r.ask <= Len(joins)
      /\ r.portal # 0 => <<handlers[c].who, r.portal, "portal">> \in grants
  BY Working, GoodLess DEF GuestInv
<1>2. Good(handlers[c].who, To(r, state))
  BY <1>1, GoodTo
<1>3. To(r, state).state = state /\ state # "NONE"
  BY <1>1, Moved DEF States
<1> QED BY <1>2, <1>3, FinishTurn

Quiet(c) ==
  /\ handlers[c].at \notin {"idle", "deliver", "insert"} /\ Turn(c)
  /\ UNCHANGED <<tabs, joins, approved, calls, sessions, leaving, crossed, overwritten, undelivered>>
  /\ pending' \in [Guests -> SUBSET {"table", "plain"}]
  /\ grants \subseteq grants' /\ grants' \subseteq Participants \X Tabs \X Ways
  /\ handlers[c].at = "find" /\ handlers'[c].tab # 0 =>
       \E how \in Ways : <<handlers'[c].who, handlers'[c].tab, how>> \in grants'

LEMMA QuietBy ==
  ASSUME GuestInv, NEW c \in Consumers, handlers[c].at \in {"think", "decide", "look"}, Turn(c),
         UNCHANGED <<tabs, joins, approved, calls, sessions, leaving, grants, crossed, overwritten, undelivered>>,
         pending' \in [Guests -> SUBSET {"table", "plain"}] \/ UNCHANGED pending
  PROVE  Quiet(c)
BY DEF Quiet, GuestInv, TypeOK

LEMMA FirstMessageQuiet ==
  ASSUME GuestInv, NEW c \in Consumers, FirstMessage(c)
  PROVE  Quiet(c)
<1> DEFINE s == handlers[c].sess
<1>1. handlers[c].at = "think" /\ s.state = "NONE"
  BY DEF FirstMessage, Thinks
<1>2. handlers[c].who \notin Tabs /\ handlers[c].base.state = "NONE"
  BY <1>1, HasPhone, Working DEF Comes
<1>3. s \in Session /\ Good(handlers[c].who, s)
  BY <1>1, Working
<1>4. ASSUME Finish(c, To(handlers[c].sess, "WELCOME"))
      PROVE  Turn(c)
  <2>1. "WELCOME" \in States
    BY DEF States
  <2> QED BY <1>1, <1>2, <1>4, <2>1, FinishTo
<1>5. ASSUME NEW t \in OpenAtTable,
             Finish(c, [s EXCEPT !.state = "WAITING_COLLAB_CHOICE", !.scanned = TRUE, !.main = t])
      PROVE  Turn(c)
  <2> DEFINE r == [s EXCEPT !.state = "WAITING_COLLAB_CHOICE", !.scanned = TRUE, !.main = t]
  <2>1. t \in 1..Len(tabs) /\ t \in 0..MaxTabs
    BY Bounded DEF OpenAtTable, GuestInv, TypeOK
  <2>2. r \in Session
    BY <1>3, <2>1 DEF Session, States
  <2>3. /\ r.state = "WAITING_COLLAB_CHOICE" /\ r.scanned /\ r.main = t /\ r.tab = s.tab
        /\ r.ask = s.ask /\ r.portal = s.portal
    BY <1>3 DEF Session
  <2> HIDE DEF r
  <2>4. Good(handlers[c].who, r)
    BY <1>2, <1>3, <2>1, <2>2, <2>3 DEF Good
  <2>5. Finish(c, r)
    BY <1>5 DEF r
  <2> QED BY <1>1, <1>2, <2>3, <2>4, <2>5, FinishTurn
<1>6. ASSUME Finish(c, [s EXCEPT !.state = "WAITING_TABLE_CONFIRMATION", !.scanned = TRUE])
      PROVE  Turn(c)
  <2> DEFINE r == [s EXCEPT !.state = "WAITING_TABLE_CONFIRMATION", !.scanned = TRUE]
  <2>1. r \in Session
    BY <1>3 DEF Session, States
  <2>2. /\ r.state = "WAITING_TABLE_CONFIRMATION" /\ r.tab = s.tab
        /\ r.ask = s.ask /\ r.portal = s.portal
    BY <1>3 DEF Session
  <2> HIDE DEF r
  <2>3. Good(handlers[c].who, r)
    BY <1>2, <1>3, <2>1, <2>2 DEF Good
  <2>4. Finish(c, r)
    BY <1>6 DEF r
  <2> QED BY <1>1, <2>2, <2>3, <2>4, FinishTurn
<1>7. Turn(c)
  <2>1. \/ Finish(c, To(handlers[c].sess, "WELCOME"))
        \/ \E t \in OpenAtTable :
             Finish(c, [s EXCEPT !.state = "WAITING_COLLAB_CHOICE", !.scanned = TRUE, !.main = t])
        \/ Finish(c, [s EXCEPT !.state = "WAITING_TABLE_CONFIRMATION", !.scanned = TRUE])
    BY DEF FirstMessage
  <2> QED BY <1>4, <1>5, <1>6, <2>1
<1> QED BY <1>1, <1>7, QuietBy DEF FirstMessage

LEMMA WelcomeMenuQuiet ==
  ASSUME GuestInv, NEW c \in Consumers, handleWelcomeMenu(c)
  PROVE  Quiet(c)
<1>1. handlers[c].at = "think" /\ handlers[c].sess.state = "WELCOME"
  BY DEF handleWelcomeMenu, Thinks
<1>2. handlers[c].who \in Guests /\ handlers[c].who \notin Tabs
  BY <1>1, HasPhone
<1>3. CASE Finish(c, handlers[c].sess) /\ UNCHANGED pending
  BY <1>1, <1>3, FinishSame, QuietBy DEF handleWelcomeMenu
<1>4. CASE Finish(c, To(handlers[c].sess, "WAITING_TAB_CODE")) /\ UNCHANGED pending
  <2>1. Turn(c)
    BY <1>1, <1>2, <1>4, FinishTo DEF States
  <2> QED BY <1>1, <1>4, <2>1, QuietBy DEF handleWelcomeMenu
<1>5. CASE createComandaRequest(c)
  <2>1. \/ Finish(c, To(handlers[c].sess, "WAITING_ADMIN_APPROVAL"))
        \/ Finish(c, To(resetSessionAccess(handlers[c].sess), "WAITING_ADMIN_APPROVAL"))
    BY <1>5 DEF createComandaRequest
  <2>2. Turn(c)
    BY <1>1, <1>2, <2>1, FinishTo DEF States
  <2>3. pending' \in [Guests -> SUBSET {"table", "plain"}]
    BY <1>5 DEF createComandaRequest, GuestInv, TypeOK
  <2> QED BY <1>1, <2>2, <2>3, QuietBy DEF handleWelcomeMenu
<1> QED BY <1>3, <1>4, <1>5 DEF handleWelcomeMenu

LEMMA TableConfirmationQuiet ==
  ASSUME GuestInv, NEW c \in Consumers, handleTableConfirmation(c)
  PROVE  Quiet(c)
<1>1. handlers[c].at = "think" /\ handlers[c].sess.state = "WAITING_TABLE_CONFIRMATION"
  BY DEF handleTableConfirmation, Thinks
<1>2. handlers[c].who \in Guests /\ handlers[c].who \notin Tabs
  BY <1>1, HasPhone
<1>3. \/ Finish(c, To(resetSessionAccess(handlers[c].sess), "WELCOME"))
      \/ Finish(c, To(WithoutContext(handlers[c].sess), "WAITING_ADMIN_APPROVAL"))
      \/ Finish(c, To(handlers[c].sess, "MAIN_MENU"))
      \/ Finish(c, handlers[c].sess)
  BY DEF handleTableConfirmation
<1>4. Turn(c)
  BY <1>1, <1>2, <1>3, FinishTo, FinishSame DEF States
<1>5. pending' \in [Guests -> SUBSET {"table", "plain"}]
  BY DEF handleTableConfirmation, GuestInv, TypeOK
<1> QED BY <1>1, <1>4, <1>5, QuietBy DEF handleTableConfirmation

LEMMA WaitingAdminApprovalQuiet ==
  ASSUME GuestInv, NEW c \in Consumers, handleWaitingAdminApproval(c)
  PROVE  Quiet(c)
<1>1. handlers[c].at = "think" /\ handlers[c].sess.state = "WAITING_ADMIN_APPROVAL"
  BY DEF handleWaitingAdminApproval, Thinks
<1>2. handlers[c].who \in Guests /\ handlers[c].who \notin Tabs
  BY <1>1, HasPhone
<1>3. \/ Finish(c, To(resetSessionAccess(handlers[c].sess), "WELCOME"))
      \/ Finish(c, handlers[c].sess)
  BY DEF handleWaitingAdminApproval
<1>4. Turn(c)
  BY <1>1, <1>2, <1>3, FinishTo, FinishSame DEF States
<1>5. pending' \in [Guests -> SUBSET {"table", "plain"}]
  BY DEF handleWaitingAdminApproval, GuestInv, TypeOK
<1> QED BY <1>1, <1>4, <1>5, QuietBy DEF handleWaitingAdminApproval

LEMMA WaitingJoinApprovalQuiet ==
  ASSUME GuestInv, NEW c \in Consumers, handleWaitingJoinApproval(c)
  PROVE  Quiet(c)
<1>1. handlers[c].at = "think" /\ handlers[c].sess.state = "WAITING_JOIN_APPROVAL"
  BY DEF handleWaitingJoinApproval, Thinks
<1>2. \/ Finish(c, To(WithoutContext(handlers[c].sess), "MAIN_MENU"))
      \/ Finish(c, handlers[c].sess)
  BY DEF handleWaitingJoinApproval
<1>3. Turn(c)
  BY <1>1, <1>2, FinishTo, FinishSame DEF States, LinkStates
<1> QED BY <1>1, <1>3, QuietBy DEF handleWaitingJoinApproval

LEMMA MainMenuQuiet ==
  ASSUME GuestInv, NEW c \in Consumers, handleMainMenuSimplified(c)
  PROVE  Quiet(c)
<1>1. handlers[c].at = "think" /\ handlers[c].sess.state = "MAIN_MENU"
  BY DEF handleMainMenuSimplified, Thinks
<1>2. \/ handlers[c].who \in Guests /\ Finish(c, To(handlers[c].sess, "WAITING_ADMIN_APPROVAL"))
      \/ Seek(c, handlers[c].sess, "guard")
  BY DEF handleMainMenuSimplified
<1>3. Turn(c)
  BY <1>1, <1>2, GuestsApart, FinishTo, SeekSame DEF States, Goals
<1> QED BY <1>1, <1>3, QuietBy DEF handleMainMenuSimplified

LEMMA ViewingTabQuiet ==
  ASSUME GuestInv, NEW c \in Consumers, handleViewingTab(c)
  PROVE  Quiet(c)
<1>1. handlers[c].at = "think" /\ handlers[c].sess.state = "VIEWING_TAB"
  BY DEF handleViewingTab, Thinks
<1>2. \/ Finish(c, To(handlers[c].sess, "MAIN_MENU"))
      \/ \E goal \in {"view", "closing"} : Seek(c, handlers[c].sess, goal)
  BY DEF handleViewingTab
<1>3. Turn(c)
  BY <1>1, <1>2, FinishTo, SeekSame DEF States, LinkStates, Goals
<1> QED BY <1>1, <1>3, QuietBy DEF handleViewingTab

LEMMA ClosingTabQuiet ==
  ASSUME GuestInv, NEW c \in Consumers, handleClosingTab(c)
  PROVE  Quiet(c)
<1>1. handlers[c].at = "think" /\ handlers[c].sess.state = "CLOSING_TAB"
  BY DEF handleClosingTab, Thinks
<1>2. \/ Finish(c, To(handlers[c].sess, "MAIN_MENU"))
      \/ \E goal \in {"pay", "staff", "closing"} : Seek(c, handlers[c].sess, goal)
  BY DEF handleClosingTab
<1>3. Turn(c)
  BY <1>1, <1>2, FinishTo, SeekSame DEF States, LinkStates, Goals
<1> QED BY <1>1, <1>3, QuietBy DEF handleClosingTab

LEMMA ServiceRequestQuiet ==
  ASSUME GuestInv, NEW c \in Consumers, handleServiceRequest(c)
  PROVE  Quiet(c)
<1>1. handlers[c].at = "think" /\ handlers[c].sess.state = "SERVICE_REQUEST"
  BY DEF handleServiceRequest, Thinks
<1>2. Turn(c)
  BY <1>1, SeekSame DEF handleServiceRequest, Goals
<1> QED BY <1>1, <1>2, QuietBy DEF handleServiceRequest

LEMMA DoesQuiet ==
  ASSUME GuestInv, NEW c \in Consumers, NEW goal, NEW states,
         states \subseteq {"VIEWING_TAB", "MAIN_MENU", "SERVICE_REQUEST"}, Does(c, goal, states)
  PROVE  Quiet(c)
<1>1. handlers[c].at = "decide"
  BY DEF Does, Decides
<1>2. PICK state \in states : Finish(c, To(handlers[c].sess, state))
  BY DEF Does
<1>3. state \in States /\ state \in LinkStates /\ state \notin {"WAITING_COLLAB_CHOICE", "WAITING_JOIN_APPROVAL"}
  BY DEF States, LinkStates
<1>4. Turn(c)
  BY <1>1, <1>2, <1>3, FinishTo
<1> QED BY <1>1, <1>4, QuietBy DEF Does

LEMMA BackToWelcome ==
  ASSUME GuestInv, NEW c \in Consumers, handlers[c].at # "idle",
         Finish(c, To(resetSessionAccess(handlers[c].sess), "WELCOME"))
  PROVE  Turn(c)
BY FinishTo DEF States, LinkStates

LEMMA GuardQuiet ==
  ASSUME GuestInv, NEW c \in Consumers, guardMainMenuAccess(c)
  PROVE  Quiet(c)
<1> DEFINE r == IF handlers[c].tab = 0 THEN [handlers[c].sess EXCEPT !.table = TRUE] ELSE handlers[c].sess
<1>1. handlers[c].at = "decide"
  BY DEF guardMainMenuAccess, Decides
<1>2. \/ \E goal \in {"view", "repeat", "portal", "exit", "waiter", "closing"} : Seek(c, r, goal)
      \/ \E state \in {"MAIN_MENU", "SERVICE_REQUEST"} : Finish(c, To(r, state))
      \/ Finish(c, To(resetSessionAccess(handlers[c].sess), "WELCOME"))
  BY DEF guardMainMenuAccess
<1>3. r \in {handlers[c].sess, [handlers[c].sess EXCEPT !.table = TRUE]}
  OBVIOUS
<1>4. /\ Good(handlers[c].who, handlers[c].sess) /\ Comes(handlers[c])
  BY <1>1, Working
<1>5. [handlers[c].sess EXCEPT !.table = TRUE].scanned = handlers[c].sess.scanned
      /\ [handlers[c].sess EXCEPT !.table = TRUE].main = handlers[c].sess.main
  BY <1>1, Working, AtATable
<1> HIDE DEF r
<1>6. Good(handlers[c].who, r) /\ r.state = handlers[c].sess.state
  <2>1. /\ r \in Session /\ r.state = handlers[c].sess.state
        /\ r.tab <= Len(tabs) /\ r.ask <= Len(joins)
        /\ r.portal # 0 => <<handlers[c].who, r.portal, "portal">> \in grants
    BY <1>3, <1>4, GoodLess DEF GuestInv
  <2>2. r.scanned = handlers[c].sess.scanned /\ r.main = handlers[c].sess.main
    BY <1>3, <1>5
  <2> QED BY <1>4, <2>1, <2>2 DEF Good
<1>7. r.state # "NONE"
  BY <1>1, <1>4, <1>6 DEF Comes
<1>8. ASSUME NEW goal \in {"view", "repeat", "portal", "exit", "waiter", "closing"}, Seek(c, r, goal)
      PROVE  Turn(c)
  BY <1>1, <1>6, <1>7, <1>8, SeekTurn DEF Goals
<1>9. ASSUME NEW state \in {"MAIN_MENU", "SERVICE_REQUEST"}, Finish(c, To(r, state))
      PROVE  Turn(c)
  <2>1. state \in States /\ state \in LinkStates /\ state \notin {"WAITING_COLLAB_CHOICE", "WAITING_JOIN_APPROVAL"}
    BY DEF States, LinkStates
  <2> QED BY <1>1, <1>3, <1>9, <2>1, FinishTo
<1>10. Turn(c)
  BY <1>1, <1>2, <1>8, <1>9, BackToWelcome
<1> QED BY <1>1, <1>10, QuietBy DEF guardMainMenuAccess

LEMMA TabCodeAcceptedQuiet ==
  ASSUME GuestInv, NEW c \in Consumers, TabCodeAccepted(c)
  PROVE  Quiet(c)
<1> DEFINE s == handlers[c].sess
           r == [s EXCEPT !.tab = handlers[c].tab, !.table = @ \/ handlers[c].row.table]
<1>1. handlers[c].at = "decide" /\ Finish(c, To(r, "MAIN_MENU"))
  BY DEF TabCodeAccepted, Decides
<1>2. s \in Session /\ Good(handlers[c].who, s) /\ handlers[c].tab \in 0..MaxTabs /\ handlers[c].row \in Tab
  BY <1>1, Working DEF Handler
<1>3. handlers[c].row.table \in BOOLEAN
  BY <1>2 DEF Tab
<1>4. r \in Session
  BY <1>2, <1>3 DEF Session
<1>5. r.tab = handlers[c].tab /\ r.ask = s.ask /\ r.portal = s.portal
  BY <1>2 DEF Session
<1>6. handlers[c].tab <= Len(tabs)
  BY DEF GuestInv, Sound
<1> HIDE DEF r
<1>7. Good(handlers[c].who, To(r, "MAIN_MENU")) /\ To(r, "MAIN_MENU").state = "MAIN_MENU"
  <2>1. s.ask <= Len(joins) /\ (s.portal # 0 => <<handlers[c].who, s.portal, "portal">> \in grants)
    BY <1>2 DEF Good
  <2>2. "MAIN_MENU" \in States /\ "MAIN_MENU" \in LinkStates
    BY DEF States, LinkStates
  <2> QED BY <1>4, <1>5, <1>6, <2>1, <2>2, GoodTo, Moved
<1>8. Turn(c)
  BY <1>1, <1>7, FinishTurn
<1> QED BY <1>1, <1>8, QuietBy DEF TabCodeAccepted

LEMMA ServiceRequestContinuesQuiet ==
  ASSUME GuestInv, NEW c \in Consumers, ServiceRequestContinues(c)
  PROVE  Quiet(c)
<1>1. CASE Does(c, "service", {"MAIN_MENU", "SERVICE_REQUEST"})
  BY <1>1, DoesQuiet
<1>2. CASE ~Does(c, "service", {"MAIN_MENU", "SERVICE_REQUEST"})
  <2>1. handlers[c].at = "decide"
    BY <1>2 DEF ServiceRequestContinues, Decides
  <2>2. Turn(c)
    BY <1>2, <2>1, BackToWelcome DEF ServiceRequestContinues
  <2> QED BY <1>2, <2>1, <2>2, QuietBy DEF ServiceRequestContinues
<1> QED BY <1>1, <1>2

LEMMA StartClosingQuiet ==
  ASSUME GuestInv, NEW c \in Consumers, startClosingTabFlow(c)
  PROVE  Quiet(c)
<1>1. handlers[c].at = "decide"
  BY DEF startClosingTabFlow, Decides
<1>2. \E state \in {"CLOSING_TAB", "MAIN_MENU"} : Finish(c, To(handlers[c].sess, state))
  BY DEF startClosingTabFlow
<1>3. Turn(c)
  BY <1>1, <1>2, FinishTo DEF States, LinkStates
<1> QED BY <1>1, <1>3, QuietBy DEF startClosingTabFlow

\* Who closes owns the tab, as it was read, or holds its link.
LEMMA RequestCloseQuiet ==
  ASSUME GuestInv, NEW c \in Consumers, requestCloseBillByStaff(c)
  PROVE  Quiet(c)
<1>1. handlers[c].at = "decide"
  BY DEF requestCloseBillByStaff, Decides
<1>2. \/ \E state \in {"MAIN_MENU", "SERVICE_REQUEST"} : Finish(c, To(handlers[c].sess, state))
      \/ Seek(c, handlers[c].sess, "waiter")
      \/ MayClose(handlers[c]) /\ handlers' = [handlers EXCEPT ![c].at = "look"]
  BY DEF requestCloseBillByStaff
<1>3. ASSUME MayClose(handlers[c]), handlers' = [handlers EXCEPT ![c].at = "look"]
      PROVE  Turn(c)
  <2> DEFINE h == [handlers[c] EXCEPT !.at = "look"]
  <2>1. handlers' = [handlers EXCEPT ![c] = h]
    BY <1>3
  <2>2. handlers[c] \in Handler /\ Sound(handlers[c])
    BY DEF GuestInv, TypeOK
  <2>3. h \in Handler
    BY <2>2 DEF Handler
  <2>4. /\ h.at = "look" /\ h.who = handlers[c].who /\ h.tab = handlers[c].tab /\ h.row = handlers[c].row
        /\ h.sess = handlers[c].sess /\ h.base = handlers[c].base
    BY <2>2 DEF Handler
  <2> HIDE DEF h
  <2>5. Good(h.who, h.sess) /\ Comes(h)
    BY <1>1, <2>4, Working DEF Comes
  <2>6. h.tab # 0 /\ (h.row.owner = h.who \/ <<h.who, h.tab, "portal">> \in grants)
    BY <1>1, <1>3, <2>4, Working DEF MayClose, canSessionCloseTab, Good
  <2>7. Sound(h)
    BY <1>1, <2>2, <2>3, <2>4, <2>5, <2>6 DEF Sound
  <2> QED BY <2>1, <2>3, <2>4, <2>7 DEF Turn
<1>4. handlers[c].sess.state # "NONE"
  BY <1>1, Working DEF Comes
<1>5. Turn(c)
  BY <1>1, <1>2, <1>3, <1>4, FinishTo, SeekSame DEF States, LinkStates, Goals
<1> QED BY <1>1, <1>5, QuietBy DEF requestCloseBillByStaff

LEMMA TabCodeQuiet ==
  ASSUME GuestInv, NEW c \in Consumers, handleTabCode(c)
  PROVE  Quiet(c)
<1> DEFINE who == handlers[c].who
<1>1. handlers[c].at = "think" /\ handlers[c].sess.state = "WAITING_TAB_CODE"
  BY DEF handleTabCode, Thinks
<1>2. who \in Guests /\ who \in Participants /\ handlers[c] \in Handler /\ Comes(handlers[c])
  BY <1>1, HasPhone, Working
<1>3. CASE UNCHANGED grants /\ Finish(c, handlers[c].sess)
  BY <1>1, <1>3, FinishSame, QuietBy DEF handleTabCode
<1>4. CASE UNCHANGED grants /\ Finish(c, To(resetSessionAccess(handlers[c].sess), "WELCOME"))
  BY <1>1, <1>4, BackToWelcome, QuietBy DEF handleTabCode
<1>5. ASSUME NEW t \in DOMAIN tabs,
             handlers' = [handlers EXCEPT ![c] =
                  [@ EXCEPT !.at = IF tabs[t].owner = Nobody THEN "claim" ELSE "decide",
                            !.goal = "code", !.tab = t,
                            !.row = [tabs[t] EXCEPT !.owner = who]]],
             grants' = IF tabs[t].owner = Nobody THEN Granted(who, t, "blank") ELSE grants
      PROVE  Quiet(c)
  <2> DEFINE at == IF tabs[t].owner = Nobody THEN "claim" ELSE "decide"
             row == [tabs[t] EXCEPT !.owner = who]
             h == [handlers[c] EXCEPT !.at = at, !.goal = "code", !.tab = t, !.row = row]
  <2>1. handlers' = [handlers EXCEPT ![c] = h]
    BY <1>5
  <2>2. tabs[t] \in Tab /\ t \in 1..Len(tabs) /\ t \in Tabs /\ t \in 0..MaxTabs
    BY Bounded DEF GuestInv, TypeOK, Tabs
  <2>3. row \in Tab
    BY <1>2, <2>2 DEF Tab
  <2>4. at \in {"claim", "decide"}
    OBVIOUS
  <2> HIDE DEF at, row
  <2>5. h \in Handler
    BY <1>2, <2>2, <2>3, <2>4 DEF Handler
  <2>6. h.at = at /\ h.who = who /\ h.tab = t /\ h.sess = handlers[c].sess /\ h.base = handlers[c].base
    BY <1>2 DEF Handler
  <2> HIDE DEF h
  <2>7. Good(who, handlers[c].sess) /\ who # Nobody
    BY <1>1, Working
  <2>8. Comes(h)
    BY <1>1, <1>2, <2>4, <2>6 DEF Comes
  <2>9. Sound(h)
    BY <2>2, <2>4, <2>5, <2>6, <2>7, <2>8 DEF Sound
  <2>10. Turn(c)
    BY <2>1, <2>4, <2>5, <2>6, <2>9 DEF Turn
  <2>11. grants \subseteq grants' /\ grants' \subseteq Participants \X Tabs \X Ways
    BY <1>2, <1>5, <2>2 DEF Granted, Ways, GuestInv, TypeOK
  <2> QED BY <1>1, <2>10, <2>11 DEF Quiet, handleTabCode, GuestInv, TypeOK
<1> QED BY <1>3, <1>4, <1>5 DEF handleTabCode

-----------------------------------------------------------------------------
(* The search for the tab.                                                 *)
LEMMA Least ==
  ASSUME NEW T, T \subseteq Nat, T # {}
  PROVE  \E k \in T : \A m \in T : k <= m
<1>1. PICK k \in T : \A m \in T : ~(<<m, k>> \in OpToRel(<, Nat))
  BY NatLessThanWellFounded, WFMin
<1>2. \A m \in T : ~(m < k)
  BY <1>1 DEF OpToRel
<1> QED BY <1>2

LEMMA Greatest ==
  ASSUME NEW n \in Nat, NEW S, S \subseteq 1..n, S # {}
  PROVE  Max(S) \in S /\ \A x \in S : x <= Max(S)
<1> DEFINE T == {n - x : x \in S}
<1>1. T \subseteq Nat /\ T # {}
  OBVIOUS
<1>2. \E k \in T : \A m \in T : k <= m
  <2> HIDE DEF T
  <2> QED BY <1>1, Least
<1>3. PICK k \in T : \A m \in T : k <= m
  BY <1>2
<1>4. PICK y \in S : k = n - y
  BY <1>3
<1>5. \A x \in S : y >= x
  <2> TAKE x \in S
  <2>1. n - x \in T
    OBVIOUS
  <2> HIDE DEF T
  <2>2. n - y <= n - x
    BY <1>3, <1>4, <2>1
  <2> QED BY <2>2
<1>6. \E z \in S : \A x \in S : z >= x
  BY <1>5
<1>7. Max(S) \in S /\ \A x \in S : Max(S) >= x
  BY <1>6 DEF Max
<1> QED BY <1>7

\* What lets a guest do something with a tab.
Entitled(who, t) == tabs[t].owner = Nobody \/ \E how \in Ways : <<who, t, how>> \in grants

LEMMA EntitledOwner ==
  ASSUME OwnersGood, NEW who, NEW t \in DOMAIN tabs, tabs[t].owner \in {who, Nobody}
  PROVE  Entitled(who, t)
BY DEF OwnersGood, Entitled, Ways

LEMMA EntitledShared ==
  ASSUME JoinsGood, NEW who, NEW t, hasApprovedSharedJoinAccess(who, t)
  PROVE  Entitled(who, t)
<1>1. <<who, t, "shared">> \in grants
  BY DEF hasApprovedSharedJoinAccess, JoinsGood
<1> QED BY <1>1 DEF Entitled, Ways

LEMMA EntitledSession ==
  ASSUME GuestInv, NEW who, NEW s, Good(who, s), NEW t \in DOMAIN tabs, canSessionAccessTab(who, s, t)
  PROVE  Entitled(who, t)
<1>1. CASE s.portal = t
  <2>1. t # 0
    BY DEF GuestInv, TypeOK
  <2>2. <<who, t, "portal">> \in grants
    BY <1>1, <2>1 DEF Good
  <2> QED BY <2>2 DEF Entitled, Ways
<1>2. CASE tabs[t].owner \in {who, Nobody}
  BY <1>2, EntitledOwner DEF GuestInv
<1>3. CASE hasApprovedSharedJoinAccess(who, t)
  BY <1>3, EntitledShared DEF GuestInv
<1> QED BY <1>1, <1>2, <1>3 DEF canSessionAccessTab

LEMMA EntitledNear ==
  ASSUME GuestInv, NEW who, NEW t \in findAccessibleOpenTabByTable(who)
  PROVE  t \in DOMAIN tabs /\ Entitled(who, t)
<1>1. /\ t \in OpenAtTable
      /\ tabs[t].owner \in {who, Nobody} \/ hasApprovedSharedJoinAccess(who, t)
  BY DEF findAccessibleOpenTabByTable
<1>2. t \in DOMAIN tabs
  BY <1>1 DEF OpenAtTable
<1> QED BY <1>1, <1>2, EntitledOwner, EntitledShared DEF GuestInv

LEMMA EntitledFound ==
  ASSUME GuestInv, NEW who, NEW s, Good(who, s), NEW t \in findSessionOpenTab(who, s)
  PROVE  t \in DOMAIN tabs /\ Entitled(who, t)
<1> DEFINE mine == {u \in DOMAIN tabs : isCustomerVisibleTab(u) /\ tabs[u].owner = who}
<1>1. \/ t = s.tab /\ s.tab # 0 /\ canSessionAccessTab(who, s, s.tab)
      \/ t \in findAccessibleOpenTabByTable(who)
      \/ mine # {} /\ t = Max(mine)
  BY DEF findSessionOpenTab
<1>2. CASE t = s.tab /\ s.tab # 0 /\ canSessionAccessTab(who, s, s.tab)
  <2>1. s.tab \in 0..MaxTabs /\ s.tab <= Len(tabs)
    BY DEF Good, Session
  <2>2. t \in DOMAIN tabs
    BY <1>2, <2>1, Bounded, Lengths DEF GuestInv, TypeOK
  <2> QED BY <1>2, <2>2, EntitledSession
<1>3. CASE t \in findAccessibleOpenTabByTable(who)
  BY <1>3, EntitledNear
<1>4. CASE mine # {} /\ t = Max(mine)
  <2>1. Len(tabs) \in Nat /\ mine \subseteq 1..Len(tabs)
    BY DEF GuestInv, TypeOK
  <2> HIDE DEF mine
  <2>2. t \in mine
    BY <1>4, <2>1, Greatest
  <2> QED BY <2>2, EntitledOwner DEF mine, GuestInv
<1> QED BY <1>1, <1>2, <1>3, <1>4

LEMMA ReconciledIn ==
  ASSUME NEW who, NEW s \in Session, NEW row \in Tab
  PROVE  Reconciled(who, s, row) \in Tab
<1>1. s.table \in BOOLEAN /\ row.table \in BOOLEAN
  BY DEF Session, Tab
<1>2. (row.table \/ s.table \/ who \in approved) \in BOOLEAN
  BY <1>1
<1>3. (IF row.owner = Nobody /\ who \in Guests THEN who ELSE row.owner) \in Guests \cup {Nobody}
  BY DEF Tab
<1> QED BY <1>2, <1>3 DEF Reconciled, Tab

LEMMA FindQuiet ==
  ASSUME GuestInv, NEW c \in Consumers, Find(c)
  PROVE  Quiet(c)
<1> DEFINE h == handlers[c]
           found == IF AsItIs(h) THEN {h.sess.tab} ELSE findSessionOpenTab(h.who, h.sess)
           at(t) == IF Row(h, t) = tabs[t] THEN "decide" ELSE "claim"
           sess(t) == [h.sess EXCEPT !.tab = t, !.table = @ \/ (Row(h, t).table /\ ~AsItIs(h))]
           new(t) == [h EXCEPT !.at = at(t), !.tab = t, !.row = Row(h, t), !.sess = sess(t)]
<1>1. h.at = "find" /\ h.tab = 0
  BY DEF Find, GuestInv, Sound
<1>2. /\ h \in Handler /\ h.who \in Participants /\ h.who # Nobody /\ h.sess \in Session
      /\ Good(h.who, h.sess) /\ Comes(h) /\ Sound(h)
  BY <1>1, Working DEF GuestInv
<1>3. ASSUME handlers' = [handlers EXCEPT ![c].at = "decide"], UNCHANGED grants
      PROVE  Quiet(c)
  <2> DEFINE n == [h EXCEPT !.at = "decide"]
  <2>1. handlers' = [handlers EXCEPT ![c] = n]
    BY <1>3
  <2>2. n \in Handler
    BY <1>2 DEF Handler
  <2>3. /\ n.at = "decide" /\ n.who = h.who /\ n.tab = 0 /\ n.sess = h.sess /\ n.base = h.base
    BY <1>1, <1>2 DEF Handler
  <2> HIDE DEF n
  <2>4. Comes(n)
    BY <1>1, <1>2, <2>3 DEF Comes
  <2>5. 0 <= Len(tabs)
    BY Lengths DEF GuestInv
  <2>6. Sound(n)
    BY <1>2, <2>2, <2>3, <2>4, <2>5 DEF Sound
  <2>7. Turn(c)
    BY <2>1, <2>2, <2>3, <2>6 DEF Turn
  <2>8. handlers'[c].tab = 0
    BY <2>1, <2>3 DEF GuestInv, TypeOK
  <2> QED BY <1>1, <1>3, <2>7, <2>8 DEF Quiet, Find, GuestInv, TypeOK
<1>4. ASSUME NEW t \in found, handlers' = [handlers EXCEPT ![c] = new(t)],
             grants' = IF tabs[t].owner = Nobody THEN Granted(h.who, t, "blank") ELSE grants
      PROVE  Quiet(c)
  <2>1. t \in DOMAIN tabs /\ Entitled(h.who, t)
    <3>1. CASE AsItIs(h)
      <4>1. t = h.sess.tab /\ t # 0 /\ canSessionAccessTab(h.who, h.sess, t)
        BY <1>4, <3>1 DEF AsItIs
      <4>2. h.sess.tab \in 0..MaxTabs /\ h.sess.tab <= Len(tabs)
        BY <1>2 DEF Good, Session
      <4>3. t \in DOMAIN tabs
        BY <4>1, <4>2, Bounded, Lengths DEF GuestInv, TypeOK
      <4> QED BY <1>2, <4>1, <4>3, EntitledSession
    <3>2. CASE ~AsItIs(h)
      <4>1. t \in findSessionOpenTab(h.who, h.sess)
        BY <1>4, <3>2
      <4> QED BY <1>2, <4>1, EntitledFound
    <3> QED BY <3>1, <3>2
  <2>2. tabs[t] \in Tab /\ t \in 1..Len(tabs) /\ t \in Tabs /\ t \in 0..MaxTabs
    BY <2>1, Bounded DEF GuestInv, TypeOK, Tabs
  <2>3. Row(h, t) \in Tab
    BY <1>2, <2>2, ReconciledIn DEF Row
  <2>4. at(t) \in {"claim", "decide"}
    OBVIOUS
  <2>5. Row(h, t).table \in BOOLEAN /\ h.sess.table \in BOOLEAN
    BY <1>2, <2>3 DEF Tab, Session
  <2> DEFINE b == h.sess.table \/ (Row(h, t).table /\ ~AsItIs(h))
  <2>6. b \in BOOLEAN
    BY <2>5
  <2>7. sess(t) = [h.sess EXCEPT !.tab = t, !.table = b]
    BY DEF Session
  <2> HIDE DEF b
  <2>8. /\ sess(t) \in Session /\ sess(t).tab = t /\ sess(t).state = h.sess.state /\ sess(t).ask = h.sess.ask
        /\ sess(t).portal = h.sess.portal /\ sess(t).scanned = h.sess.scanned /\ sess(t).main = h.sess.main
    BY <1>2, <2>2, <2>6, <2>7 DEF Session
  <2> HIDE DEF at, sess
  <2>9. new(t) \in Handler
    BY <1>2, <2>2, <2>3, <2>4, <2>8 DEF Handler
  <2>10. /\ new(t).at = at(t) /\ new(t).who = h.who /\ new(t).tab = t /\ new(t).sess = sess(t)
         /\ new(t).base = h.base
    BY <1>2 DEF Handler
  <2>11. PICK n : n = new(t)
    OBVIOUS
  <2> HIDE DEF new
  <2>12. /\ n.at \in {"claim", "decide"} /\ n.who = h.who /\ n.tab = t /\ n.sess = sess(t) /\ n.base = h.base
         /\ n \in Handler
    BY <2>4, <2>9, <2>10, <2>11
  <2>13. Good(h.who, sess(t))
    BY <1>2, <2>2, <2>8 DEF Good
  <2>14. Comes(n)
    BY <1>1, <1>2, <2>8, <2>12 DEF Comes
  <2>15. Sound(n)
    BY <1>2, <2>2, <2>12, <2>13, <2>14 DEF Sound
  <2>16. Turn(c)
    BY <1>4, <2>8, <2>11, <2>12, <2>15 DEF Turn
  <2>17. grants \subseteq grants' /\ grants' \subseteq Participants \X Tabs \X Ways
    BY <1>2, <1>4, <2>2 DEF Granted, Ways, GuestInv, TypeOK
  <2>18. handlers'[c].tab = t /\ handlers'[c].who = h.who
    BY <1>4, <2>11, <2>12 DEF GuestInv, TypeOK
  <2>19. \E how \in Ways : <<h.who, t, how>> \in grants'
    BY <1>4, <2>1 DEF Entitled, Granted, Ways
  <2> QED BY <1>1, <2>16, <2>17, <2>18, <2>19 DEF Quiet, Find, GuestInv, TypeOK
<1>5. \A t : Taken(h, t) = new(t)
  BY DEF Taken
<1> HIDE DEF new
<1>6. \/ handlers' = [handlers EXCEPT ![c].at = "decide"] /\ UNCHANGED grants
      \/ \E t \in found :
           /\ handlers' = [handlers EXCEPT ![c] = new(t)]
           /\ grants' = IF tabs[t].owner = Nobody THEN Granted(h.who, t, "blank") ELSE grants
  BY <1>5 DEF Find
<1> QED BY <1>3, <1>4, <1>6 DEF new

-----------------------------------------------------------------------------
(* A quiet step keeps the invariants.                                      *)
LEMMA HandlersKept ==
  ASSUME TypeOK, TypeOK', Grows, \A d \in Consumers : Sound(handlers[d]),
         NEW c \in Consumers, \A d \in Consumers \ {c} : handlers'[d] = handlers[d], Sound(handlers[c])'
  PROVE  \A d \in Consumers : Sound(handlers[d])'
<1> TAKE d \in Consumers
<1>1. CASE d = c
  BY <1>1
<1>2. CASE d # c
  <2>1. PICK h : h = handlers[d]
    OBVIOUS
  <2>2. Sound(h)'
    BY <2>1, SoundGrows
  <2>3. handlers'[d] = h
    BY <1>2, <2>1
  <2> QED BY <2>2, <2>3
<1> QED BY <1>1, <1>2

LEMMA HandlersStay ==
  ASSUME TypeOK, TypeOK', Grows, \A d \in Consumers : Sound(handlers[d]), UNCHANGED handlers
  PROVE  \A d \in Consumers : Sound(handlers[d])'
<1> TAKE d \in Consumers
<1>1. PICK h : h = handlers[d]
  OBVIOUS
<1>2. Sound(h)'
  BY <1>1, SoundGrows
<1> QED BY <1>1, <1>2

LEMMA OwnersKept ==
  ASSUME OwnersGood, UNCHANGED tabs, grants \subseteq grants'
  PROVE  OwnersGood'
BY DEF OwnersGood

LEMMA QuietTurn ==
  ASSUME GuestInv, NEW c \in Consumers, Turn(c)
  PROVE  \E h \in Handler :
           /\ handlers' = [handlers EXCEPT ![c] = h] /\ handlers' \in [Consumers -> Handler]
           /\ handlers'[c] = h /\ \A d \in Consumers \ {c} : handlers'[d] = handlers[d]
           /\ Sound(h) /\ h.who = handlers[c].who /\ h.base = handlers[c].base
           /\ h.sess.state = "WAITING_JOIN_APPROVAL" => handlers[c].sess.state = "WAITING_JOIN_APPROVAL"
           /\ h.at \notin {"idle", "deliver", "insert"}
BY DEF Turn, GuestInv, TypeOK

LEMMA QuietInv ==
  ASSUME GuestInv, NEW c \in Consumers, Quiet(c)
  PROVE  GuestInv'
<1>1. PICK h \in Handler :
           /\ handlers' = [handlers EXCEPT ![c] = h] /\ handlers' \in [Consumers -> Handler]
           /\ handlers'[c] = h /\ \A d \in Consumers \ {c} : handlers'[d] = handlers[d]
           /\ Sound(h)
  BY QuietTurn DEF Quiet
<1>2. TypeOK'
  BY <1>1 DEF Quiet, GuestInv, TypeOK
<1>3. Grows
  BY Lengths DEF Quiet, Grows, GuestInv
<1>4. SessionsGood' /\ JoinsGood'
  BY <1>2, <1>3, SessionsGrow, JoinsGrow DEF Quiet, GuestInv
<1>5. OwnersGood'
  BY OwnersKept DEF Quiet, GuestInv
<1>6. Sound(h)'
  BY <1>1, <1>2, <1>3, SoundGrows DEF GuestInv
<1>7. Sound(handlers[c])'
  BY <1>1, <1>6
<1>8. \A d \in Consumers : Sound(handlers[d])'
  BY <1>1, <1>2, <1>3, <1>7, HandlersKept DEF GuestInv
<1> QED BY <1>2, <1>4, <1>5, <1>8 DEF GuestInv

LEMMA QuietApart ==
  ASSUME GuestInv, NEW c \in Consumers, Quiet(c), NEW d \in Consumers
  PROVE  LET h == handlers'[d]
         IN /\ handlers[d].at = "find" /\ h.tab # 0 => \E how \in Ways : <<h.who, h.tab, how>> \in grants'
            /\ h.at = "look" => Sound(h)
<1>1. PICK h \in Handler :
           /\ handlers'[c] = h /\ \A e \in Consumers \ {c} : handlers'[e] = handlers[e]
           /\ Sound(h)
  BY QuietTurn DEF Quiet
<1>2. CASE d = c
  BY <1>1, <1>2 DEF Quiet
<1>3. CASE d # c
  BY <1>1, <1>3 DEF GuestInv, Sound
<1> QED BY <1>2, <1>3

\* One hand at a time: a call, or a handler about to insert the first.
CalledInv ==
  \A t \in Tabs \ crossed :
    /\ calls[t] <= 1
    /\ \A c, d \in Consumers : Inserts(c, t) => calls[t] = 0 /\ (Inserts(d, t) => c = d)

Waits(s) == s.state = "WAITING_JOIN_APPROVAL"

Answered(g) ==
  /\ \E j \in DOMAIN joins : joins[j].by = g
  /\ joins[Latest(g)].status # "PENDING"

Told(c, g) ==
  /\ handlers[c].at = "deliver" /\ handlers[c].sess.ask = Latest(g)
  /\ joins[handlers[c].sess.ask].by = g

\* The answer is being told, or a failure or a death kept it from the guest's session.
Accounted(g) == Latest(g) \in undelivered \/ \E c \in Consumers : Told(c, g)

\* A session that is past the request to join does not come back to it.
Past(g) ==
  /\ ~Waits(sessions[g])
  /\ \A c \in Consumers : handlers[c].who = g /\ Waits(handlers[c].sess) =>
       sessions[g].state \notin {"NONE", "WAITING_COLLAB_CHOICE", "WAITING_JOIN_APPROVAL"}

Heard(g) ==
  /\ \A c \in Consumers : handlers[c].who = g /\ handlers[c].base.state # "NONE" =>
       sessions[g].state # "NONE"
  /\ Answered(g) => Past(g) \/ Accounted(g)

AnsweredInv == \A g \in Guests \ overwritten : Heard(g)

LEMMA QuietCalled ==
  ASSUME GuestInv, CalledInv, NEW c \in Consumers, Quiet(c)
  PROVE  CalledInv'
<1>1. PICK h \in Handler :
           /\ handlers'[c] = h /\ \A d \in Consumers \ {c} : handlers'[d] = handlers[d]
           /\ h.at # "insert"
  BY QuietTurn DEF Quiet
<1>2. \A d \in Consumers, t \in Tabs : Inserts(d, t)' => Inserts(d, t)
  BY <1>1 DEF Inserts
<1>3. UNCHANGED <<calls, crossed>>
  BY DEF Quiet
<1> QED BY <1>2, <1>3 DEF CalledInv

LEMMA QuietAnswered ==
  ASSUME GuestInv, AnsweredInv, NEW c \in Consumers, Quiet(c)
  PROVE  AnsweredInv'
<1>1. PICK h \in Handler :
           /\ handlers'[c] = h /\ \A d \in Consumers \ {c} : handlers'[d] = handlers[d]
           /\ h.who = handlers[c].who /\ h.base = handlers[c].base /\ h.at # "deliver"
           /\ h.sess.state = "WAITING_JOIN_APPROVAL" => handlers[c].sess.state = "WAITING_JOIN_APPROVAL"
  BY QuietTurn DEF Quiet
<1>2. UNCHANGED <<joins, sessions, overwritten, undelivered>> /\ handlers[c].at # "deliver"
  BY DEF Quiet
<1> SUFFICES ASSUME NEW g \in Guests \ overwritten
             PROVE  Heard(g)'
  BY <1>2 DEF AnsweredInv
<1>3. Heard(g)
  BY DEF AnsweredInv
<1>4. \A d \in Consumers :
        /\ handlers'[d].who = handlers[d].who /\ handlers'[d].base = handlers[d].base
        /\ (Waits(handlers'[d].sess) => Waits(handlers[d].sess))
        /\ (Told(d, g) => handlers'[d] = handlers[d])
  BY <1>1, <1>2 DEF Waits, Told
<1>5. Answered(g)' => Answered(g)
  BY <1>2 DEF Answered, Latest
<1>6. Past(g) => Past(g)'
  BY <1>2, <1>4 DEF Past, Waits
<1>7. Accounted(g) => Accounted(g)'
  BY <1>2, <1>4 DEF Accounted, Told, Latest
<1> QED BY <1>2, <1>3, <1>4, <1>5, <1>6, <1>7 DEF Heard

-----------------------------------------------------------------------------
(* A message begins.                                                       *)
LEMMA HandlerSet ==
  ASSUME TypeOK, NEW c \in Consumers, NEW h \in Handler, handlers' = [handlers EXCEPT ![c] = h]
  PROVE  /\ handlers' \in [Consumers -> Handler] /\ handlers'[c] = h
         /\ \A d \in Consumers \ {c} : handlers'[d] = handlers[d]
BY DEF TypeOK

Begun(who, s, base) == [Idle EXCEPT !.at = "think", !.who = who, !.sess = s, !.base = base]

LEMMA BegunParts ==
  ASSUME NEW who \in Participants, NEW s \in Session, NEW base \in Session
  PROVE  /\ Begun(who, s, base) \in Handler /\ Begun(who, s, base).at = "think"
         /\ Begun(who, s, base).who = who /\ Begun(who, s, base).tab = 0
         /\ Begun(who, s, base).sess = s /\ Begun(who, s, base).base = base
BY IdleParts DEF Begun, Handler

LEMMA BeginWhatsAppInv ==
  ASSUME GuestInv, NEW g \in Guests, BeginWhatsApp(g)
  PROVE  GuestInv'
<1> DEFINE c == "whatsapp"
<1>1. c \in Consumers /\ g \in Participants /\ g # Nobody /\ g \notin Tabs
  BY GuestsApart DEF Consumers, Participants
<1>2. PICK h : h = Begun(g, sessions[g], sessions[g])
  OBVIOUS
<1>3. sessions[g] \in Session /\ Good(g, sessions[g])
  BY <1>1 DEF GuestInv, SessionsGood, Good
<1>4. h \in Handler /\ h.at = "think" /\ h.who = g /\ h.tab = 0 /\ h.sess = sessions[g] /\ h.base = sessions[g]
  BY <1>1, <1>2, <1>3, BegunParts
<1>5. handlers' = [handlers EXCEPT ![c] = h]
  BY <1>2 DEF BeginWhatsApp, Begun
<1>6. /\ handlers' \in [Consumers -> Handler] /\ handlers'[c] = h
      /\ \A d \in Consumers \ {c} : handlers'[d] = handlers[d]
  BY <1>1, <1>4, <1>5, HandlerSet DEF GuestInv
<1>7. TypeOK'
  BY <1>6 DEF BeginWhatsApp, GuestInv, TypeOK
<1>8. Grows
  BY Lengths DEF BeginWhatsApp, Grows, GuestInv
<1>9. Comes(h)
  BY <1>1, <1>4 DEF Comes
<1>10. Sound(h)
  BY <1>1, <1>3, <1>4, <1>9, Lengths DEF Sound, GuestInv
<1>11. Sound(h)'
  BY <1>7, <1>8, <1>10, SoundGrows DEF GuestInv
<1>12. \A d \in Consumers : Sound(handlers[d])'
  BY <1>1, <1>6, <1>7, <1>8, <1>11, HandlersKept DEF GuestInv
<1>13. SessionsGood' /\ JoinsGood' /\ OwnersGood'
  BY <1>7, <1>8, SessionsGrow, JoinsGrow, OwnersKept DEF BeginWhatsApp, GuestInv
<1> QED BY <1>7, <1>12, <1>13 DEF GuestInv

\* The session of a link is the one there was, with the link's tab.
Linked(s, t) == [s EXCEPT !.state = IF @ \in {"NONE", "WELCOME"} THEN "MAIN_MENU" ELSE @,
                          !.tab = t, !.table = @ \/ tabs[t].table, !.portal = t]

LEMMA LinkedParts ==
  ASSUME TypeOK, NEW s \in Session, NEW t \in DOMAIN tabs
  PROVE  /\ Linked(s, t) \in Session
         /\ Linked(s, t).state = IF s.state \in {"NONE", "WELCOME"} THEN "MAIN_MENU" ELSE s.state
         /\ Linked(s, t).tab = t /\ Linked(s, t).portal = t /\ Linked(s, t).ask = s.ask
         /\ Linked(s, t).scanned = s.scanned /\ Linked(s, t).main = s.main
<1>1. tabs[t] \in Tab /\ t \in 0..MaxTabs
  BY Bounded DEF TypeOK
<1>2. tabs[t].table \in BOOLEAN /\ s.table \in BOOLEAN
  BY <1>1 DEF Tab, Session
<1>3. PICK b : b = (s.table \/ tabs[t].table)
  OBVIOUS
<1>4. b \in BOOLEAN
  BY <1>2, <1>3
<1>5. PICK x : x = IF s.state \in {"NONE", "WELCOME"} THEN "MAIN_MENU" ELSE s.state
  OBVIOUS
<1>6. x \in States \cup {"NONE"}
  BY <1>5 DEF Session, States
<1>7. Linked(s, t) = [s EXCEPT !.state = x, !.tab = t, !.table = b, !.portal = t]
  BY <1>3, <1>5 DEF Linked, Session
<1>8. Linked(s, t) \in Session
  BY <1>1, <1>4, <1>6, <1>7 DEF Session
<1> QED BY <1>5, <1>7, <1>8 DEF Session

LEMMA BeginPortalInv ==
  ASSUME GuestInv, NEW t \in DOMAIN tabs, BeginPortal(t)
  PROVE  GuestInv'
<1> DEFINE c == "portal"
<1>1. PICK who : who = IF tabs[t].owner = Nobody THEN t ELSE tabs[t].owner
  OBVIOUS
<1>2. t \in 1..Len(tabs) /\ t \in Tabs /\ tabs[t] \in Tab
  BY Bounded DEF GuestInv, TypeOK, Tabs
<1>3. c \in Consumers /\ who \in Participants /\ who # Nobody
  BY <1>1, <1>2, GuestsApart DEF Consumers, Participants, Tab
<1>4. PICK old : old = sessions[who]
  OBVIOUS
<1>5. old \in Session /\ Good(who, old)
  BY <1>3, <1>4 DEF GuestInv, SessionsGood, Good
<1>6. PICK s : s = Linked(old, t)
  OBVIOUS
<1>7. /\ s \in Session /\ s.state = IF old.state \in {"NONE", "WELCOME"} THEN "MAIN_MENU" ELSE old.state
      /\ s.tab = t /\ s.portal = t /\ s.ask = old.ask /\ s.scanned = old.scanned /\ s.main = old.main
  BY <1>5, <1>6, LinkedParts DEF GuestInv
<1>8. PICK h : h = Begun(who, s, old)
  OBVIOUS
<1>9. h \in Handler /\ h.at = "think" /\ h.who = who /\ h.tab = 0 /\ h.sess = s /\ h.base = old
  BY <1>3, <1>5, <1>7, <1>8, BegunParts
<1>10. handlers' = [handlers EXCEPT ![c] = h] /\ grants' = grants \cup {<<who, t, "portal">>}
  BY <1>1, <1>4, <1>6, <1>8 DEF BeginPortal, Begun, Linked, Granted
<1>11. UNCHANGED <<tabs, joins, pending, approved, calls, sessions, leaving, crossed, overwritten, undelivered>>
  BY DEF BeginPortal
<1>12. /\ handlers' \in [Consumers -> Handler] /\ handlers'[c] = h
       /\ \A d \in Consumers \ {c} : handlers'[d] = handlers[d]
  BY <1>3, <1>9, <1>10, HandlerSet DEF GuestInv
<1>13. grants' \subseteq Participants \X Tabs \X Ways
  BY <1>2, <1>3, <1>10 DEF Ways, GuestInv, TypeOK
<1>14. TypeOK'
  BY <1>11, <1>12, <1>13 DEF GuestInv, TypeOK
<1>15. Grows
  BY <1>10, <1>11, Lengths DEF Grows, GuestInv
<1>16. Comes(h)
  BY <1>5, <1>7, <1>9 DEF Comes, Good
<1>17. Good(who, s)'
  BY <1>2, <1>5, <1>7, <1>10, <1>11 DEF Good, LinkStates
<1>18. Sound(h)'
  BY <1>3, <1>9, <1>11, <1>16, <1>17, Lengths DEF Sound, Comes, GuestInv
<1>19. \A d \in Consumers : Sound(handlers[d])'
  BY <1>3, <1>12, <1>14, <1>15, <1>18, HandlersKept DEF GuestInv
<1>20. SessionsGood' /\ JoinsGood' /\ OwnersGood'
  BY <1>10, <1>11, <1>14, <1>15, SessionsGrow, JoinsGrow, OwnersKept DEF GuestInv
<1> QED BY <1>14, <1>19, <1>20 DEF GuestInv

-----------------------------------------------------------------------------
(* A handler that ends otherwise than quietly.                             *)
LEMMA EndedSound ==
  ASSUME GuestInv, NEW c \in Consumers, handlers[c].at # "idle", NEW s,
         Good(handlers[c].who, s), s.state # "NONE",
         s.state = "WAITING_COLLAB_CHOICE" => handlers[c].base.state \in {"NONE", "WAITING_COLLAB_CHOICE"},
         s.state = "WAITING_JOIN_APPROVAL" =>
           handlers[c].base.state \in {"WAITING_COLLAB_CHOICE", "WAITING_JOIN_APPROVAL"}
  PROVE  Sound(Ended(handlers[c], s))
<1>1. s \in Session
  BY DEF Good
<1>2. PICK e : e = Ended(handlers[c], s)
  OBVIOUS
<1>3. /\ e \in Handler /\ e.at = "save" /\ e.who = handlers[c].who
      /\ e.tab = 0 /\ e.sess = s /\ e.base = handlers[c].base
  BY <1>1, <1>2, Working, EndedParts
<1>4. Len(tabs) \in Nat
  BY Lengths DEF GuestInv
<1>5. Comes(e)
  BY <1>3 DEF Comes
<1>6. Sound(e)
  BY <1>3, <1>4, <1>5, Working DEF Sound
<1> QED BY <1>2, <1>6

LEMMA Finishing ==
  ASSUME GuestInv, NEW c \in Consumers, NEW s \in Session, Finish(c, s)
  PROVE  /\ handlers' \in [Consumers -> Handler] /\ handlers'[c] = Ended(handlers[c], s)
         /\ \A d \in Consumers \ {c} : handlers'[d] = handlers[d]
         /\ handlers'[c].who = handlers[c].who /\ handlers'[c].base = handlers[c].base
         /\ handlers'[c].at = "save" /\ handlers'[c].sess = s /\ handlers'[c].tab = 0
<1>1. handlers' = [handlers EXCEPT ![c] = Ended(handlers[c], s)]
  BY DEF Finish, Ended
<1>2. handlers[c] \in Handler
  BY DEF GuestInv, TypeOK
<1>3. /\ Ended(handlers[c], s) \in Handler /\ Ended(handlers[c], s).at = "save"
      /\ Ended(handlers[c], s).who = handlers[c].who /\ Ended(handlers[c], s).tab = 0
      /\ Ended(handlers[c], s).sess = s /\ Ended(handlers[c], s).base = handlers[c].base
  BY <1>2, EndedParts
<1> QED BY <1>1, <1>3, HandlerSet DEF GuestInv

\* A guest asks to join: the request is stored and its opener made to answer.
Asking(c, type) ==
  [by |-> handlers[c].who, main |-> handlers[c].sess.main, type |-> type, status |-> "PENDING"]

Asks(c, type) ==
  /\ handlers[c].at = "think" /\ handlers[c].sess.state = "WAITING_COLLAB_CHOICE"
  /\ handlers[c].sess.scanned /\ Len(joins) < MaxJoins
  /\ joins' = Append(joins, Asking(c, type))
  /\ \/ UNCHANGED sessions
     \/ \E opener \in Guests :
          /\ sessions[opener] # NoSession
          /\ sessions' = [sessions EXCEPT ![opener] =
               [@ EXCEPT !.state = "WAITING_OPENER_DECISION", !.ask = Len(joins')]]
  /\ Finish(c, To(handlers[c].sess, "WAITING_JOIN_APPROVAL"))
  /\ UNCHANGED <<tabs, pending, approved, calls, leaving, grants, crossed, overwritten, undelivered>>

LEMMA CollabChoiceCases ==
  ASSUME GuestInv, NEW c \in Consumers, handleCollabChoice(c)
  PROVE  Quiet(c) \/ \E type \in {"SHARED", "INDIVIDUAL"} : Asks(c, type)
<1>1. handlers[c].at = "think" /\ handlers[c].sess.state = "WAITING_COLLAB_CHOICE"
  BY DEF handleCollabChoice, Thinks
<1>2. handlers[c].who \notin Tabs
  BY <1>1, HasPhone
<1>3. CASE UNCHANGED <<joins, sessions>>
  <2>1. \/ Finish(c, To(WithoutContext(handlers[c].sess), "MAIN_MENU"))
        \/ Finish(c, To(handlers[c].sess, "MAIN_MENU"))
        \/ Finish(c, handlers[c].sess)
        \/ \E type \in {"SHARED", "INDIVIDUAL"} : Asks(c, type)
    BY <1>1, <1>3 DEF handleCollabChoice, Asks, Asking
  <2>2. CASE Finish(c, handlers[c].sess)
    BY <1>1, <1>3, <2>2, FinishSame, QuietBy DEF handleCollabChoice
  <2>3. CASE Finish(c, To(WithoutContext(handlers[c].sess), "MAIN_MENU"))
    <3>1. Turn(c)
      BY <1>1, <1>2, <2>3, FinishTo DEF States
    <3> QED BY <1>1, <1>3, <3>1, QuietBy DEF handleCollabChoice
  <2>4. CASE Finish(c, To(handlers[c].sess, "MAIN_MENU"))
    <3>1. Turn(c)
      BY <1>1, <1>2, <2>4, FinishTo DEF States
    <3> QED BY <1>1, <1>3, <3>1, QuietBy DEF handleCollabChoice
  <2> QED BY <2>1, <2>2, <2>3, <2>4
<1>4. CASE ~UNCHANGED <<joins, sessions>>
  BY <1>1, <1>4 DEF handleCollabChoice, Asks, Asking
<1> QED BY <1>3, <1>4

LEMMA AsksInv ==
  ASSUME GuestInv, NEW c \in Consumers, NEW type \in {"SHARED", "INDIVIDUAL"}, Asks(c, type)
  PROVE  GuestInv'
<1>1. /\ handlers[c].at = "think" /\ handlers[c].sess.state = "WAITING_COLLAB_CHOICE"
      /\ handlers[c].sess.scanned /\ Len(joins) < MaxJoins /\ joins' = Append(joins, Asking(c, type))
      /\ UNCHANGED <<tabs, pending, approved, calls, leaving, grants, crossed, overwritten, undelivered>>
  BY DEF Asks
<1>2. PICK s : s = To(handlers[c].sess, "WAITING_JOIN_APPROVAL")
  OBVIOUS
<1>3. /\ handlers[c].who \in Guests /\ handlers[c].who \notin Tabs /\ handlers[c].sess \in Session
      /\ Good(handlers[c].who, handlers[c].sess) /\ Comes(handlers[c])
  BY <1>1, HasPhone, Working
<1>4. /\ s \in Session /\ s.state = "WAITING_JOIN_APPROVAL" /\ s.tab = handlers[c].sess.tab
      /\ s.ask = handlers[c].sess.ask /\ s.portal = handlers[c].sess.portal
  BY <1>2, <1>3, Moved DEF States
<1>5. Good(handlers[c].who, s)
  BY <1>3, <1>4 DEF Good
<1>6. handlers[c].base.state = "WAITING_COLLAB_CHOICE"
  BY <1>1, <1>3 DEF Comes
<1>7. Sound(Ended(handlers[c], s))
  BY <1>1, <1>4, <1>5, <1>6, EndedSound
<1>8. /\ handlers' \in [Consumers -> Handler] /\ handlers'[c] = Ended(handlers[c], s)
      /\ \A d \in Consumers \ {c} : handlers'[d] = handlers[d]
  BY <1>2, <1>4, Finishing DEF Asks
<1>9. Asking(c, type) \in Join /\ Asking(c, type).status = "PENDING" /\ Asking(c, type).main <= Len(tabs)
  <2>1. handlers[c].sess.main \in 1..Len(tabs)
    BY <1>1, <1>3 DEF Good
  <2>2. handlers[c].sess.main \in Tabs
    BY <2>1, Bounded, Lengths DEF GuestInv, Tabs
  <2> QED BY <1>3, <2>1, <2>2 DEF Asking, Join
<1>10. /\ joins' \in Seq(Join) /\ Len(joins') = Len(joins) + 1 /\ Len(joins') \in 0..MaxJoins
       /\ \A j \in 1..Len(joins) : joins'[j] = joins[j]
       /\ joins'[Len(joins) + 1] = Asking(c, type)
  BY <1>1, <1>9, Bounded DEF GuestInv, TypeOK
<1>11. Grows
  BY <1>1, <1>10, Lengths DEF Grows, GuestInv
<1>12. PICK x : x = Len(joins')
  OBVIOUS
<1>13. ASSUME NEW o \in Session
       PROVE  LET n == [o EXCEPT !.state = "WAITING_OPENER_DECISION", !.ask = x]
              IN /\ n \in Session /\ n.state = "WAITING_OPENER_DECISION" /\ n.ask = x
                 /\ n.tab = o.tab /\ n.portal = o.portal
  BY <1>10, <1>12 DEF Session, States
<1>14. \/ UNCHANGED sessions
       \/ \E opener \in Guests :
            sessions' = [sessions EXCEPT ![opener] = [@ EXCEPT !.state = "WAITING_OPENER_DECISION", !.ask = x]]
  BY <1>12 DEF Asks
<1>15. sessions \in [Participants -> Session]
  BY DEF GuestInv, TypeOK
<1>16. sessions' \in [Participants -> Session]
  <2>1. ASSUME NEW opener \in Guests,
               sessions' = [sessions EXCEPT ![opener] = [@ EXCEPT !.state = "WAITING_OPENER_DECISION", !.ask = x]]
        PROVE  sessions' \in [Participants -> Session]
    <3>1. PICK n : n = [sessions[opener] EXCEPT !.state = "WAITING_OPENER_DECISION", !.ask = x]
      OBVIOUS
    <3>2. sessions[opener] \in Session
      BY <1>15 DEF Participants
    <3>3. n \in Session
      BY <1>13, <3>1, <3>2
    <3>4. sessions' = [sessions EXCEPT ![opener] = n]
      BY <2>1, <3>1
    <3> QED BY <1>15, <3>3, <3>4
  <2> QED BY <1>14, <1>15, <2>1
<1>17. TypeOK'
  <2>1. undelivered' \subseteq DOMAIN joins'
    BY <1>1, <1>10 DEF GuestInv, TypeOK
  <2> QED BY <1>1, <1>8, <1>10, <1>16, <2>1 DEF GuestInv, TypeOK
<1>18. ASSUME UNCHANGED sessions
       PROVE  SessionsGood'
  BY <1>11, <1>17, <1>18, SessionsGrow DEF GuestInv
<1>19. ASSUME NEW opener \in Guests,
              sessions' = [sessions EXCEPT ![opener] = [@ EXCEPT !.state = "WAITING_OPENER_DECISION", !.ask = x]]
       PROVE  SessionsGood'
  <2>1. opener \in Participants /\ opener \notin Tabs
    BY GuestsApart DEF Participants
  <2>2. PICK o : o = sessions[opener]
    OBVIOUS
  <2>3. o \in Session /\ Good(opener, o)
    BY <1>15, <2>1, <2>2 DEF GuestInv, SessionsGood
  <2>4. /\ sessions'[opener].state = "WAITING_OPENER_DECISION" /\ sessions'[opener].ask = x
        /\ sessions'[opener].tab = o.tab /\ sessions'[opener].portal = o.portal
    BY <1>13, <1>15, <1>19, <2>1, <2>2, <2>3
  <2>5. Good(opener, sessions[opener])'
    BY <1>1, <1>12, <1>16, <2>1, <2>3, <2>4, Lengths, <1>17 DEF Good, TypeOK
  <2>6. \A p \in Participants : p # opener => sessions'[p] = sessions[p]
    BY <1>15, <1>19
  <2>7. ASSUME NEW p \in Participants, p # opener
        PROVE  Good(p, sessions[p])' /\ (sessions'[p].state = "NONE" => sessions'[p] = NoSession)
    <3>1. PICK q : q = sessions[p]
      OBVIOUS
    <3>2. Good(p, q)'
      BY <1>11, <1>17, <3>1, GoodGrows DEF GuestInv, SessionsGood
    <3> QED BY <2>6, <2>7, <3>1, <3>2 DEF GuestInv, SessionsGood
  <2> QED BY <2>4, <2>5, <2>7 DEF SessionsGood
<1>20. SessionsGood'
  BY <1>14, <1>18, <1>19
<1>21. JoinsGood'
  <2>1. DOMAIN joins = 1..Len(joins) /\ DOMAIN joins' = 1..(Len(joins) + 1) /\ Len(joins) \in Nat
    BY <1>10 DEF GuestInv, TypeOK
  <2> QED BY <1>1, <1>9, <1>10, <2>1 DEF GuestInv, JoinsGood
<1>22. OwnersGood'
  BY <1>1, OwnersKept DEF GuestInv
<1>23. Sound(handlers[c])'
  <2>1. PICK e : e = Ended(handlers[c], s)
    OBVIOUS
  <2>2. Sound(e)'
    BY <1>7, <1>11, <1>17, <2>1, SoundGrows DEF GuestInv
  <2> QED BY <1>8, <2>1, <2>2
<1>24. \A d \in Consumers : Sound(handlers[d])'
  BY <1>8, <1>11, <1>17, <1>23, HandlersKept DEF GuestInv
<1> QED BY <1>17, <1>20, <1>21, <1>22, <1>24 DEF GuestInv

LEMMA SessionSet ==
  ASSUME TypeOK, TypeOK', SessionsGood, Grows, NEW p \in Participants, NEW n,
         sessions' = [sessions EXCEPT ![p] = n], Good(p, n)', n.state # "NONE"
  PROVE  SessionsGood'
<1>1. sessions \in [Participants -> Session]
  BY DEF TypeOK
<1>2. sessions'[p] = n /\ \A q \in Participants : q # p => sessions'[q] = sessions[q]
  BY <1>1
<1>3. ASSUME NEW q \in Participants, q # p
      PROVE  Good(q, sessions[q])' /\ (sessions'[q].state = "NONE" => sessions'[q] = NoSession)
  <2>1. PICK o : o = sessions[q]
    OBVIOUS
  <2>2. Good(q, o)'
    BY <2>1, GoodGrows DEF SessionsGood
  <2> QED BY <1>2, <1>3, <2>1, <2>2 DEF SessionsGood
<1>4. PICK m : m = n
  OBVIOUS
<1>5. Good(p, m)' /\ sessions'[p] = m /\ m.state # "NONE"
  BY <1>2, <1>4
<1>6. Good(p, sessions[p])'
  BY <1>5
<1> QED BY <1>3, <1>5, <1>6 DEF SessionsGood

\* The opener answers: the answer is stored, unless that fails, and told unless the
\* guest's session ended or cannot be read.
Answers(c, status) ==
  LET h == handlers[c]
      j == joins[h.sess.ask]
  IN /\ h.at = "think" /\ h.sess.state = "WAITING_OPENER_DECISION"
     /\ h.sess.ask # 0 /\ j.status = "PENDING"
     /\ \/ /\ joins' = [joins EXCEPT ![h.sess.ask].status = status]
           /\ grants' = IF status = "APPROVED" /\ j.type = "SHARED"
                        THEN Granted(j.by, j.main, "shared") ELSE grants
        \/ UNCHANGED <<joins, grants>>
     /\ \/ /\ sessions[j.by] = NoSession /\ UNCHANGED undelivered
           /\ Finish(c, To([h.sess EXCEPT !.ask = 0], "MAIN_MENU"))
        \/ /\ UNCHANGED undelivered
           /\ \E goal \in {"approve", "reject"} : handlers' = [handlers EXCEPT ![c] =
                [@ EXCEPT !.at = "deliver", !.goal = goal, !.peer = sessions[j.by]]]
        \/ /\ undelivered' = undelivered \cup {h.sess.ask}
           /\ Finish(c, To([h.sess EXCEPT !.ask = 0], "MAIN_MENU"))
     /\ UNCHANGED <<tabs, pending, approved, calls, sessions, leaving, crossed, overwritten>>

LEMMA OpenerDecisionCases ==
  ASSUME GuestInv, NEW c \in Consumers, handleOpenerDecision(c)
  PROVE  Quiet(c) \/ \E status \in {"APPROVED", "REJECTED"} : Answers(c, status)
<1>1. handlers[c].at = "think" /\ handlers[c].sess.state = "WAITING_OPENER_DECISION"
  BY DEF handleOpenerDecision, Thinks
<1>2. handlers[c].who \notin Tabs
  BY <1>1, HasPhone
<1>3. \/ UNCHANGED <<joins, grants, undelivered>> /\ Finish(c, To(handlers[c].sess, "MAIN_MENU"))
      \/ UNCHANGED <<joins, grants, undelivered>> /\ Finish(c, To([handlers[c].sess EXCEPT !.ask = 0], "MAIN_MENU"))
      \/ UNCHANGED <<joins, grants, undelivered>> /\ Finish(c, handlers[c].sess)
      \/ \E status \in {"APPROVED", "REJECTED"} : Answers(c, status)
  BY <1>1 DEF handleOpenerDecision, Answers
<1>4. CASE UNCHANGED <<joins, grants, undelivered>> /\ Finish(c, To(handlers[c].sess, "MAIN_MENU"))
  <2>1. Turn(c)
    BY <1>1, <1>2, <1>4, FinishTo DEF States
  <2> QED BY <1>1, <1>4, <2>1, QuietBy DEF handleOpenerDecision
<1>5. CASE UNCHANGED <<joins, grants, undelivered>> /\ Finish(c, To([handlers[c].sess EXCEPT !.ask = 0], "MAIN_MENU"))
  <2>1. Turn(c)
    BY <1>1, <1>2, <1>5, FinishTo DEF States
  <2> QED BY <1>1, <1>5, <2>1, QuietBy DEF handleOpenerDecision
<1>6. CASE UNCHANGED <<joins, grants, undelivered>> /\ Finish(c, handlers[c].sess)
  BY <1>1, <1>6, FinishSame, QuietBy DEF handleOpenerDecision
<1> QED BY <1>3, <1>4, <1>5, <1>6

\* The handler has nothing left to ask.
LEMMA DoneGood ==
  ASSUME GuestInv, NEW c \in Consumers, handlers[c].at # "idle", NEW s,
         s = To([handlers[c].sess EXCEPT !.ask = 0], "MAIN_MENU")
  PROVE  /\ s \in Session /\ s.state = "MAIN_MENU" /\ Good(handlers[c].who, s)
         /\ Sound(Ended(handlers[c], s))
<1>1. PICK r : r = [handlers[c].sess EXCEPT !.ask = 0]
  OBVIOUS
<1>2. /\ r \in Session /\ r.tab <= Len(tabs) /\ r.ask <= Len(joins)
      /\ r.portal # 0 => <<handlers[c].who, r.portal, "portal">> \in grants
  BY <1>1, Working, GoodLess DEF GuestInv
<1>3. "MAIN_MENU" \in States /\ "MAIN_MENU" \in LinkStates
  BY DEF States, LinkStates
<1>4. Good(handlers[c].who, s) /\ s \in Session /\ s.state = "MAIN_MENU"
  BY <1>1, <1>2, <1>3, GoodTo, Moved
<1> QED BY <1>4, EndedSound

LEMMA AnswersInv ==
  ASSUME GuestInv, NEW c \in Consumers, NEW status \in {"APPROVED", "REJECTED"}, Answers(c, status)
  PROVE  GuestInv'
<1>1. PICK a : a = handlers[c].sess.ask
  OBVIOUS
<1>2. PICK j : j = joins[a]
  OBVIOUS
<1>3. /\ handlers[c].at = "think" /\ handlers[c].sess.state = "WAITING_OPENER_DECISION" /\ a # 0
      /\ \/ /\ joins' = [joins EXCEPT ![a].status = status]
            /\ grants' = IF status = "APPROVED" /\ j.type = "SHARED"
                         THEN Granted(j.by, j.main, "shared") ELSE grants
         \/ UNCHANGED <<joins, grants>>
      /\ undelivered' \in {undelivered, undelivered \cup {a}}
      /\ UNCHANGED <<tabs, pending, approved, calls, sessions, leaving, crossed, overwritten>>
  BY <1>1, <1>2 DEF Answers
<1>4. handlers[c].sess \in Session /\ Good(handlers[c].who, handlers[c].sess) /\ handlers[c] \in Handler
      /\ Sound(handlers[c]) /\ Comes(handlers[c]) /\ handlers[c].who # Nobody
  BY <1>3, Working DEF GuestInv
<1>5. a \in 1..Len(joins) /\ Len(joins) \in Nat /\ DOMAIN joins = 1..Len(joins)
  <2>1. a \in 0..MaxJoins /\ a <= Len(joins)
    BY <1>1, <1>4 DEF Good, Session
  <2> QED BY <1>3, <2>1, Bounded DEF GuestInv, TypeOK
<1>6. j \in Join /\ j.main <= Len(tabs)
  <2>1. j \in Join
    BY <1>2, <1>5 DEF GuestInv, TypeOK
  <2>2. j.main <= Len(tabs)
    BY <1>2, <1>5 DEF GuestInv, JoinsGood
  <2> QED BY <2>1, <2>2
<1>7. j.by \in Guests /\ j.by \in Participants /\ j.main \in Tabs
  BY <1>6 DEF Join, Participants
<1>8. PICK n : n = [j EXCEPT !.status = status]
  OBVIOUS
<1>9. n \in Join /\ n.by = j.by /\ n.main = j.main /\ n.type = j.type /\ n.status = status
  BY <1>6, <1>8 DEF Join
<1>10. joins' \in {joins, [joins EXCEPT ![a] = n]}
  BY <1>2, <1>3, <1>8
<1>11. /\ joins' \in Seq(Join) /\ Len(joins') = Len(joins) /\ DOMAIN joins' = DOMAIN joins
       /\ joins'[a] = n \/ joins' = joins
       /\ \A k \in DOMAIN joins : k # a => joins'[k] = joins[k]
  <2>1. CASE joins' = joins
    BY <2>1 DEF GuestInv, TypeOK
  <2>2. CASE joins' = [joins EXCEPT ![a] = n]
    BY <1>5, <1>9, <2>2 DEF GuestInv, TypeOK
  <2> QED BY <1>10, <2>1, <2>2
<1>12. grants \subseteq grants' /\ grants' \subseteq Participants \X Tabs \X Ways
  BY <1>3, <1>7 DEF Granted, Ways, GuestInv, TypeOK
<1>13. Grows
  BY <1>3, <1>11, <1>12, Lengths DEF Grows, GuestInv
<1>14. PICK s : s = To([handlers[c].sess EXCEPT !.ask = 0], "MAIN_MENU")
  OBVIOUS
<1>15. s \in Session /\ Sound(Ended(handlers[c], s))
  BY <1>3, <1>14, DoneGood
<1>16. PICK peer : peer = sessions[j.by]
  OBVIOUS
<1>17. peer \in Session
  BY <1>7, <1>16 DEF GuestInv, TypeOK
<1>18. PICK goal \in {"approve", "reject"} :
         \/ Finish(c, s)
         \/ handlers' = [handlers EXCEPT ![c] =
              [@ EXCEPT !.at = "deliver", !.goal = goal, !.peer = peer]]
  BY <1>1, <1>2, <1>14, <1>16 DEF Answers
<1>181. PICK d : d = [handlers[c] EXCEPT !.at = "deliver", !.goal = goal, !.peer = peer]
  OBVIOUS
<1>19. d \in Handler
  BY <1>4, <1>17, <1>181 DEF Handler
<1>20. /\ d.at = "deliver" /\ d.who = handlers[c].who /\ d.tab = handlers[c].tab
       /\ d.sess = handlers[c].sess /\ d.base = handlers[c].base /\ d.peer = peer
  BY <1>4, <1>181 DEF Handler
<1>21. Comes(d)
  BY <1>3, <1>4, <1>20 DEF Comes
<1>22. Sound(d)
  <2>1. peer.tab <= Len(tabs)
    BY <1>7, <1>16 DEF GuestInv, SessionsGood, Good
  <2> QED BY <1>1, <1>3, <1>4, <1>19, <1>20, <1>21, <2>1 DEF Sound
<1>23. PICK e : e = Ended(handlers[c], s)
  OBVIOUS
<1>24. \/ handlers'[c] = e /\ handlers' \in [Consumers -> Handler]
          /\ \A o \in Consumers \ {c} : handlers'[o] = handlers[o]
       \/ handlers'[c] = d /\ handlers' \in [Consumers -> Handler]
          /\ \A o \in Consumers \ {c} : handlers'[o] = handlers[o]
  <2>1. \/ Finish(c, s)
        \/ handlers' = [handlers EXCEPT ![c] = d]
    BY <1>18, <1>181
  <2>2. CASE Finish(c, s)
    BY <1>15, <1>23, <2>2, Finishing
  <2>3. CASE handlers' = [handlers EXCEPT ![c] = d]
    BY <1>19, <2>3, HandlerSet DEF GuestInv
  <2> QED BY <2>1, <2>2, <2>3
<1>25. TypeOK'
  <2>1. undelivered' \subseteq DOMAIN joins'
    BY <1>3, <1>5, <1>11 DEF GuestInv, TypeOK
  <2> QED BY <1>3, <1>11, <1>12, <1>24, <2>1 DEF GuestInv, TypeOK
<1>26. Sound(e)' /\ Sound(d)'
  BY <1>13, <1>15, <1>22, <1>23, <1>25, SoundGrows DEF GuestInv
<1>27. Sound(handlers[c])'
  BY <1>24, <1>26
<1>28. \A o \in Consumers : Sound(handlers[o])'
  BY <1>13, <1>24, <1>25, <1>27, HandlersKept DEF GuestInv
<1>29. SessionsGood' /\ OwnersGood'
  BY <1>3, <1>12, <1>13, <1>25, SessionsGrow, OwnersKept DEF GuestInv
<1>30. JoinsGood'
  <2> SUFFICES ASSUME NEW k \in DOMAIN joins
               PROVE  /\ joins'[k].main <= Len(tabs')
                      /\ joins'[k].type = "SHARED" /\ joins'[k].status = "APPROVED" =>
                           <<joins'[k].by, joins'[k].main, "shared">> \in grants'
    BY <1>11 DEF JoinsGood
  <2>1. CASE k = a /\ joins' # joins
    <3>1. grants' = IF status = "APPROVED" /\ j.type = "SHARED"
                    THEN Granted(j.by, j.main, "shared") ELSE grants
      BY <1>3, <2>1
    <3> QED BY <1>3, <1>6, <1>9, <1>11, <2>1, <3>1 DEF Granted
  <2>2. CASE k # a \/ joins' = joins
    BY <1>3, <1>11, <1>12, <2>2 DEF GuestInv, JoinsGood
  <2> QED BY <2>1, <2>2
<1> QED BY <1>25, <1>28, <1>29, <1>30 DEF GuestInv

-----------------------------------------------------------------------------
(* Tabs are opened and rows of theirs written.                             *)
LEMMA TabAdded ==
  ASSUME GuestInv, NEW owner \in Guests \cup {Nobody}, NEW atTable \in BOOLEAN, Len(tabs) < MaxTabs,
         tabs' = Append(tabs, NewTab(owner, atTable)), grants \subseteq grants',
         owner # Nobody => <<owner, Len(tabs) + 1, "owner">> \in grants'
  PROVE  /\ tabs' \in Seq(Tab) /\ Len(tabs') = Len(tabs) + 1 /\ Len(tabs') <= MaxTabs
         /\ Len(tabs') \in Tabs /\ OwnersGood'
<1>1. NewTab(owner, atTable) \in Tab /\ NewTab(owner, atTable).owner = owner
  BY DEF NewTab, Tab
<1>2. tabs \in Seq(Tab) /\ Len(tabs) \in Nat /\ DOMAIN tabs = 1..Len(tabs)
  BY DEF GuestInv, TypeOK
<1>3. /\ tabs' \in Seq(Tab) /\ Len(tabs') = Len(tabs) + 1 /\ DOMAIN tabs' = 1..(Len(tabs) + 1)
      /\ \A t \in DOMAIN tabs : tabs'[t] = tabs[t]
      /\ tabs'[Len(tabs) + 1] = NewTab(owner, atTable)
  BY <1>1, <1>2
<1>4. Len(tabs') \in Tabs /\ Len(tabs') <= MaxTabs
  BY <1>2, <1>3, Bounded DEF Tabs
<1>5. ASSUME NEW t \in DOMAIN tabs', tabs'[t].owner # Nobody
      PROVE  <<tabs'[t].owner, t, "owner">> \in grants' \/ <<tabs'[t].owner, t, "stale">> \in grants'
  <2>1. CASE t \in DOMAIN tabs
    BY <1>3, <1>5, <2>1 DEF GuestInv, OwnersGood
  <2>2. CASE t = Len(tabs) + 1
    BY <1>1, <1>3, <1>5, <2>2
  <2>3. t \in DOMAIN tabs \/ t = Len(tabs) + 1
    BY <1>2, <1>3
  <2> QED BY <2>1, <2>2, <2>3
<1> QED BY <1>3, <1>4, <1>5 DEF OwnersGood

LEMMA TabSet ==
  ASSUME TypeOK, NEW t, NEW row \in Tab, tabs' = [tabs EXCEPT ![t] = row]
  PROVE  /\ tabs' \in Seq(Tab) /\ Len(tabs') = Len(tabs) /\ DOMAIN tabs' = DOMAIN tabs
         /\ t \in DOMAIN tabs => tabs'[t] = row
         /\ \A u \in DOMAIN tabs : u # t => tabs'[u] = tabs[u]
<1>1. tabs \in [1..Len(tabs) -> Tab] /\ Len(tabs) \in Nat /\ DOMAIN tabs = 1..Len(tabs)
  BY DEF TypeOK
<1>2. tabs' \in [1..Len(tabs) -> Tab] /\ DOMAIN tabs' = DOMAIN tabs
  BY <1>1
<1>3. tabs' \in Seq(Tab) /\ Len(tabs') = Len(tabs)
  BY <1>1, <1>2
<1> QED BY <1>1, <1>2, <1>3

\* The row is written, as it was read.
Claims(c) ==
  LET h == handlers[c]
      owner == h.row.owner
  IN /\ h.at = "claim"
     /\ tabs' = [tabs EXCEPT ![h.tab] = h.row]
     /\ grants' = IF owner = h.who THEN Granted(owner, h.tab, "owner")
                  ELSE IF owner # Nobody /\ owner # tabs[h.tab].owner
                  THEN Granted(owner, h.tab, "stale")
                  ELSE grants
     /\ handlers' = [handlers EXCEPT ![c].at = "decide"]
     /\ UNCHANGED <<joins, pending, approved, calls, sessions, leaving,
                    crossed, overwritten, undelivered>>

\* The handler only has to decide what to do with the tab.
LEMMA DecideTurn ==
  ASSUME GuestInv, NEW c \in Consumers, handlers[c].at = "claim",
         handlers' = [handlers EXCEPT ![c].at = "decide"]
  PROVE  Turn(c)
<1>1. PICK d : d = [handlers[c] EXCEPT !.at = "decide"]
  OBVIOUS
<1>2. /\ handlers[c] \in Handler /\ Sound(handlers[c]) /\ handlers[c].who # Nobody
      /\ Good(handlers[c].who, handlers[c].sess) /\ Comes(handlers[c])
  BY Working DEF GuestInv
<1>3. /\ d \in Handler /\ d.at = "decide" /\ d.who = handlers[c].who /\ d.tab = handlers[c].tab
      /\ d.sess = handlers[c].sess /\ d.base = handlers[c].base
  BY <1>1, <1>2 DEF Handler
<1>4. Comes(d)
  BY <1>2, <1>3 DEF Comes
<1>5. Sound(d)
  BY <1>2, <1>3, <1>4 DEF Sound
<1>6. handlers' = [handlers EXCEPT ![c] = d]
  BY <1>1
<1> QED BY <1>3, <1>5, <1>6 DEF Turn

LEMMA ClaimCases ==
  ASSUME GuestInv, NEW c \in Consumers, Claim(c)
  PROVE  Quiet(c) \/ Claims(c)
<1>1. handlers[c].at = "claim" /\ Comes(handlers[c])
  BY Working DEF Claim
<1>2. \/ Claims(c)
      \/ /\ Finish(c, handlers[c].sess) \/ handlers' = [handlers EXCEPT ![c].at = "decide"]
         /\ UNCHANGED <<tabs, grants>>
  BY DEF Claim, Claims
<1>3. ASSUME UNCHANGED <<tabs, grants>>, Turn(c)
      PROVE  Quiet(c)
  <2>1. /\ UNCHANGED <<tabs, joins, approved, calls, sessions, leaving, crossed, overwritten, undelivered>>
        /\ UNCHANGED pending
    BY <1>3 DEF Claim
  <2> QED BY <1>1, <1>3, <2>1 DEF Quiet, GuestInv, TypeOK
<1>4. CASE Finish(c, handlers[c].sess) /\ UNCHANGED <<tabs, grants>>
  <2>1. handlers[c].sess.state # "NONE"
    BY <1>1 DEF Comes
  <2> QED BY <1>1, <1>3, <1>4, <2>1, FinishSame
<1>5. CASE handlers' = [handlers EXCEPT ![c].at = "decide"] /\ UNCHANGED <<tabs, grants>>
  BY <1>1, <1>3, <1>5, DecideTurn
<1> QED BY <1>2, <1>4, <1>5

LEMMA ClaimInv ==
  ASSUME GuestInv, NEW c \in Consumers, Claims(c)
  PROVE  GuestInv'
<1>1. PICK t : t = handlers[c].tab
  OBVIOUS
<1>2. PICK row : row = handlers[c].row
  OBVIOUS
<1>3. PICK who : who = handlers[c].who
  OBVIOUS
<1>4. /\ handlers[c].at = "claim" /\ tabs' = [tabs EXCEPT ![t] = row]
      /\ grants' = IF row.owner = who THEN Granted(row.owner, t, "owner")
                   ELSE IF row.owner # Nobody /\ row.owner # tabs[t].owner
                   THEN Granted(row.owner, t, "stale") ELSE grants
      /\ UNCHANGED <<joins, pending, approved, calls, sessions, leaving, crossed, overwritten, undelivered>>
  BY <1>1, <1>2, <1>3 DEF Claims
<1>5. /\ handlers[c] \in Handler /\ Sound(handlers[c]) /\ who \in Participants /\ who # Nobody
      /\ Good(who, handlers[c].sess) /\ Comes(handlers[c])
  BY <1>3, <1>4, Working DEF GuestInv
<1>6. t \in DOMAIN tabs /\ t \in Tabs
  <2>1. t \in 0..MaxTabs /\ t # 0 /\ t <= Len(tabs)
    BY <1>1, <1>4, <1>5 DEF Sound, Handler
  <2> QED BY <2>1, Bounded, Lengths DEF GuestInv, TypeOK, Tabs
<1>7. row \in Tab /\ row.owner \in Guests \cup {Nobody}
  BY <1>2, <1>5 DEF Handler, Tab
<1>8. /\ tabs' \in Seq(Tab) /\ Len(tabs') = Len(tabs) /\ DOMAIN tabs' = DOMAIN tabs /\ tabs'[t] = row
      /\ \A u \in DOMAIN tabs : u # t => tabs'[u] = tabs[u]
  BY <1>4, <1>6, <1>7, TabSet DEF GuestInv
<1>9. grants \subseteq grants' /\ grants' \subseteq Participants \X Tabs \X Ways
  <2>1. row.owner = who \/ row.owner # Nobody => row.owner \in Participants
    BY <1>5, <1>7 DEF Participants
  <2> QED BY <1>4, <1>6, <2>1 DEF Granted, Ways, GuestInv, TypeOK
<1>10. PICK d : d = [handlers[c] EXCEPT !.at = "decide"]
  OBVIOUS
<1>11. /\ d \in Handler /\ d.at = "decide" /\ d.who = who /\ d.tab = t
       /\ d.sess = handlers[c].sess /\ d.base = handlers[c].base
  BY <1>1, <1>3, <1>5, <1>10 DEF Handler
<1>12. Comes(d)
  BY <1>4, <1>5, <1>11 DEF Comes
<1>13. Sound(d)
  BY <1>1, <1>3, <1>5, <1>11, <1>12 DEF Sound
<1>14. /\ handlers' \in [Consumers -> Handler] /\ handlers'[c] = d
       /\ \A o \in Consumers \ {c} : handlers'[o] = handlers[o]
  <2>1. handlers' = [handlers EXCEPT ![c] = d]
    BY <1>10 DEF Claims
  <2> QED BY <1>11, <2>1, HandlerSet DEF GuestInv
<1>15. TypeOK'
  BY <1>4, <1>8, <1>9, <1>14 DEF GuestInv, TypeOK
<1>16. Grows
  BY <1>4, <1>8, <1>9, Lengths DEF Grows, GuestInv
<1>17. Sound(handlers[c])'
  <2>1. Sound(d)'
    BY <1>13, <1>15, <1>16, SoundGrows DEF GuestInv
  <2> QED BY <1>14, <2>1
<1>18. \A o \in Consumers : Sound(handlers[o])'
  BY <1>14, <1>15, <1>16, <1>17, HandlersKept DEF GuestInv
<1>19. SessionsGood' /\ JoinsGood'
  BY <1>4, <1>9, <1>15, <1>16, SessionsGrow, JoinsGrow DEF GuestInv
<1>20. OwnersGood'
  <2> SUFFICES ASSUME NEW u \in DOMAIN tabs, tabs'[u].owner # Nobody
               PROVE  <<tabs'[u].owner, u, "owner">> \in grants' \/ <<tabs'[u].owner, u, "stale">> \in grants'
    BY <1>8 DEF OwnersGood
  <2>1. CASE u # t
    BY <1>8, <1>9, <2>1 DEF GuestInv, OwnersGood
  <2>2. CASE u = t /\ row.owner = tabs[t].owner
    BY <1>6, <1>8, <1>9, <2>2 DEF GuestInv, OwnersGood
  <2>3. CASE u = t /\ row.owner # tabs[t].owner
    BY <1>4, <1>8, <2>3 DEF Granted
  <2> QED BY <2>1, <2>2, <2>3
<1> QED BY <1>15, <1>18, <1>19, <1>20 DEF GuestInv

\* The requester's session is written, or that fails.
Reaches(c, s) ==
  LET ask == handlers[c].sess.ask
  IN \/ Write(joins[ask].by, s, handlers[c].peer) /\ undelivered' = undelivered \ {ask}
     \/ UNCHANGED <<sessions, overwritten>> /\ undelivered' = undelivered \cup {ask}

\* What the guest's session becomes.
LEMMA DeliverCases ==
  ASSUME GuestInv, NEW c \in Consumers, Deliver(c),
         NEW j, j = joins[handlers[c].sess.ask], j \in Join, j.main <= Len(tabs)
  PROVE  LET w == WithoutContext(handlers[c].peer)
         IN \/ /\ \E t \in 0..MaxTabs :
                    t <= Len(tabs') /\ Reaches(c, To([w EXCEPT !.tab = t, !.table = TRUE], "MAIN_MENU"))
               /\ \/ UNCHANGED <<tabs, grants>>
                  \/ /\ Len(tabs) < MaxTabs /\ tabs' = Append(tabs, NewTab(j.by, TRUE))
                     /\ grants' = Granted(j.by, Len(tabs'), "owner")
            \/ Reaches(c, To(w, "MAIN_MENU")) /\ UNCHANGED <<tabs, grants>>
<1>1. PICK w : w = WithoutContext(handlers[c].peer)
  OBVIOUS
<1>2. \/ /\ Reaches(c, To([w EXCEPT !.tab = j.main, !.table = TRUE], "MAIN_MENU"))
         /\ UNCHANGED <<tabs, grants>>
      \/ /\ Len(tabs) < MaxTabs /\ tabs' = Append(tabs, NewTab(j.by, TRUE))
         /\ grants' = Granted(j.by, Len(tabs'), "owner")
         /\ Reaches(c, To([w EXCEPT !.tab = Len(tabs'), !.table = TRUE], "MAIN_MENU"))
      \/ /\ Reaches(c, To([w EXCEPT !.tab = 0, !.table = TRUE], "MAIN_MENU"))
         /\ UNCHANGED <<tabs, grants>>
      \/ Reaches(c, To(w, "MAIN_MENU")) /\ UNCHANGED <<tabs, grants>>
  BY <1>1 DEF Deliver, Reaches
<1>3. j.main \in 0..MaxTabs /\ 0 \in 0..MaxTabs /\ j.by \in Guests
  BY Bounded DEF Join, Tabs
<1>4. CASE /\ Len(tabs) < MaxTabs /\ tabs' = Append(tabs, NewTab(j.by, TRUE))
           /\ grants' = Granted(j.by, Len(tabs'), "owner")
           /\ Reaches(c, To([w EXCEPT !.tab = Len(tabs'), !.table = TRUE], "MAIN_MENU"))
  <2>1. NewTab(j.by, TRUE) \in Tab
    BY <1>3 DEF NewTab, Tab
  <2>2. Len(tabs') \in 0..MaxTabs /\ Len(tabs') <= Len(tabs')
    BY <1>4, <2>1, Bounded DEF GuestInv, TypeOK
  <2> QED BY <1>1, <1>4, <2>2
<1>5. 0 <= Len(tabs)
  BY Lengths DEF GuestInv
<1>6. CASE /\ Reaches(c, To([w EXCEPT !.tab = j.main, !.table = TRUE], "MAIN_MENU"))
           /\ UNCHANGED <<tabs, grants>>
  BY <1>1, <1>3, <1>6
<1>7. CASE /\ Reaches(c, To([w EXCEPT !.tab = 0, !.table = TRUE], "MAIN_MENU"))
           /\ UNCHANGED <<tabs, grants>>
  BY <1>1, <1>3, <1>5, <1>7
<1> QED BY <1>1, <1>2, <1>4, <1>6, <1>7

LEMMA DeliverInv ==
  ASSUME GuestInv, NEW c \in Consumers, Deliver(c)
  PROVE  GuestInv'
<1>1. PICK a : a = handlers[c].sess.ask
  OBVIOUS
<1>2. PICK j : j = joins[a]
  OBVIOUS
<1>3. PICK s : s = To([handlers[c].sess EXCEPT !.ask = 0], "MAIN_MENU")
  OBVIOUS
<1>4. PICK peer : peer = handlers[c].peer
  OBVIOUS
<1>5. /\ handlers[c].at = "deliver" /\ Finish(c, s)
      /\ UNCHANGED <<joins, pending, approved, calls, leaving, crossed>>
  BY <1>3 DEF Deliver
<1>6. handlers[c].sess \in Session /\ Good(handlers[c].who, handlers[c].sess) /\ Sound(handlers[c]) /\ peer \in Session
  BY <1>4, <1>5, Working DEF GuestInv, Handler
<1>7. a \in 1..Len(joins) /\ Len(joins) \in Nat /\ DOMAIN joins = 1..Len(joins)
  <2>1. a \in 0..MaxJoins /\ a <= Len(joins) /\ a # 0
    BY <1>1, <1>5, <1>6 DEF Good, Session, Sound
  <2> QED BY <2>1, Bounded DEF GuestInv, TypeOK
<1>8. j \in Join /\ j.main <= Len(tabs)
  <2>1. j \in Join
    BY <1>2, <1>7 DEF GuestInv, TypeOK
  <2>2. j.main <= Len(tabs)
    BY <1>2, <1>7 DEF GuestInv, JoinsGood
  <2> QED BY <2>1, <2>2
<1>9. j.by \in Guests /\ j.by \in Participants /\ j.by \notin Tabs /\ j.main \in 0..MaxTabs
  BY <1>8, GuestsApart, Bounded DEF Join, Participants, Tabs
<1>10. s \in Session /\ Sound(Ended(handlers[c], s))
  BY <1>3, <1>5, DoneGood
<1>11. /\ handlers' \in [Consumers -> Handler] /\ handlers'[c] = Ended(handlers[c], s)
       /\ \A o \in Consumers \ {c} : handlers'[o] = handlers[o]
  BY <1>5, <1>10, Finishing
<1>12. \/ /\ \E t \in 0..MaxTabs :
                /\ t <= Len(tabs')
                /\ Reaches(c, To([WithoutContext(peer) EXCEPT !.tab = t, !.table = TRUE], "MAIN_MENU"))
          /\ \/ UNCHANGED <<tabs, grants>>
             \/ /\ Len(tabs) < MaxTabs /\ tabs' = Append(tabs, NewTab(j.by, TRUE))
                /\ grants' = Granted(j.by, Len(tabs'), "owner")
       \/ Reaches(c, To(WithoutContext(peer), "MAIN_MENU")) /\ UNCHANGED <<tabs, grants>>
  BY <1>1, <1>2, <1>4, <1>8, DeliverCases
<1>13. /\ tabs' \in Seq(Tab) /\ Len(tabs') <= MaxTabs /\ Len(tabs) <= Len(tabs') /\ OwnersGood'
       /\ grants \subseteq grants' /\ grants' \subseteq Participants \X Tabs \X Ways
  <2>1. CASE UNCHANGED <<tabs, grants>>
    BY <2>1, Lengths, OwnersKept DEF GuestInv, TypeOK
  <2>2. CASE /\ Len(tabs) < MaxTabs /\ tabs' = Append(tabs, NewTab(j.by, TRUE))
             /\ grants' = Granted(j.by, Len(tabs'), "owner")
    <3>1. grants \subseteq grants' /\ <<j.by, Len(tabs'), "owner">> \in grants'
      BY <2>2 DEF Granted
    <3>2. Len(tabs') = Len(tabs) + 1
      BY <2>2 DEF GuestInv, TypeOK
    <3>3. /\ tabs' \in Seq(Tab) /\ Len(tabs') <= MaxTabs /\ Len(tabs') \in Tabs /\ OwnersGood'
      BY <1>9, <2>2, <3>1, <3>2, TabAdded
    <3>4. grants' \subseteq Participants \X Tabs \X Ways
      BY <1>9, <2>2, <3>3 DEF Granted, Ways, GuestInv, TypeOK
    <3> QED BY <3>1, <3>2, <3>3, <3>4, Lengths DEF GuestInv
  <2> QED BY <1>12, <2>1, <2>2
<1>14. \/ UNCHANGED <<sessions, overwritten>>
       \/ \E n \in Session :
            /\ sessions' = [sessions EXCEPT ![j.by] = n] /\ n.state = "MAIN_MENU"
            /\ n.tab <= Len(tabs') /\ n.ask = 0 /\ n.portal = 0
            /\ overwritten' = IF sessions[j.by] = peer THEN overwritten ELSE overwritten \cup {j.by}
  <2>1. PICK w : w = WithoutContext(peer)
    OBVIOUS
  <2>2. w \in Session /\ w.ask = 0 /\ w.portal = 0 /\ w.tab = peer.tab
    BY <1>6, <2>1, Without
  <2>3. "MAIN_MENU" \in States
    BY DEF States
  <2>4. CASE \E t \in 0..MaxTabs :
               /\ t <= Len(tabs')
               /\ Write(j.by, To([w EXCEPT !.tab = t, !.table = TRUE], "MAIN_MENU"), peer)
    <3>1. PICK t \in 0..MaxTabs :
               /\ t <= Len(tabs')
               /\ Write(j.by, To([w EXCEPT !.tab = t, !.table = TRUE], "MAIN_MENU"), peer)
      BY <2>4
    <3>2. PICK v : v = [w EXCEPT !.tab = t, !.table = TRUE]
      OBVIOUS
    <3>3. v \in Session /\ v.ask = 0 /\ v.portal = 0 /\ v.tab = t
      BY <2>2, <3>1, <3>2 DEF Session
    <3>4. PICK n : n = To(v, "MAIN_MENU")
      OBVIOUS
    <3>5. n \in Session /\ n.state = "MAIN_MENU" /\ n.tab = t /\ n.ask = 0 /\ n.portal = 0
      BY <2>3, <3>3, <3>4, Moved
    <3>6. sessions' = [sessions EXCEPT ![j.by] = n]
      BY <3>1, <3>2, <3>4 DEF Write
    <3> QED BY <3>1, <3>5, <3>6 DEF Write
  <2>5. CASE Write(j.by, To(w, "MAIN_MENU"), peer) /\ UNCHANGED <<tabs, grants>>
    <3>1. w.tab <= Len(tabs')
      BY <1>4, <1>5, <1>6, <2>2, <2>5 DEF Sound
    <3>2. PICK n : n = To(w, "MAIN_MENU")
      OBVIOUS
    <3>3. n \in Session /\ n.state = "MAIN_MENU" /\ n.tab = w.tab /\ n.ask = 0 /\ n.portal = 0
      BY <2>2, <2>3, <3>2, Moved
    <3>4. sessions' = [sessions EXCEPT ![j.by] = n]
      BY <2>5, <3>2 DEF Write
    <3> QED BY <2>5, <3>1, <3>3, <3>4 DEF Write
  <2>6. \A x : Reaches(c, x) => Write(j.by, x, peer) \/ UNCHANGED <<sessions, overwritten>>
    BY <1>1, <1>2, <1>4 DEF Reaches
  <2> QED BY <1>12, <2>1, <2>4, <2>5, <2>6
<1>15. sessions' \in [Participants -> Session] /\ overwritten' \subseteq Participants
  BY <1>9, <1>14 DEF GuestInv, TypeOK
<1>16. TypeOK'
  <2>1. undelivered' \subseteq DOMAIN joins
    BY <1>1, <1>7, <1>12 DEF Reaches, GuestInv, TypeOK
  <2> QED BY <1>5, <1>11, <1>13, <1>15, <2>1 DEF GuestInv, TypeOK
<1>17. Grows
  BY <1>5, <1>13, Lengths DEF Grows, GuestInv
<1>18. ASSUME NEW n \in Session, sessions' = [sessions EXCEPT ![j.by] = n], n.state = "MAIN_MENU",
              n.tab <= Len(tabs'), n.ask = 0, n.portal = 0
       PROVE  SessionsGood'
  <2>1. Good(j.by, n)'
    BY <1>5, <1>7, <1>9, <1>18 DEF Good
  <2> QED BY <1>9, <1>16, <1>17, <1>18, <2>1, SessionSet DEF GuestInv
<1>19. SessionsGood'
  BY <1>14, <1>16, <1>17, <1>18, SessionsGrow DEF GuestInv
<1>20. JoinsGood'
  BY <1>5, <1>13, <1>16, <1>17, JoinsGrow DEF GuestInv
<1>21. Sound(handlers[c])'
  <2>1. PICK e : e = Ended(handlers[c], s)
    OBVIOUS
  <2>2. Sound(e)'
    BY <1>10, <1>16, <1>17, <2>1, SoundGrows DEF GuestInv
  <2> QED BY <1>11, <2>1, <2>2
<1>22. \A o \in Consumers : Sound(handlers[o])'
  BY <1>11, <1>16, <1>17, <1>21, HandlersKept DEF GuestInv
<1> QED BY <1>13, <1>16, <1>19, <1>20, <1>22 DEF GuestInv

-----------------------------------------------------------------------------
(* The staff are called, and the session is written.                       *)
\* Nobody has called for the tab: this handler will.
Looks(c) ==
  LET t == handlers[c].tab
  IN /\ handlers[c].at = "look" /\ calls[t] = 0
     /\ handlers' = [handlers EXCEPT ![c].at = "insert"]
     /\ crossed' = IF \E d \in Consumers \ {c} : Inserts(d, t) THEN crossed \cup {t} ELSE crossed
     /\ UNCHANGED <<tabs, joins, pending, approved, calls, sessions, leaving, grants, overwritten, undelivered>>

LEMMA LookForCallCases ==
  ASSUME GuestInv, NEW c \in Consumers, LookForCall(c)
  PROVE  Quiet(c) \/ Looks(c)
<1>1. handlers[c].at = "look"
  BY DEF LookForCall
<1>2. \/ Looks(c)
      \/ Finish(c, To(handlers[c].sess, "MAIN_MENU")) /\ UNCHANGED crossed
  BY DEF LookForCall, Looks
<1>3. CASE Finish(c, To(handlers[c].sess, "MAIN_MENU")) /\ UNCHANGED crossed
  <2>1. Turn(c)
    BY <1>1, <1>3, FinishTo DEF States, LinkStates
  <2> QED BY <1>1, <1>3, <2>1, QuietBy DEF LookForCall
<1> QED BY <1>2, <1>3

\* A step of a handler that leaves tabs, requests and sessions alone.
LEMMA HandlerInv ==
  ASSUME GuestInv, NEW c \in Consumers, NEW h \in Handler, Sound(h), handlers' = [handlers EXCEPT ![c] = h],
         UNCHANGED <<tabs, joins, pending, approved, sessions, leaving, grants, overwritten>>,
         calls' \in [Tabs -> Nat], crossed' \subseteq Tabs, undelivered' \subseteq DOMAIN joins
  PROVE  GuestInv'
<1>1. /\ handlers' \in [Consumers -> Handler] /\ handlers'[c] = h
      /\ \A d \in Consumers \ {c} : handlers'[d] = handlers[d]
  BY HandlerSet DEF GuestInv
<1>2. TypeOK'
  BY <1>1 DEF GuestInv, TypeOK
<1>3. Grows
  BY Lengths DEF Grows, GuestInv
<1>4. Sound(h)'
  BY <1>2, <1>3, SoundGrows DEF GuestInv
<1>5. Sound(handlers[c])'
  BY <1>1, <1>4
<1>6. \A d \in Consumers : Sound(handlers[d])'
  BY <1>1, <1>2, <1>3, <1>5, HandlersKept DEF GuestInv
<1>7. SessionsGood' /\ JoinsGood' /\ OwnersGood'
  BY <1>2, <1>3, SessionsGrow, JoinsGrow, OwnersKept DEF GuestInv
<1> QED BY <1>2, <1>6, <1>7 DEF GuestInv

LEMMA LooksInv ==
  ASSUME GuestInv, NEW c \in Consumers, Looks(c)
  PROVE  GuestInv'
<1>1. handlers[c].at = "look" /\ UNCHANGED <<tabs, joins, pending, approved, calls, sessions, leaving, grants, overwritten, undelivered>>
  BY DEF Looks
<1>2. /\ handlers[c] \in Handler /\ Sound(handlers[c]) /\ handlers[c].who # Nobody
      /\ Good(handlers[c].who, handlers[c].sess) /\ Comes(handlers[c])
  BY <1>1, Working DEF GuestInv
<1>3. PICK d : d = [handlers[c] EXCEPT !.at = "insert"]
  OBVIOUS
<1>4. /\ d \in Handler /\ d.at = "insert" /\ d.who = handlers[c].who /\ d.tab = handlers[c].tab
      /\ d.sess = handlers[c].sess /\ d.base = handlers[c].base
  BY <1>2, <1>3 DEF Handler
<1>5. Comes(d)
  BY <1>1, <1>2, <1>4 DEF Comes
<1>6. Sound(d)
  BY <1>1, <1>2, <1>4, <1>5 DEF Sound
<1>7. handlers[c].tab \in Tabs
  BY <1>1, <1>2, Bounded DEF Sound, Handler, Tabs
<1>8. calls' \in [Tabs -> Nat] /\ crossed' \subseteq Tabs /\ undelivered' \subseteq DOMAIN joins
  BY <1>7 DEF Looks, GuestInv, TypeOK
<1>9. handlers' = [handlers EXCEPT ![c] = d]
  BY <1>3 DEF Looks
<1> QED BY <1>1, <1>4, <1>6, <1>8, <1>9, HandlerInv

LEMMA InsertCallInv ==
  ASSUME GuestInv, NEW c \in Consumers, InsertCall(c)
  PROVE  GuestInv'
<1>1. /\ handlers[c].at = "insert" /\ Finish(c, To(handlers[c].sess, "MAIN_MENU"))
      /\ UNCHANGED <<tabs, joins, pending, approved, sessions, leaving, grants, crossed, overwritten, undelivered>>
  BY DEF InsertCall
<1>2. Turn(c)
  BY <1>1, FinishTo DEF States, LinkStates
<1>3. PICK h \in Handler : handlers' = [handlers EXCEPT ![c] = h] /\ Sound(h)
  BY <1>2 DEF Turn
<1>4. handlers[c].tab \in Tabs
  <2>1. Sound(handlers[c])
    BY DEF GuestInv
  <2> QED BY <1>1, <2>1, Bounded DEF Sound, Handler, Tabs
<1>5. calls' = [calls EXCEPT ![handlers[c].tab] = calls[handlers[c].tab] + 1] \/ UNCHANGED calls
  BY DEF InsertCall
<1>6. calls' \in [Tabs -> Nat] /\ crossed' \subseteq Tabs /\ undelivered' \subseteq DOMAIN joins
  BY <1>1, <1>4, <1>5 DEF GuestInv, TypeOK
<1> QED BY <1>1, <1>3, <1>6, HandlerInv

LEMMA IdleSound == GuestInv => Sound(Idle)
<1> SUFFICES ASSUME GuestInv
             PROVE  Sound(Idle)
  OBVIOUS
<1>1. PICK e : e = Idle
  OBVIOUS
<1>2. e \in Handler /\ e.at = "idle" /\ e.who = Nobody /\ e.tab = 0
  BY <1>1, IdleParts
<1>3. Sound(e)
  BY <1>2, Lengths DEF Sound, GuestInv
<1> QED BY <1>1, <1>3

LEMMA StopsInv ==
  ASSUME GuestInv, NEW c \in Consumers, Stops(c)
  PROVE  GuestInv'
<1>1. /\ handlers[c].at # "idle" /\ handlers' = [handlers EXCEPT ![c] = Idle]
      /\ UNCHANGED <<tabs, joins, pending, approved, calls, sessions, leaving, grants, crossed, overwritten>>
  BY DEF Stops
<1>2. undelivered' \subseteq DOMAIN joins
  <2>1. handlers[c].sess \in Session /\ Good(handlers[c].who, handlers[c].sess) /\ Sound(handlers[c])
    BY <1>1, Working DEF GuestInv
  <2>2. handlers[c].at = "deliver" => handlers[c].sess.ask \in DOMAIN joins
    BY <2>1, Bounded DEF Good, Session, Sound, GuestInv, TypeOK
  <2> QED BY <2>2 DEF Stops, GuestInv, TypeOK
<1>3. calls' \in [Tabs -> Nat] /\ crossed' \subseteq Tabs
  BY <1>1 DEF GuestInv, TypeOK
<1> QED BY <1>1, <1>2, <1>3, IdleParts, IdleSound, HandlerInv

LEMMA SaveInv ==
  ASSUME GuestInv, NEW c \in Consumers, Save(c)
  PROVE  GuestInv'
<1>1. PICK who : who = handlers[c].who
  OBVIOUS
<1>2. PICK s : s = handlers[c].sess
  OBVIOUS
<1>3. /\ handlers[c].at = "save" /\ handlers' = [handlers EXCEPT ![c] = Idle]
      /\ sessions' = [sessions EXCEPT ![who] = s]
      /\ overwritten' = IF sessions[who] = handlers[c].base THEN overwritten ELSE overwritten \cup {who}
      /\ UNCHANGED <<tabs, joins, pending, approved, calls, leaving, grants, crossed, undelivered>>
  BY <1>1, <1>2 DEF Save, Write
<1>4. who \in Participants /\ s \in Session /\ Good(who, s) /\ s.state # "NONE"
  BY <1>1, <1>2, <1>3, Working DEF Comes
<1>5. /\ handlers' \in [Consumers -> Handler] /\ handlers'[c] = Idle
      /\ \A d \in Consumers \ {c} : handlers'[d] = handlers[d]
  BY <1>3, IdleParts, HandlerSet DEF GuestInv
<1>6. sessions' \in [Participants -> Session] /\ overwritten' \subseteq Participants
  BY <1>3, <1>4 DEF GuestInv, TypeOK
<1>7. TypeOK'
  BY <1>3, <1>5, <1>6 DEF GuestInv, TypeOK
<1>8. Grows
  BY <1>3, Lengths DEF Grows, GuestInv
<1>9. Good(who, s)'
  BY <1>4, <1>7, <1>8, GoodGrows DEF GuestInv
<1>10. SessionsGood'
  BY <1>3, <1>4, <1>7, <1>8, <1>9, SessionSet DEF GuestInv
<1>11. JoinsGood' /\ OwnersGood'
  BY <1>3, <1>7, <1>8, JoinsGrow, OwnersKept DEF GuestInv
<1>12. Sound(handlers[c])'
  <2>1. PICK e : e = Idle
    OBVIOUS
  <2>2. e \in Handler /\ e.at = "idle" /\ e.who = Nobody /\ e.tab = 0
    BY <2>1, IdleParts
  <2>3. Sound(e)'
    BY <1>7, <2>2 DEF Sound, TypeOK
  <2> QED BY <1>5, <2>1, <2>3
<1>13. \A d \in Consumers : Sound(handlers[d])'
  BY <1>5, <1>7, <1>8, <1>12, HandlersKept DEF GuestInv
<1> QED BY <1>7, <1>10, <1>11, <1>13 DEF GuestInv

-----------------------------------------------------------------------------
(* The staff.                                                              *)
LEMMA StaffInv ==
  ASSUME GuestInv, TypeOK', UNCHANGED <<joins, handlers>>, Len(tabs) <= Len(tabs'),
         \A p, t : <<p, t, "portal">> \in grants => <<p, t, "portal">> \in grants',
         \A p, t : <<p, t, "shared">> \in grants => <<p, t, "shared">> \in grants',
         OwnersGood', SessionsGood'
  PROVE  GuestInv'
<1>1. Grows
  BY Lengths DEF Grows, GuestInv
<1>2. \A d \in Consumers : Sound(handlers[d])'
  BY <1>1, HandlersStay DEF GuestInv
<1>3. JoinsGood'
  BY <1>1, JoinsGrow DEF GuestInv
<1> QED BY <1>2, <1>3 DEF GuestInv

LEMMA SessionsSame ==
  ASSUME GuestInv, TypeOK', UNCHANGED <<joins, sessions>>, Len(tabs) <= Len(tabs'),
         \A p, t : <<p, t, "portal">> \in grants => <<p, t, "portal">> \in grants'
  PROVE  SessionsGood'
<1>1. Grows
  BY Lengths DEF Grows, GuestInv
<1> QED BY <1>1, SessionsGrow DEF GuestInv

\* The session of a guest who is let in.
Admitted(g, t, atTable) ==
  \/ UNCHANGED sessions
  \/ sessions' = [sessions EXCEPT ![g] = [@ EXCEPT !.state = "MAIN_MENU", !.tab = t, !.table = atTable]]

LEMMA AdmittedSession ==
  ASSUME GuestInv, NEW g \in Guests, NEW t \in 0..MaxTabs, NEW atTable \in BOOLEAN,
         Admitted(g, t, atTable)
  PROVE  \/ UNCHANGED sessions
         \/ \E n \in Session :
              /\ sessions' = [sessions EXCEPT ![g] = n] /\ n.state = "MAIN_MENU" /\ n.tab = t
              /\ n.ask = sessions[g].ask /\ n.portal = sessions[g].portal
<1>1. PICK s : s = sessions[g]
  OBVIOUS
<1>2. s \in Session
  BY <1>1 DEF GuestInv, TypeOK, Participants
<1>3. PICK n : n = [s EXCEPT !.state = "MAIN_MENU", !.tab = t, !.table = atTable]
  OBVIOUS
<1>4. n \in Session /\ n.state = "MAIN_MENU" /\ n.tab = t /\ n.ask = s.ask /\ n.portal = s.portal
  BY <1>2, <1>3 DEF Session, States
<1>5. UNCHANGED sessions \/ sessions' = [sessions EXCEPT ![g] = n]
  BY <1>1, <1>3 DEF Admitted
<1> QED BY <1>1, <1>4, <1>5

LEMMA AdmittedGood ==
  ASSUME GuestInv, NEW g \in Guests, NEW t \in 0..MaxTabs, NEW atTable \in BOOLEAN,
         Admitted(g, t, atTable), UNCHANGED joins, tabs' \in Seq(Tab), Len(tabs') <= MaxTabs,
         Len(tabs) <= Len(tabs'), t <= Len(tabs'), grants \subseteq grants',
         sessions' \in [Participants -> Session] => TypeOK'
  PROVE  TypeOK' /\ SessionsGood'
<1>1. g \in Participants /\ g \notin Tabs
  BY GuestsApart DEF Participants
<1>2. CASE UNCHANGED sessions
  <2>1. TypeOK'
    BY <1>2 DEF GuestInv, TypeOK
  <2> QED BY <1>2, <2>1, SessionsSame
<1>3. CASE ~UNCHANGED sessions
  <2>1. PICK n \in Session :
          /\ sessions' = [sessions EXCEPT ![g] = n] /\ n.state = "MAIN_MENU" /\ n.tab = t
          /\ n.ask = sessions[g].ask /\ n.portal = sessions[g].portal
    BY <1>3, AdmittedSession
  <2>2. sessions' \in [Participants -> Session]
    BY <1>1, <2>1 DEF GuestInv, TypeOK
  <2>3. TypeOK'
    BY <2>2
  <2>4. Grows
    BY Lengths DEF Grows, GuestInv
  <2>5. PICK s : s = sessions[g]
    OBVIOUS
  <2>6. Good(g, s)
    BY <1>1, <2>5 DEF GuestInv, SessionsGood
  <2>7. Good(g, n)'
    BY <1>1, <2>1, <2>5, <2>6 DEF Good
  <2> QED BY <1>1, <2>1, <2>3, <2>4, <2>7, SessionSet DEF GuestInv
<1> QED BY <1>2, <1>3

LEMMA ApproveInv ==
  ASSUME GuestInv, NEW g \in Guests, NEW kind, NEW atTable \in BOOLEAN, Approve(g, kind, atTable)
  PROVE  GuestInv'
<1>1. /\ pending' = [pending EXCEPT ![g] = pending[g] \ {kind}]
      /\ approved' \subseteq approved \cup {g}
      /\ UNCHANGED <<joins, calls, handlers, leaving, messages, crossed, overwritten, undelivered>>
  BY DEF Approve
<1>2. pending' \in [Guests -> SUBSET {"table", "plain"}] /\ approved' \subseteq Guests
  BY <1>1 DEF GuestInv, TypeOK
<1>3. g \in Participants /\ g # Nobody
  BY GuestsApart DEF Participants
<1>4. \E t \in 0..MaxTabs :
        /\ Admitted(g, t, atTable) /\ t <= Len(tabs')
        /\ tabs' \in Seq(Tab) /\ Len(tabs') <= MaxTabs /\ Len(tabs) <= Len(tabs') /\ OwnersGood'
        /\ grants \subseteq grants' /\ grants' \subseteq Participants \X Tabs \X Ways
  <2>1. CASE /\ Len(tabs) < MaxTabs
             /\ tabs' = Append(tabs, NewTab(g, atTable))
             /\ grants' = Granted(g, Len(tabs'), "owner")
             /\ Admitted(g, Len(tabs'), atTable)
    <3>1. grants \subseteq grants' /\ <<g, Len(tabs'), "owner">> \in grants'
      BY <2>1 DEF Granted
    <3>2. Len(tabs') = Len(tabs) + 1
      BY <2>1 DEF GuestInv, TypeOK
    <3>3. tabs' \in Seq(Tab) /\ Len(tabs') <= MaxTabs /\ Len(tabs') \in Tabs /\ OwnersGood'
      BY <2>1, <3>1, <3>2, TabAdded
    <3>4. grants' \subseteq Participants \X Tabs \X Ways
      BY <1>3, <2>1, <3>3 DEF Granted, Ways, GuestInv, TypeOK
    <3>5. Len(tabs') \in 0..MaxTabs /\ Len(tabs') <= Len(tabs') /\ Len(tabs) <= Len(tabs')
      BY <3>2, <3>3, Bounded, Lengths DEF GuestInv, Tabs
    <3> QED BY <2>1, <3>1, <3>3, <3>4, <3>5
  <2>2. CASE \E t \in OpenAtTable : Admitted(g, t, atTable) /\ UNCHANGED <<tabs, grants>>
    <3>1. PICK t \in OpenAtTable : Admitted(g, t, atTable) /\ UNCHANGED <<tabs, grants>>
      BY <2>2
    <3>2. t \in 0..MaxTabs /\ t <= Len(tabs)
      BY <3>1, Bounded DEF OpenAtTable, GuestInv, TypeOK
    <3> QED BY <3>1, <3>2, Lengths, OwnersKept DEF GuestInv, TypeOK
  <2>3. CASE UNCHANGED <<tabs, grants, sessions>>
    <3>1. Admitted(g, 0, atTable) /\ 0 \in 0..MaxTabs
      BY <2>3, Bounded DEF Admitted
    <3> QED BY <2>3, <3>1, Lengths, OwnersKept DEF GuestInv, TypeOK
  <2> QED BY <2>1, <2>2, <2>3 DEF Approve, Admitted
<1>5. PICK t \in 0..MaxTabs :
        /\ Admitted(g, t, atTable) /\ t <= Len(tabs')
        /\ tabs' \in Seq(Tab) /\ Len(tabs') <= MaxTabs /\ Len(tabs) <= Len(tabs') /\ OwnersGood'
        /\ grants \subseteq grants' /\ grants' \subseteq Participants \X Tabs \X Ways
  BY <1>4
<1>6. sessions' \in [Participants -> Session] => TypeOK'
  BY <1>1, <1>2, <1>5 DEF GuestInv, TypeOK
<1>7. TypeOK' /\ SessionsGood'
  BY <1>1, <1>5, <1>6, AdmittedGood
<1> QED BY <1>1, <1>5, <1>7, StaffInv

\* The guest has no session, or one with nothing of a table.
LEMMA RejectInv ==
  ASSUME GuestInv, NEW g \in Guests, NEW kind, Reject(g, kind)
  PROVE  GuestInv'
<1>1. /\ pending' = [pending EXCEPT ![g] = pending[g] \ {kind}]
      /\ UNCHANGED <<tabs, joins, approved, calls, handlers, leaving, grants, crossed, overwritten, undelivered>>
  BY DEF Reject
<1>2. g \in Participants /\ g \notin Tabs
  BY GuestsApart DEF Participants
<1>3. PICK s : s = sessions[g]
  OBVIOUS
<1>4. s \in Session /\ Good(g, s)
  BY <1>2, <1>3 DEF GuestInv, SessionsGood, Good
<1>5. PICK r : r = resetSessionAccess(s)
  OBVIOUS
<1>6. PICK n : n = To(r, "WELCOME")
  OBVIOUS
<1>7. /\ n \in Session /\ n.state = "WELCOME" /\ n.tab = 0 /\ n.ask = 0 /\ n.portal = 0
  BY <1>4, <1>5, <1>6, ResetParts, Moved DEF States
<1>8. UNCHANGED sessions \/ sessions' = [sessions EXCEPT ![g] = n]
  BY <1>3, <1>5, <1>6 DEF Reject
<1>9. sessions' \in [Participants -> Session]
  BY <1>2, <1>7, <1>8 DEF GuestInv, TypeOK
<1>10. TypeOK'
  BY <1>1, <1>9 DEF GuestInv, TypeOK
<1>11. Len(tabs) <= Len(tabs') /\ OwnersGood' /\ Grows
  BY <1>1, OwnersKept, Lengths DEF GuestInv, Grows
<1>12. Good(g, n)'
  BY <1>1, <1>2, <1>7, Lengths DEF Good, GuestInv
<1>13. SessionsGood'
  <2>1. CASE UNCHANGED sessions
    BY <1>1, <1>10, <1>11, <2>1, SessionsSame
  <2>2. CASE sessions' = [sessions EXCEPT ![g] = n]
    BY <1>2, <1>7, <1>10, <1>11, <1>12, <2>2, SessionSet DEF GuestInv
  <2> QED BY <1>8, <2>1, <2>2
<1> QED BY <1>1, <1>10, <1>11, <1>13, StaffInv

LEMMA OpenTabInv ==
  ASSUME GuestInv, NEW owner \in Guests \cup {Nobody}, NEW atTable \in BOOLEAN, openTab(owner, atTable)
  PROVE  GuestInv'
<1>1. /\ Len(tabs) < MaxTabs /\ tabs' = Append(tabs, NewTab(owner, atTable))
      /\ grants' = IF owner \in Guests THEN Granted(owner, Len(tabs'), "owner") ELSE grants
      /\ UNCHANGED <<joins, pending, approved, calls, sessions, handlers, leaving, crossed, overwritten, undelivered>>
  BY DEF openTab
<1>2. grants \subseteq grants' /\ (owner # Nobody => <<owner, Len(tabs'), "owner">> \in grants')
  BY <1>1 DEF Granted
<1>3. Len(tabs') = Len(tabs) + 1
  BY <1>1 DEF GuestInv, TypeOK
<1>4. tabs' \in Seq(Tab) /\ Len(tabs') <= MaxTabs /\ Len(tabs') \in Tabs /\ OwnersGood'
  BY <1>1, <1>2, <1>3, TabAdded
<1>5. grants' \subseteq Participants \X Tabs \X Ways
  BY <1>1, <1>4 DEF Granted, Ways, Participants, GuestInv, TypeOK
<1>6. TypeOK'
  BY <1>1, <1>4, <1>5 DEF GuestInv, TypeOK
<1>7. Len(tabs) <= Len(tabs')
  BY <1>3, Lengths DEF GuestInv
<1>8. SessionsGood'
  BY <1>1, <1>2, <1>6, <1>7, SessionsSame
<1> QED BY <1>1, <1>2, <1>4, <1>6, <1>7, <1>8, StaffInv

\* A row of the tabs is written, with its owner or with one who was granted it.
LEMMA RowWritten ==
  ASSUME GuestInv, NEW t \in DOMAIN tabs, NEW row \in Tab, tabs' = [tabs EXCEPT ![t] = row],
         row.owner # Nobody =>
           (row.owner = tabs[t].owner /\ grants' = grants) \/ <<row.owner, t, "owner">> \in grants',
         \A p, how : \A u : u # t \/ how # "owner" => (<<p, u, how>> \in grants => <<p, u, how>> \in grants'),
         grants' \subseteq Participants \X Tabs \X Ways,
         UNCHANGED <<joins, pending, approved, sessions, handlers, crossed, overwritten, undelivered>>,
         calls' \in [Tabs -> Nat], leaving' \subseteq (Guests \cup {Nobody}) \X Tabs
  PROVE  GuestInv'
<1>1. /\ tabs' \in Seq(Tab) /\ Len(tabs') = Len(tabs) /\ DOMAIN tabs' = DOMAIN tabs /\ tabs'[t] = row
      /\ \A u \in DOMAIN tabs : u # t => tabs'[u] = tabs[u]
  BY TabSet DEF GuestInv
<1>2. TypeOK'
  BY <1>1 DEF GuestInv, TypeOK
<1>3. Len(tabs) <= Len(tabs')
  BY <1>1, Lengths DEF GuestInv
<1>4. OwnersGood'
  <2> SUFFICES ASSUME NEW u \in DOMAIN tabs, tabs'[u].owner # Nobody
               PROVE  <<tabs'[u].owner, u, "owner">> \in grants' \/ <<tabs'[u].owner, u, "stale">> \in grants'
    BY <1>1 DEF OwnersGood
  <2>1. CASE u # t
    BY <1>1, <2>1 DEF GuestInv, OwnersGood
  <2>2. CASE u = t
    BY <1>1, <2>2 DEF GuestInv, OwnersGood
  <2> QED BY <2>1, <2>2
<1>5. /\ \A p, u : <<p, u, "portal">> \in grants => <<p, u, "portal">> \in grants'
      /\ \A p, u : <<p, u, "shared">> \in grants => <<p, u, "shared">> \in grants'
  OBVIOUS
<1>6. SessionsGood'
  BY <1>2, <1>3, <1>5, SessionsSame
<1> QED BY <1>2, <1>3, <1>4, <1>5, <1>6, StaffInv

LEMMA UpdateTabCustomerInv ==
  ASSUME GuestInv, NEW t \in DOMAIN tabs, NEW owner \in Guests \cup {Nobody}, updateTabCustomer(t, owner)
  PROVE  GuestInv'
<1>1. t \in Tabs /\ tabs[t] \in Tab
  BY Bounded DEF GuestInv, TypeOK, Tabs
<1>2. PICK row : row = [tabs[t] EXCEPT !.owner = owner]
  OBVIOUS
<1>3. row \in Tab /\ row.owner = owner
  BY <1>1, <1>2 DEF Tab
<1>4. tabs' = [tabs EXCEPT ![t] = row]
  BY <1>2 DEF updateTabCustomer
<1>5. grants' = (grants \ {<<tabs[t].owner, t, "owner">>})
                  \cup (IF owner \in Guests THEN {<<owner, t, "owner">>} ELSE {})
  BY DEF updateTabCustomer
<1>6. owner # Nobody => <<owner, t, "owner">> \in grants'
  BY <1>5
<1>7. \A p, how : \A u : u # t \/ how # "owner" => (<<p, u, how>> \in grants => <<p, u, how>> \in grants')
  BY <1>5
<1>8. grants' \subseteq Participants \X Tabs \X Ways
  BY <1>1, <1>5 DEF Ways, Participants, GuestInv, TypeOK
<1>9. /\ UNCHANGED <<joins, pending, approved, sessions, handlers, crossed, overwritten, undelivered>>
      /\ calls' \in [Tabs -> Nat] /\ leaving' \subseteq (Guests \cup {Nobody}) \X Tabs
  BY DEF updateTabCustomer, GuestInv, TypeOK
<1> QED BY <1>3, <1>4, <1>6, <1>7, <1>8, <1>9, RowWritten

\* The acts that leave the tab's owner.
LEMMA RowKeepsOwner ==
  ASSUME GuestInv, NEW t \in DOMAIN tabs, NEW row \in Tab, tabs' = [tabs EXCEPT ![t] = row],
         row.owner = tabs[t].owner,
         UNCHANGED <<joins, pending, approved, sessions, handlers, grants, crossed, overwritten, undelivered>>,
         calls' \in [Tabs -> Nat], leaving' \subseteq (Guests \cup {Nobody}) \X Tabs
  PROVE  GuestInv'
<1>1. grants' \subseteq Participants \X Tabs \X Ways
  BY DEF GuestInv, TypeOK
<1> QED BY <1>1, RowWritten

LEMMA FinalizeTabInv ==
  ASSUME GuestInv, NEW t \in DOMAIN tabs, finalizeTab(t)
  PROVE  GuestInv'
<1>1. t \in Tabs /\ tabs[t] \in Tab
  BY Bounded DEF GuestInv, TypeOK, Tabs
<1>2. PICK row : row = [tabs[t] EXCEPT !.status = "CLOSED", !.bill = "settled"]
  OBVIOUS
<1>3. row \in Tab /\ row.owner = tabs[t].owner
  BY <1>1, <1>2 DEF Tab
<1>4. tabs' = [tabs EXCEPT ![t] = row]
  BY <1>2 DEF finalizeTab
<1>5. tabs[t].owner \in Guests \cup {Nobody}
  BY <1>1 DEF Tab
<1>6. /\ UNCHANGED <<joins, pending, approved, sessions, handlers, grants, crossed, overwritten, undelivered>>
      /\ calls' \in [Tabs -> Nat] /\ leaving' \subseteq (Guests \cup {Nobody}) \X Tabs
  BY <1>1, <1>5 DEF finalizeTab, GuestInv, TypeOK
<1> QED BY <1>3, <1>4, <1>6, RowKeepsOwner

LEMMA ReopenTabInv ==
  ASSUME GuestInv, NEW t \in DOMAIN tabs, reopenTab(t)
  PROVE  GuestInv'
<1>1. t \in Tabs /\ tabs[t] \in Tab
  BY Bounded DEF GuestInv, TypeOK, Tabs
<1>2. PICK row : row = [tabs[t] EXCEPT !.status = "OPEN"]
  OBVIOUS
<1>3. row \in Tab /\ row.owner = tabs[t].owner
  BY <1>1, <1>2 DEF Tab
<1>4. tabs' = [tabs EXCEPT ![t] = row]
  BY <1>2 DEF reopenTab
<1>5. /\ UNCHANGED <<joins, pending, approved, sessions, handlers, grants, crossed, overwritten, undelivered>>
      /\ calls' \in [Tabs -> Nat] /\ leaving' \subseteq (Guests \cup {Nobody}) \X Tabs
  BY <1>1 DEF reopenTab, GuestInv, TypeOK
<1> QED BY <1>3, <1>4, <1>5, RowKeepsOwner

LEMMA BillInv ==
  ASSUME GuestInv, NEW t \in DOMAIN tabs, Bill(t)
  PROVE  GuestInv'
<1>1. t \in Tabs /\ tabs[t] \in Tab
  BY Bounded DEF GuestInv, TypeOK, Tabs
<1>2. PICK bill \in {"empty", "owing", "settled"} : bill = IF tabs[t].bill = "empty" THEN "owing" ELSE "settled"
  OBVIOUS
<1>3. PICK row : row = [tabs[t] EXCEPT !.bill = bill]
  OBVIOUS
<1>4. row \in Tab /\ row.owner = tabs[t].owner
  BY <1>1, <1>2, <1>3 DEF Tab
<1>5. tabs' = [tabs EXCEPT ![t] = row]
  BY <1>2, <1>3 DEF Bill
<1>6. /\ UNCHANGED <<joins, pending, approved, sessions, handlers, grants, crossed, overwritten, undelivered>>
      /\ calls' \in [Tabs -> Nat] /\ leaving' \subseteq (Guests \cup {Nobody}) \X Tabs
  BY <1>1 DEF Bill, GuestInv, TypeOK
<1> QED BY <1>4, <1>5, <1>6, RowKeepsOwner

\* Sessions end.
LEMMA ForgetInv ==
  ASSUME GuestInv, NEW ps \in SUBSET Participants, Forget(ps) \/ UNCHANGED <<sessions, overwritten>>,
         UNCHANGED <<tabs, joins, pending, approved, calls, handlers, grants, crossed, undelivered>>,
         leaving' \subseteq leaving
  PROVE  GuestInv'
<1>1. sessions' \in [Participants -> Session] /\ overwritten' \subseteq Participants
  BY NoSessionParts DEF Forget, GuestInv, TypeOK
<1>2. TypeOK'
  BY <1>1 DEF GuestInv, TypeOK
<1>3. Len(tabs) <= Len(tabs') /\ OwnersGood'
  BY OwnersKept, Lengths DEF GuestInv
<1>4. ASSUME NEW p \in Participants
      PROVE  sessions'[p] = NoSession \/ sessions'[p] = sessions[p]
  BY DEF Forget
<1>5. PICK z : z = NoSession
  OBVIOUS
<1>6. /\ z \in Session /\ z.state = "NONE" /\ z.tab = 0 /\ z.ask = 0 /\ z.portal = 0
  BY <1>5, NoSessionParts
<1>7. ASSUME NEW p \in Participants
      PROVE  Good(p, z)'
  BY <1>6, Lengths DEF Good, LinkStates, GuestInv
<1>8. ASSUME NEW p \in Participants
      PROVE  Good(p, sessions[p])' /\ (sessions'[p].state = "NONE" => sessions'[p] = NoSession)
  <2>1. CASE sessions'[p] = NoSession
    BY <1>5, <1>7, <2>1
  <2>2. CASE sessions'[p] = sessions[p]
    <3>1. PICK s : s = sessions[p]
      OBVIOUS
    <3>2. Good(p, s) /\ (s.state = "NONE" => s = NoSession)
      BY <3>1 DEF GuestInv, SessionsGood
    <3>3. Good(p, s)'
      BY <3>2 DEF Good
    <3> QED BY <2>2, <3>1, <3>2, <3>3
  <2> QED BY <1>4, <2>1, <2>2
<1>9. SessionsGood'
  BY <1>8 DEF SessionsGood
<1> QED BY <1>2, <1>3, <1>9, StaffInv

-----------------------------------------------------------------------------
(* Every step.                                                             *)
\* A step of a handler that others may notice.
Heeded(c) ==
  \/ \E type \in {"SHARED", "INDIVIDUAL"} : Asks(c, type)
  \/ \E status \in {"APPROVED", "REJECTED"} : Answers(c, status)
  \/ Deliver(c) \/ Claims(c) \/ Looks(c) \/ InsertCall(c) \/ Save(c) \/ Stops(c)

LEMMA HandleCases ==
  ASSUME GuestInv, NEW c \in Consumers, Handle(c)
  PROVE  Quiet(c) \/ Heeded(c)
<1>1. CASE FirstMessage(c) \/ handleWelcomeMenu(c) \/ handleTabCode(c) \/ handleTableConfirmation(c)
           \/ handleWaitingAdminApproval(c) \/ handleWaitingJoinApproval(c)
  BY <1>1, FirstMessageQuiet, WelcomeMenuQuiet, TabCodeQuiet, TableConfirmationQuiet,
     WaitingAdminApprovalQuiet, WaitingJoinApprovalQuiet
<1>2. CASE handleMainMenuSimplified(c) \/ handleViewingTab(c) \/ handleClosingTab(c) \/ handleServiceRequest(c)
           \/ Find(c) \/ guardMainMenuAccess(c)
  BY <1>2, MainMenuQuiet, ViewingTabQuiet, ClosingTabQuiet, ServiceRequestQuiet, FindQuiet, GuardQuiet
<1>3. CASE buildTabSummaryResponse(c) \/ handleRepeatLastRound(c) \/ handlePortalAccess(c)
           \/ handleExitQRCode(c) \/ createCheckoutLink(c) \/ getOrCreateOpenWaiterChat(c)
  <2>1. PICK goal, states : states \subseteq {"VIEWING_TAB", "MAIN_MENU", "SERVICE_REQUEST"} /\ Does(c, goal, states)
    BY <1>3 DEF buildTabSummaryResponse, handleRepeatLastRound, handlePortalAccess, handleExitQRCode,
                createCheckoutLink, getOrCreateOpenWaiterChat
  <2> QED BY <2>1, DoesQuiet
<1>4. CASE TabCodeAccepted(c) \/ ServiceRequestContinues(c) \/ startClosingTabFlow(c) \/ requestCloseBillByStaff(c)
  BY <1>4, TabCodeAcceptedQuiet, ServiceRequestContinuesQuiet, StartClosingQuiet, RequestCloseQuiet
<1>5. CASE handleCollabChoice(c) \/ handleOpenerDecision(c) \/ Claim(c) \/ LookForCall(c)
  BY <1>5, CollabChoiceCases, OpenerDecisionCases, ClaimCases, LookForCallCases DEF Heeded
<1>6. CASE Deliver(c) \/ InsertCall(c) \/ Save(c) \/ Stops(c)
  BY <1>6 DEF Heeded
<1> QED BY <1>1, <1>2, <1>3, <1>4, <1>5, <1>6 DEF Handle

LEMMA HandleInv ==
  ASSUME GuestInv, NEW c \in Consumers, Handle(c)
  PROVE  GuestInv'
<1>1. CASE Quiet(c)
  BY <1>1, QuietInv
<1>2. CASE Heeded(c)
  BY <1>2, AsksInv, AnswersInv, DeliverInv, ClaimInv, LooksInv, InsertCallInv, SaveInv, StopsInv
     DEF Heeded
<1> QED BY <1>1, <1>2, HandleCases

LEMMA ReleaseInv ==
  ASSUME GuestInv, NEW l \in leaving, ReleaseSessions(l[1], l[2])
  PROVE  GuestInv'
<1>1. PICK ps \in SUBSET Participants : Forget(ps) \/ UNCHANGED <<sessions, overwritten>>
  BY DEF ReleaseSessions
<1>2. UNCHANGED <<tabs, joins, pending, approved, calls, handlers, grants, crossed, undelivered>> /\ leaving' \subseteq leaving
  BY DEF ReleaseSessions
<1> QED BY <1>1, <1>2, ForgetInv

LEMMA ExpireInv ==
  ASSUME GuestInv, NEW p \in Participants, Expire(p)
  PROVE  GuestInv'
<1>1. Forget({p}) /\ {p} \in SUBSET Participants
  BY DEF Expire
<1>2. UNCHANGED <<tabs, joins, pending, approved, calls, handlers, leaving, grants, crossed, undelivered>>
  BY DEF Expire
<1> QED BY <1>1, <1>2, ForgetInv

LEMMA StepInv ==
  ASSUME GuestInv, [Next]_vars
  PROVE  GuestInv'
<1>1. CASE \E g \in Guests : BeginWhatsApp(g)
  BY <1>1, BeginWhatsAppInv
<1>2. CASE \E t \in DOMAIN tabs : BeginPortal(t)
  BY <1>2, BeginPortalInv
<1>3. CASE \E c \in Consumers : Handle(c)
  BY <1>3, HandleInv
<1>4. CASE \E g \in Guests, kind \in {"table", "plain"} :
             Reject(g, kind) \/ \E atTable \in BOOLEAN : Approve(g, kind, atTable)
  BY <1>4, RejectInv, ApproveInv
<1>5. CASE \E owner \in Guests \cup {Nobody} :
             \/ \E atTable \in BOOLEAN : openTab(owner, atTable)
             \/ \E t \in DOMAIN tabs : updateTabCustomer(t, owner)
  BY <1>5, OpenTabInv, UpdateTabCustomerInv
<1>6. CASE \E t \in DOMAIN tabs : finalizeTab(t) \/ reopenTab(t) \/ Bill(t)
  BY <1>6, FinalizeTabInv, ReopenTabInv, BillInv
<1>7. CASE \E l \in leaving : ReleaseSessions(l[1], l[2])
  BY <1>7, ReleaseInv
<1>8. CASE \E p \in Participants : Expire(p)
  BY <1>8, ExpireInv
<1>9. CASE UNCHANGED vars
  BY <1>9 DEF vars, GuestInv, TypeOK, SessionsGood, JoinsGood, OwnersGood, Sound, Good
<1> QED BY <1>1, <1>2, <1>3, <1>4, <1>5, <1>6, <1>7, <1>8, <1>9 DEF Next, Staff

\* The sessions of the restaurant where the opener has the table's tab.
LEMMA OpenerSession ==
  ASSUME NEW state \in {"MAIN_MENU", "CLOSING_TAB"}
  PROVE  LET n == [NoSession EXCEPT !.state = state, !.tab = 1, !.table = TRUE]
         IN n \in Session /\ n.state = state /\ n.tab = 1 /\ n.ask = 0 /\ n.portal = 0
<1>1. PICK z : z = NoSession
  OBVIOUS
<1>2. z \in Session /\ z.ask = 0 /\ z.tab = 0 /\ z.portal = 0 /\ 1 \in 0..MaxTabs
  BY <1>1, Bounded, NoSessionParts
<1> QED BY <1>1, <1>2 DEF Session, States

LEMMA ScannerSession ==
         LET n == [NoSession EXCEPT !.state = "WAITING_COLLAB_CHOICE", !.scanned = TRUE, !.main = 1]
         IN n \in Session /\ n.state = "WAITING_COLLAB_CHOICE" /\ n.tab = 0 /\ n.ask = 0 /\ n.portal = 0
            /\ n.scanned /\ n.main = 1
<1>1. PICK z : z = NoSession
  OBVIOUS
<1>2. z \in Session /\ z.ask = 0 /\ z.tab = 0 /\ z.portal = 0 /\ 1 \in 0..MaxTabs
  BY <1>1, Bounded, NoSessionParts
<1> QED BY <1>1, <1>2 DEF Session, States

\* The restaurant where the opener has the table's tab.
Opened(opener, state, scanners) ==
  /\ tabs = <<[NewTab(opener, TRUE) EXCEPT !.bill = "owing"]>>
  /\ approved = {opener} /\ grants = {<<opener, 1, "owner">>}
  /\ sessions = [p \in Participants |->
       CASE p = opener    -> [NoSession EXCEPT !.state = state,
                                               !.tab = 1, !.table = TRUE]
         [] p \in scanners -> [NoSession EXCEPT !.state = "WAITING_COLLAB_CHOICE",
                                                !.scanned = TRUE, !.main = 1]
         [] OTHER         -> NoSession]

LEMMA InitCases ==
  ASSUME Init
  PROVE  \/ /\ tabs = <<>> /\ approved = {} /\ grants = {}
            /\ sessions = [p \in Participants |-> NoSession]
         \/ \E opener \in Guests, state \in {"MAIN_MENU", "CLOSING_TAB"} :
            \E scanners \in SUBSET (Guests \ {opener}) : Opened(opener, state, scanners)
<1>1. CASE /\ tabs = <<>> /\ approved = {} /\ grants = {}
           /\ sessions = [p \in Participants |-> NoSession]
  BY <1>1
<1>2. CASE ~(/\ tabs = <<>> /\ approved = {} /\ grants = {}
             /\ sessions = [p \in Participants |-> NoSession])
  <2>1. PICK opener \in Guests :
          /\ tabs = <<[NewTab(opener, TRUE) EXCEPT !.bill = "owing"]>>
          /\ approved = {opener} /\ grants = {<<opener, 1, "owner">>}
          /\ \E state \in {"MAIN_MENU", "CLOSING_TAB"}, scanners \in SUBSET (Guests \ {opener}) :
               sessions = [p \in Participants |->
                 CASE p = opener    -> [NoSession EXCEPT !.state = state,
                                                         !.tab = 1, !.table = TRUE]
                   [] p \in scanners -> [NoSession EXCEPT !.state = "WAITING_COLLAB_CHOICE",
                                                          !.scanned = TRUE, !.main = 1]
                   [] OTHER         -> NoSession]
    BY <1>2, Zenon DEF Init
  <2>2. PICK state \in {"MAIN_MENU", "CLOSING_TAB"}, scanners \in SUBSET (Guests \ {opener}) :
          Opened(opener, state, scanners)
    BY <2>1, Zenon DEF Opened
  <2> QED BY <2>2
<1> QED BY <1>1, <1>2

LEMMA InitInv == Init => GuestInv
<1> SUFFICES ASSUME Init
             PROVE  GuestInv
  OBVIOUS
<1>1. /\ joins = <<>> /\ pending = [g \in Guests |-> {}] /\ calls = [t \in Tabs |-> 0]
      /\ handlers = [c \in Consumers |-> Idle] /\ leaving = {} /\ crossed = {} /\ overwritten = {}
      /\ undelivered = {}
  BY DEF Init
<1>2. joins \in Seq(Join) /\ Len(joins) = 0 /\ DOMAIN joins = {} /\ 0 <= MaxJoins
  BY <1>1, Bounded
<1>3. /\ tabs \in Seq(Tab) /\ Len(tabs) \in {0, 1} /\ Len(tabs) <= MaxTabs /\ approved \subseteq Guests
      /\ grants \subseteq Participants \X Tabs \X Ways /\ OwnersGood /\ sessions \in [Participants -> Session]
      /\ SessionsGood
  <2>1. CASE /\ tabs = <<>> /\ approved = {} /\ grants = {}
             /\ sessions = [p \in Participants |-> NoSession]
    <3>1. tabs \in Seq(Tab) /\ Len(tabs) = 0 /\ DOMAIN tabs = {} /\ 0 <= MaxTabs
      BY <2>1, Bounded
    <3>2. PICK z : z = NoSession
      OBVIOUS
    <3>3. z \in Session /\ z.state = "NONE" /\ z.tab = 0 /\ z.ask = 0 /\ z.portal = 0
      BY <3>2, NoSessionParts
    <3>4. sessions \in [Participants -> Session] /\ \A p \in Participants : sessions[p] = z
      BY <2>1, <3>2, <3>3
    <3>5. \A p \in Participants : Good(p, z)
      BY <1>2, <3>1, <3>3 DEF Good, LinkStates
    <3>6. SessionsGood
      BY <3>2, <3>4, <3>5 DEF SessionsGood
    <3> QED BY <2>1, <3>1, <3>4, <3>6 DEF OwnersGood
  <2>2. ASSUME NEW opener \in Guests,
               NEW state \in {"MAIN_MENU", "CLOSING_TAB"}, NEW scanners \in SUBSET (Guests \ {opener}),
               Opened(opener, state, scanners)
        PROVE  /\ tabs \in Seq(Tab) /\ Len(tabs) \in {0, 1} /\ Len(tabs) <= MaxTabs /\ approved \subseteq Guests
               /\ grants \subseteq Participants \X Tabs \X Ways /\ OwnersGood /\ sessions \in [Participants -> Session]
               /\ SessionsGood
    <3>1. PICK row : row = [NewTab(opener, TRUE) EXCEPT !.bill = "owing"]
      OBVIOUS
    <3>2. row \in Tab /\ row.owner = opener
      BY <3>1 DEF NewTab, Tab
    <3>3. tabs \in Seq(Tab) /\ Len(tabs) = 1 /\ tabs[1] = row /\ DOMAIN tabs = {1}
      BY <2>2, <3>1, <3>2 DEF Opened
    <3>4. 1 \in Tabs /\ opener \in Participants
      BY <2>2, Bounded DEF Tabs, Participants
    <3>5. grants \subseteq Participants \X Tabs \X Ways /\ OwnersGood
      <4>1. grants = {<<opener, 1, "owner">>} /\ approved \subseteq Guests
        BY <2>2 DEF Opened
      <4>2. grants \subseteq Participants \X Tabs \X Ways
        BY <3>4, <4>1 DEF Ways
      <4>3. OwnersGood
        BY <3>2, <3>3, <4>1 DEF OwnersGood
      <4> QED BY <4>2, <4>3
    <3>6. PICK n : n = [NoSession EXCEPT !.state = state, !.tab = 1, !.table = TRUE]
      OBVIOUS
    <3>7. n \in Session /\ n.state = state /\ n.tab = 1 /\ n.ask = 0 /\ n.portal = 0
      BY <2>2, <3>6, OpenerSession
    <3>8. PICK m : m = [NoSession EXCEPT !.state = "WAITING_COLLAB_CHOICE", !.scanned = TRUE, !.main = 1]
      OBVIOUS
    <3>9. m \in Session /\ m.state = "WAITING_COLLAB_CHOICE" /\ m.tab = 0 /\ m.ask = 0 /\ m.portal = 0
          /\ m.scanned /\ m.main = 1
      BY <2>2, <3>8, ScannerSession
    <3>10. PICK z : z = NoSession
      OBVIOUS
    <3>11. z \in Session /\ z.state = "NONE" /\ z.tab = 0 /\ z.ask = 0 /\ z.portal = 0
      BY <3>10, NoSessionParts
    <3>12. sessions = [p \in Participants |-> CASE p = opener -> n [] p \in scanners -> m [] OTHER -> z]
      BY <2>2, <3>6, <3>8, <3>10 DEF Opened
    <3>13. sessions \in [Participants -> Session]
      BY <3>7, <3>9, <3>11, <3>12
    <3>14. ASSUME NEW p \in Participants
           PROVE  Good(p, sessions[p]) /\ (sessions[p].state = "NONE" => sessions[p] = NoSession)
      <4>1. CASE p = opener
        <5>1. sessions[p] = n /\ p \notin Tabs
          BY <3>12, <4>1, GuestsApart
        <5> QED BY <1>2, <3>3, <3>7, <5>1 DEF Good
      <4>2. CASE p # opener /\ p \in scanners
        <5>1. sessions[p] = m /\ p \notin Tabs
          BY <3>12, <4>2, GuestsApart
        <5> QED BY <1>2, <3>3, <3>9, <5>1 DEF Good
      <4>3. CASE p # opener /\ p \notin scanners
        <5>1. sessions[p] = z
          BY <3>12, <4>3
        <5> QED BY <1>2, <3>3, <3>10, <3>11, <5>1 DEF Good, LinkStates
      <4> QED BY <4>1, <4>2, <4>3
    <3>15. SessionsGood
      BY <3>14 DEF SessionsGood
    <3>16. approved \subseteq Guests /\ Len(tabs) <= MaxTabs
      BY <2>2, <3>3, Bounded DEF Opened
    <3> QED BY <3>3, <3>5, <3>13, <3>15, <3>16
  <2> QED BY <2>1, <2>2, InitCases
<1>4. PICK i : i = Idle
  OBVIOUS
<1>5. i \in Handler /\ i.at = "idle" /\ i.who = Nobody /\ i.tab = 0
  BY <1>4, IdleParts
<1>6. handlers \in [Consumers -> Handler] /\ \A c \in Consumers : handlers[c] = i
  BY <1>1, <1>4, <1>5
<1>7. Sound(i)
  BY <1>3, <1>5 DEF Sound
<1>8. \A c \in Consumers : Sound(handlers[c])
  BY <1>6, <1>7
<1>9. JoinsGood
  BY <1>2 DEF JoinsGood
<1>10. pending \in [Guests -> SUBSET {"table", "plain"}] /\ calls \in [Tabs -> Nat]
  BY <1>1
<1>11. TypeOK
  BY <1>1, <1>2, <1>3, <1>6, <1>10 DEF TypeOK
<1> QED BY <1>3, <1>8, <1>9, <1>11 DEF GuestInv

-----------------------------------------------------------------------------
(* One call for the bill.                                                  *)
\* What the handlers of the other messages see of a step that is heeded.
LEMMA HeededTurn ==
  ASSUME GuestInv, NEW c \in Consumers, Heeded(c)
  PROVE  /\ handlers[c].at # "idle" /\ (handlers[c].at = "find" => handlers'[c].tab = 0)
         /\ \A d \in Consumers \ {c} : handlers'[d] = handlers[d]
         /\ handlers'[c].at # "look"
         /\ handlers'[c].at = "insert" => Looks(c)
<1>1. handlers \in [Consumers -> Handler]
  BY DEF GuestInv, TypeOK
<1>2. /\ handlers[c].at # "idle"
      /\ handlers[c].at \in {"think", "deliver", "claim", "look", "insert", "save"} \/ Stops(c)
  BY DEF Heeded, Asks, Answers, Deliver, Claims, Looks, InsertCall, Save, Stops
<1>3. \/ \E s : Finish(c, s)
      \/ \E goal, peer : handlers' =
           [handlers EXCEPT ![c] = [handlers[c] EXCEPT !.at = "deliver", !.goal = goal, !.peer = peer]]
      \/ handlers' = [handlers EXCEPT ![c] = [handlers[c] EXCEPT !.at = "decide"]]
      \/ Looks(c) /\ handlers' = [handlers EXCEPT ![c] = [handlers[c] EXCEPT !.at = "insert"]]
      \/ handlers' = [handlers EXCEPT ![c] = Idle]
  <2>1. CASE (\E type \in {"SHARED", "INDIVIDUAL"} : Asks(c, type)) \/ Deliver(c) \/ InsertCall(c)
    BY <2>1, Zenon DEF Asks, Deliver, InsertCall
  <2>2. CASE \E status \in {"APPROVED", "REJECTED"} : Answers(c, status)
    <3>1. PICK status : Answers(c, status)
      BY <2>2
    <3>2. PICK peer : peer = sessions[joins[handlers[c].sess.ask].by]
      OBVIOUS
    <3>3. CASE \E s : Finish(c, s)
      BY <3>3
    <3>4. CASE \E goal \in {"approve", "reject"} : handlers' =
             [handlers EXCEPT ![c] = [handlers[c] EXCEPT !.at = "deliver", !.goal = goal, !.peer = peer]]
      BY <3>4
    <3>5. (\E s : Finish(c, s)) \/ \E goal \in {"approve", "reject"} : handlers' =
             [handlers EXCEPT ![c] = [handlers[c] EXCEPT !.at = "deliver", !.goal = goal, !.peer = peer]]
      BY <3>1, <3>2 DEF Answers
    <3> QED BY <3>3, <3>4, <3>5
  <2>3. CASE Claims(c) \/ Looks(c)
    BY <2>3 DEF Claims, Looks
  <2>4. CASE Save(c) \/ Stops(c)
    BY <2>4 DEF Save, Stops
  <2> QED BY <2>1, <2>2, <2>3, <2>4 DEF Heeded
<1>4. CASE \E s : Finish(c, s)
  <2>1. PICK s : handlers' = [handlers EXCEPT ![c] = Ended(handlers[c], s)]
    BY <1>4 DEF Finish, Ended
  <2>2. Ended(handlers[c], s).at = "save" /\ Ended(handlers[c], s).tab = 0
    BY DEF Ended, Idle
  <2> QED BY <1>1, <1>2, <2>1, <2>2
<1>5. CASE \E goal, peer : handlers' =
             [handlers EXCEPT ![c] = [handlers[c] EXCEPT !.at = "deliver", !.goal = goal, !.peer = peer]]
  <2> PICK goal, peer : handlers' =
        [handlers EXCEPT ![c] = [handlers[c] EXCEPT !.at = "deliver", !.goal = goal, !.peer = peer]]
    BY <1>5
  <2>1. PICK h : h = [handlers[c] EXCEPT !.at = "deliver", !.goal = goal, !.peer = peer]
    OBVIOUS
  <2>2. h.at = "deliver"
    BY <1>1, <2>1 DEF Handler
  <2>3. handlers'[c] = h /\ \A d \in Consumers \ {c} : handlers'[d] = handlers[d]
    BY <1>1, <2>1
  <2>4. ~Stops(c)
    BY <1>1, <2>2, <2>3, IdleParts DEF Stops
  <2> QED BY <1>2, <2>2, <2>3, <2>4
<1>6. CASE handlers' = [handlers EXCEPT ![c] = [handlers[c] EXCEPT !.at = "decide"]]
  <2>1. ~Stops(c)
    BY <1>1, <1>6, IdleParts DEF Stops, Handler
  <2> QED BY <1>1, <1>2, <1>6, <2>1 DEF Handler
<1>7. CASE Looks(c) /\ handlers' = [handlers EXCEPT ![c] = [handlers[c] EXCEPT !.at = "insert"]]
  <2>1. handlers[c].at = "look"
    BY <1>7 DEF Looks
  <2> QED BY <1>1, <1>7, <2>1 DEF Handler
<1>8. CASE handlers' = [handlers EXCEPT ![c] = Idle]
  BY <1>1, <1>2, <1>8, IdleParts
<1> QED BY <1>3, <1>4, <1>5, <1>6, <1>7, <1>8

LEMMA CalledKept ==
  ASSUME GuestInv, CalledInv, crossed \subseteq crossed',
         \A t \in Tabs : calls'[t] \in {0, calls[t]},
         \A d \in Consumers : handlers'[d] = handlers[d] \/ handlers'[d].at # "insert"
  PROVE  CalledInv'
<1>1. \A d \in Consumers, t \in Tabs : Inserts(d, t)' => Inserts(d, t)
  BY DEF Inserts
<1>2. \A t \in Tabs : calls[t] \in Nat
  BY DEF GuestInv, TypeOK
<1> SUFFICES ASSUME NEW t \in Tabs \ crossed'
             PROVE  /\ calls'[t] <= 1
                    /\ \A c, d \in Consumers :
                         Inserts(c, t)' => calls'[t] = 0 /\ (Inserts(d, t)' => c = d)
  BY DEF CalledInv
<1>3. /\ calls[t] <= 1
      /\ \A c, d \in Consumers : Inserts(c, t) => calls[t] = 0 /\ (Inserts(d, t) => c = d)
  BY DEF CalledInv
<1> QED BY <1>1, <1>2, <1>3

LEMMA LooksCalled ==
  ASSUME GuestInv, CalledInv, NEW c \in Consumers, Looks(c)
  PROVE  CalledInv'
<1>1. PICK u : u = handlers[c].tab
  OBVIOUS
<1>2. /\ calls[u] = 0 /\ UNCHANGED calls /\ crossed \subseteq crossed'
      /\ (\E d \in Consumers \ {c} : Inserts(d, u)) => u \in crossed'
      /\ handlers' = [handlers EXCEPT ![c] = [handlers[c] EXCEPT !.at = "insert"]]
  BY <1>1 DEF Looks
<1>3. handlers'[c].tab = u /\ \A d \in Consumers \ {c} : handlers'[d] = handlers[d]
  BY <1>1, <1>2 DEF GuestInv, TypeOK, Handler
<1>4. \A d \in Consumers, t \in Tabs : Inserts(d, t)' => Inserts(d, t) \/ (d = c /\ t = u)
  BY <1>3 DEF Inserts
<1> SUFFICES ASSUME NEW t \in Tabs \ crossed'
             PROVE  /\ calls'[t] <= 1
                    /\ \A d, e \in Consumers :
                         Inserts(d, t)' => calls'[t] = 0 /\ (Inserts(e, t)' => d = e)
  BY DEF CalledInv
<1>5. /\ calls[t] <= 1
      /\ \A d, e \in Consumers : Inserts(d, t) => calls[t] = 0 /\ (Inserts(e, t) => d = e)
  BY <1>2 DEF CalledInv
<1>6. CASE t = u
  <2>1. \A d \in Consumers : Inserts(d, t)' => d = c
    BY <1>2, <1>4, <1>6
  <2> QED BY <1>2, <1>5, <1>6, <2>1
<1>7. CASE t # u
  BY <1>2, <1>4, <1>5, <1>7
<1> QED BY <1>6, <1>7

LEMMA InsertCallCalled ==
  ASSUME GuestInv, CalledInv, NEW c \in Consumers, InsertCall(c)
  PROVE  CalledInv'
<1>1. PICK u : u = handlers[c].tab
  OBVIOUS
<1>2. Inserts(c, u) /\ UNCHANGED crossed
  BY <1>1 DEF InsertCall, Inserts
<1>3. \A t \in Tabs : calls'[t] = calls[t] \/ (t = u /\ calls'[t] = calls[t] + 1)
  BY <1>1 DEF InsertCall, GuestInv, TypeOK
<1>4. \A d \in Consumers \ {c} : handlers'[d] = handlers[d]
  BY HeededTurn DEF Heeded
<1>5. handlers'[c].at # "insert"
  <2>1. handlers[c].at # "look"
    BY DEF InsertCall
  <2> QED BY <2>1, HeededTurn DEF Heeded, Looks
<1>6. \A d \in Consumers, t \in Tabs : Inserts(d, t)' => Inserts(d, t) /\ d # c
  BY <1>4, <1>5 DEF Inserts
<1> SUFFICES ASSUME NEW t \in Tabs \ crossed'
             PROVE  /\ calls'[t] <= 1
                    /\ \A d, e \in Consumers :
                         Inserts(d, t)' => calls'[t] = 0 /\ (Inserts(e, t)' => d = e)
  BY DEF CalledInv
<1>7. /\ calls[t] <= 1
      /\ \A d, e \in Consumers : Inserts(d, t) => calls[t] = 0 /\ (Inserts(e, t) => d = e)
  BY <1>2 DEF CalledInv
<1>8. CASE t = u
  BY <1>2, <1>3, <1>6, <1>7, <1>8
<1>9. CASE t # u
  BY <1>3, <1>6, <1>7, <1>9
<1> QED BY <1>8, <1>9

LEMMA HandleCalled ==
  ASSUME GuestInv, CalledInv, NEW c \in Consumers, Handle(c)
  PROVE  CalledInv'
<1>1. CASE Quiet(c)
  BY <1>1, QuietCalled
<1>2. CASE Heeded(c) /\ ~Looks(c) /\ ~InsertCall(c)
  <2>1. \A d \in Consumers : handlers'[d] = handlers[d] \/ handlers'[d].at # "insert"
    BY <1>2, HeededTurn
  <2>2. UNCHANGED <<calls, crossed>>
    BY <1>2 DEF Heeded, Asks, Answers, Deliver, Claims, Save, Stops
  <2> QED BY <2>1, <2>2, CalledKept
<1> QED BY <1>1, <1>2, HandleCases, LooksCalled, InsertCallCalled

\* The staff leave the handlers alone, and settle calls.
LEMMA StaffSteps ==
  ASSUME GuestInv, Staff
  PROVE  /\ UNCHANGED <<joins, handlers, crossed, undelivered>> /\ \A t \in Tabs : calls'[t] \in {0, calls[t]}
         /\ \/ UNCHANGED <<sessions, overwritten>>
            \/ \E g \in Guests, state \in {"WELCOME", "MAIN_MENU"} : \E n :
                 n.state = state /\ sessions' = [sessions EXCEPT ![g] = n] /\ UNCHANGED overwritten
            \/ \E ps \in SUBSET Participants : Forget(ps)
<1>1. ASSUME NEW g \in Guests, NEW kind, Reject(g, kind)
      PROVE  /\ UNCHANGED <<joins, handlers, crossed, undelivered, calls>>
             /\ \/ UNCHANGED <<sessions, overwritten>>
                \/ \E state \in {"WELCOME", "MAIN_MENU"} : \E n :
                     n.state = state /\ sessions' = [sessions EXCEPT ![g] = n] /\ UNCHANGED overwritten
  <2>1. PICK n : n = To(resetSessionAccess(sessions[g]), "WELCOME")
    OBVIOUS
  <2>2. sessions[g] \in Session
    BY DEF GuestInv, TypeOK, Participants
  <2>3. n.state = "WELCOME"
    BY <2>1, <2>2, ResetParts, Moved DEF States
  <2> QED BY <1>1, <2>1, <2>3 DEF Reject
<1>2. ASSUME NEW g \in Guests, NEW kind, NEW atTable \in BOOLEAN, Approve(g, kind, atTable)
      PROVE  /\ UNCHANGED <<joins, handlers, crossed, undelivered, calls>>
             /\ \/ UNCHANGED <<sessions, overwritten>>
                \/ \E state \in {"WELCOME", "MAIN_MENU"} : \E n :
                     n.state = state /\ sessions' = [sessions EXCEPT ![g] = n] /\ UNCHANGED overwritten
  <2>1. sessions[g] \in Session
    BY DEF GuestInv, TypeOK, Participants
  <2>2. \A t : [sessions[g] EXCEPT !.state = "MAIN_MENU", !.tab = t, !.table = atTable].state = "MAIN_MENU"
    BY <2>1 DEF Session
  <2>3. UNCHANGED sessions \/ \E t :
          sessions' = [sessions EXCEPT ![g] = [sessions[g] EXCEPT !.state = "MAIN_MENU", !.tab = t, !.table = atTable]]
    BY <1>2 DEF Approve
  <2>4. UNCHANGED <<joins, handlers, crossed, undelivered, calls, overwritten>>
    BY <1>2 DEF Approve
  <2> QED BY <2>2, <2>3, <2>4
<1>3. ASSUME NEW owner, NEW atTable \in BOOLEAN, openTab(owner, atTable)
      PROVE  UNCHANGED <<joins, handlers, crossed, undelivered, calls, sessions, overwritten>>
  BY <1>3 DEF openTab
<1>4. ASSUME NEW owner, NEW t, updateTabCustomer(t, owner)
      PROVE  UNCHANGED <<joins, handlers, crossed, undelivered, calls, sessions, overwritten>>
  BY <1>4 DEF updateTabCustomer
<1>5. ASSUME NEW t \in DOMAIN tabs, finalizeTab(t)
      PROVE  UNCHANGED <<joins, handlers, crossed, undelivered, sessions, overwritten>>
             /\ \A u \in Tabs : calls'[u] \in {0, calls[u]}
  BY <1>5 DEF finalizeTab, GuestInv, TypeOK
<1>6. ASSUME NEW t, reopenTab(t) \/ Bill(t)
      PROVE  UNCHANGED <<joins, handlers, crossed, undelivered, calls, sessions, overwritten>>
  BY <1>6 DEF reopenTab, Bill
<1>7. ASSUME NEW l, ReleaseSessions(l[1], l[2])
      PROVE  /\ UNCHANGED <<joins, handlers, crossed, undelivered, calls>>
             /\ UNCHANGED <<sessions, overwritten>> \/ \E ps \in SUBSET Participants : Forget(ps)
  BY <1>7 DEF ReleaseSessions
<1>8. ASSUME NEW p \in Participants, Expire(p)
      PROVE  UNCHANGED <<joins, handlers, crossed, undelivered, calls>> /\ \E ps \in SUBSET Participants : Forget(ps)
  <2>1. Forget({p}) /\ {p} \in SUBSET Participants
    BY <1>8 DEF Expire
  <2> QED BY <1>8, <2>1 DEF Expire
<1> QED BY <1>1, <1>2, <1>3, <1>4, <1>5, <1>6, <1>7, <1>8 DEF Staff

\* A message begins.
Begins(c, who) ==
  /\ handlers[c].at = "idle" /\ handlers'[c].at = "think" /\ handlers'[c].who = who
  /\ \A d \in Consumers \ {c} : handlers'[d] = handlers[d]
  /\ handlers'[c].base = sessions[who]
  /\ Waits(handlers'[c].sess) => Waits(sessions[who])
  /\ UNCHANGED <<joins, calls, sessions, crossed, overwritten, undelivered>>

LEMMA BeginWhatsAppBegins ==
  ASSUME GuestInv, NEW g \in Guests, BeginWhatsApp(g)
  PROVE  Begins("whatsapp", g)
<1>1. "whatsapp" \in Consumers /\ g \in Participants
  BY DEF Consumers, Participants
<1>2. PICK h : h = Begun(g, sessions[g], sessions[g])
  OBVIOUS
<1>3. h.at = "think" /\ h.who = g /\ h.base = sessions[g] /\ h.sess = sessions[g] /\ h \in Handler
  BY <1>1, <1>2, BegunParts DEF GuestInv, TypeOK
<1>4. handlers' = [handlers EXCEPT !["whatsapp"] = h]
  BY <1>2 DEF BeginWhatsApp, Begun
<1>5. handlers'["whatsapp"] = h /\ \A d \in Consumers \ {"whatsapp"} : handlers'[d] = handlers[d]
  BY <1>1, <1>3, <1>4, HandlerSet DEF GuestInv
<1> QED BY <1>3, <1>5 DEF Begins, BeginWhatsApp

LEMMA BeginPortalBegins ==
  ASSUME GuestInv, NEW t \in DOMAIN tabs, BeginPortal(t)
  PROVE  \E who \in Participants : Begins("portal", who)
<1>1. PICK who : who = IF tabs[t].owner = Nobody THEN t ELSE tabs[t].owner
  OBVIOUS
<1>2. t \in Tabs /\ tabs[t] \in Tab
  BY Bounded DEF GuestInv, TypeOK, Tabs
<1>3. "portal" \in Consumers /\ who \in Participants
  BY <1>1, <1>2 DEF Consumers, Participants, Tab
<1>4. PICK old : old = sessions[who]
  OBVIOUS
<1>5. old \in Session
  BY <1>3, <1>4 DEF GuestInv, TypeOK
<1>6. PICK s : s = Linked(old, t)
  OBVIOUS
<1>7. s \in Session /\ s.state = IF old.state \in {"NONE", "WELCOME"} THEN "MAIN_MENU" ELSE old.state
  BY <1>5, <1>6, LinkedParts DEF GuestInv
<1>8. PICK h : h = Begun(who, s, old)
  OBVIOUS
<1>9. h \in Handler /\ h.at = "think" /\ h.who = who /\ h.sess = s /\ h.base = old
  BY <1>3, <1>5, <1>7, <1>8, BegunParts
<1>10. handlers' = [handlers EXCEPT !["portal"] = h]
  BY <1>1, <1>4, <1>6, <1>8 DEF BeginPortal, Begun, Linked
<1>11. handlers'["portal"] = h /\ \A d \in Consumers \ {"portal"} : handlers'[d] = handlers[d]
  BY <1>3, <1>9, <1>10, HandlerSet DEF GuestInv
<1>12. UNCHANGED <<joins, calls, sessions, crossed, overwritten, undelivered>> /\ handlers["portal"].at = "idle"
  BY DEF BeginPortal
<1>13. Waits(s) => Waits(old)
  BY <1>7 DEF Waits
<1>14. Begins("portal", who)
  BY <1>4, <1>9, <1>11, <1>12, <1>13 DEF Begins
<1> QED BY <1>3, <1>14

LEMMA StepCalled ==
  ASSUME GuestInv, CalledInv, [Next]_vars
  PROVE  CalledInv'
<1>1. ASSUME NEW c \in Consumers, NEW who, Begins(c, who)
      PROVE  CalledInv'
  BY <1>1, CalledKept DEF Begins
<1>2. CASE (\E g \in Guests : BeginWhatsApp(g)) \/ (\E t \in DOMAIN tabs : BeginPortal(t))
  BY <1>1, <1>2, BeginWhatsAppBegins, BeginPortalBegins DEF Consumers
<1>3. CASE \E c \in Consumers : Handle(c)
  BY <1>3, HandleCalled
<1>4. CASE Staff
  BY <1>4, StaffSteps, CalledKept
<1>5. CASE UNCHANGED vars
  BY <1>5, CalledKept DEF vars
<1> QED BY <1>2, <1>3, <1>4, <1>5 DEF Next

-----------------------------------------------------------------------------
(* Who was answered does not wait.                                         *)
\* A step that does not concern the guest g's wait.
LEMMA HeardKept ==
  ASSUME NEW g, Heard(g), Answered(g)' => Answered(g),
         \A d \in Consumers : handlers'[d].who = g =>
           /\ handlers[d].who = g /\ handlers'[d].base = handlers[d].base
           /\ Waits(handlers'[d].sess) => Waits(handlers[d].sess),
         Accounted(g) /\ Answered(g) => Accounted(g)',
         sessions'[g] = sessions[g] \/ (sessions'[g] = NoSession /\ \A d \in Consumers : handlers[d].who # g)
  PROVE  Heard(g)'
<1>1. CASE sessions'[g] = sessions[g]
  <2>1. Past(g) => Past(g)'
    BY <1>1 DEF Past
  <2> QED BY <1>1, <2>1 DEF Heard
<1>2. CASE sessions'[g] = NoSession /\ \A d \in Consumers : handlers[d].who # g
  <2>1. Past(g)'
    BY <1>2, NoSessionParts DEF Past, Waits
  <2> QED BY <1>2, <2>1 DEF Heard
<1> QED BY <1>1, <1>2

\* A session that is in a state nobody waits in.
LEMMA HeardSettled ==
  ASSUME NEW g, sessions'[g].state \in {"MAIN_MENU", "WELCOME", "WAITING_OPENER_DECISION"}
  PROVE  Heard(g)'
<1>1. Past(g)'
  BY DEF Past, Waits
<1> QED BY <1>1 DEF Heard

LEMMA BeginsAnswered ==
  ASSUME GuestInv, AnsweredInv, NEW c \in Consumers, NEW who \in Participants, Begins(c, who)
  PROVE  AnsweredInv'
<1>1. /\ handlers[c].at = "idle" /\ handlers'[c].at = "think" /\ handlers'[c].who = who
      /\ \A d \in Consumers \ {c} : handlers'[d] = handlers[d]
      /\ handlers'[c].base = sessions[who] /\ (Waits(handlers'[c].sess) => Waits(sessions[who]))
      /\ UNCHANGED <<joins, sessions, overwritten, undelivered>>
  BY DEF Begins
<1> SUFFICES ASSUME NEW g \in Guests \ overwritten
             PROVE  Heard(g)'
  BY <1>1 DEF AnsweredInv
<1>2. Heard(g)
  BY DEF AnsweredInv
<1>3. Answered(g)' => Answered(g)
  BY <1>1 DEF Answered, Latest
<1>4. Accounted(g) => Accounted(g)'
  <2>1. \A d \in Consumers : Told(d, g) => d # c /\ Told(d, g)'
    BY <1>1 DEF Told, Latest
  <2> QED BY <1>1, <2>1 DEF Accounted, Latest
<1>5. CASE g # who
  BY <1>1, <1>2, <1>3, <1>4, <1>5, HeardKept
<1>6. CASE g = who
  <2>1. Past(g) => Past(g)'
    BY <1>1, <1>6 DEF Past, Waits
  <2>2. \A d \in Consumers : handlers'[d].who = g /\ handlers'[d].base.state # "NONE" =>
          sessions'[g].state # "NONE"
    BY <1>1, <1>2, <1>6 DEF Heard
  <2> QED BY <1>2, <1>3, <1>4, <2>1, <2>2 DEF Heard
<1> QED BY <1>5, <1>6

\* The asker's latest request is the one just made; those of others stay.
LEMMA AppendedLatest ==
  ASSUME TypeOK, NEW g, NEW j, joins' = Append(joins, j), joins' \in Seq(Join)
  PROVE  /\ j.by = g => Latest(g)' = Len(joins) + 1
         /\ j.by # g => Latest(g)' = Latest(g)
         /\ j.by # g => ((\E k \in DOMAIN joins' : joins'[k].by = g) <=> \E k \in DOMAIN joins : joins[k].by = g)
<1>1. joins \in Seq(Join) /\ Len(joins) \in Nat /\ DOMAIN joins = 1..Len(joins)
  BY DEF TypeOK
<1>2. /\ DOMAIN joins' = 1..(Len(joins) + 1) /\ joins'[Len(joins) + 1] = j
      /\ \A k \in DOMAIN joins : joins'[k] = joins[k]
  BY <1>1
<1>3. PICK S : S = {k \in DOMAIN joins' : joins'[k].by = g}
  OBVIOUS
<1>4. Latest(g)' = Max(S)
  BY <1>3 DEF Latest
<1>5. ASSUME j.by = g
      PROVE  Latest(g)' = Len(joins) + 1
  <2>1. S \subseteq 1..(Len(joins) + 1) /\ Len(joins) + 1 \in S /\ Len(joins) + 1 \in Nat
    BY <1>1, <1>2, <1>3, <1>5
  <2>2. Max(S) \in S /\ \A x \in S : x <= Max(S)
    BY <2>1, Greatest
  <2>3. PICK m : m = Max(S)
    OBVIOUS
  <2>4. m \in 1..(Len(joins) + 1) /\ Len(joins) + 1 <= m
    BY <2>1, <2>2, <2>3
  <2>5. m = Len(joins) + 1
    BY <1>1, <2>4
  <2> QED BY <1>4, <2>3, <2>5
<1>6. ASSUME j.by # g
      PROVE  /\ Latest(g)' = Latest(g)
             /\ (\E k \in DOMAIN joins' : joins'[k].by = g) <=> \E k \in DOMAIN joins : joins[k].by = g
  <2>1. S = {k \in DOMAIN joins : joins[k].by = g}
    BY <1>1, <1>2, <1>3, <1>6
  <2> QED BY <1>3, <1>4, <2>1 DEF Latest
<1> QED BY <1>5, <1>6

LEMMA LatestIn ==
  ASSUME TypeOK, NEW g, \E k \in DOMAIN joins : joins[k].by = g
  PROVE  Latest(g) \in DOMAIN joins /\ joins[Latest(g)].by = g
<1>1. Len(joins) \in Nat /\ DOMAIN joins = 1..Len(joins)
  BY DEF TypeOK
<1>2. PICK S : S = {k \in DOMAIN joins : joins[k].by = g}
  OBVIOUS
<1>3. S \subseteq 1..Len(joins) /\ S # {}
  BY <1>1, <1>2
<1>4. Max(S) \in S
  BY <1>1, <1>3, Greatest
<1> QED BY <1>2, <1>4 DEF Latest

LEMMA AsksAnswered ==
  ASSUME GuestInv, AnsweredInv, NEW c \in Consumers, NEW type \in {"SHARED", "INDIVIDUAL"}, Asks(c, type)
  PROVE  AnsweredInv'
<1>1. PICK w : w = handlers[c].who
  OBVIOUS
<1>2. PICK j : j = Asking(c, type)
  OBVIOUS
<1>3. /\ handlers[c].at = "think" /\ joins' = Append(joins, j) /\ UNCHANGED <<overwritten, undelivered>>
      /\ handlers[c].sess.state = "WAITING_COLLAB_CHOICE"
  BY <1>2 DEF Asks
<1>4. j.by = w /\ j.status = "PENDING"
  BY <1>1, <1>2 DEF Asking
<1>5. handlers[c].sess \in Session
  BY <1>3, Working
<1>6. PICK s : s = To(handlers[c].sess, "WAITING_JOIN_APPROVAL")
  OBVIOUS
<1>7. s \in Session
  BY <1>5, <1>6, Moved DEF States
<1>8. /\ handlers'[c].who = w /\ handlers'[c].base = handlers[c].base
      /\ \A d \in Consumers \ {c} : handlers'[d] = handlers[d]
  BY <1>1, <1>6, <1>7, Finishing DEF Asks
<1>9. joins' \in Seq(Join) /\ TypeOK
  BY AsksInv DEF GuestInv, TypeOK
<1>10. sessions \in [Participants -> Session]
  BY DEF GuestInv, TypeOK
<1> SUFFICES ASSUME NEW g \in Guests \ overwritten
             PROVE  Heard(g)'
  BY <1>3 DEF AnsweredInv
<1>11. Heard(g) /\ g \in Participants
  BY DEF AnsweredInv, Participants
<1>12. sessions'[g] = sessions[g] \/ sessions'[g].state = "WAITING_OPENER_DECISION"
  BY <1>10, <1>11 DEF Asks, Session
<1>13. CASE sessions'[g].state = "WAITING_OPENER_DECISION"
  BY <1>13, HeardSettled
<1>14. CASE sessions'[g] = sessions[g] /\ g = w
  <2>1. ~Answered(g)'
    <3>1. Latest(g)' = Len(joins) + 1
      BY <1>3, <1>4, <1>9, <1>14, AppendedLatest
    <3>2. joins'[Len(joins) + 1] = j
      BY <1>3, <1>9 DEF TypeOK
    <3> QED BY <1>4, <3>1, <3>2 DEF Answered
  <2>2. \A d \in Consumers : handlers'[d].who = handlers[d].who /\ handlers'[d].base = handlers[d].base
    BY <1>1, <1>8
  <2> QED BY <1>11, <1>14, <2>1, <2>2 DEF Heard
<1>15. CASE sessions'[g] = sessions[g] /\ g # w
  <2>1. Answered(g)' => Answered(g)
    <3>1. ASSUME Answered(g)'
          PROVE  Answered(g)
      <4>1. /\ \E k \in DOMAIN joins : joins[k].by = g
            /\ Latest(g)' = Latest(g) /\ joins'[Latest(g)'].status # "PENDING"
        BY <1>3, <1>4, <1>9, <1>15, <3>1, AppendedLatest DEF Answered
      <4>2. Latest(g) \in DOMAIN joins
        BY <1>9, <4>1, LatestIn
      <4>3. joins'[Latest(g)] = joins[Latest(g)]
        BY <1>3, <1>9, <4>2 DEF TypeOK
      <4> QED BY <4>1, <4>3 DEF Answered
    <3> QED BY <3>1
  <2>2. ASSUME NEW d \in Consumers, Told(d, g)
        PROVE  Told(d, g)'
    <3>1. PICK a : a = handlers[d].sess.ask
      OBVIOUS
    <3>2. Sound(handlers[d]) /\ handlers[d].at = "deliver" /\ d # c /\ joins[a].by = g
      BY <1>3, <2>2, <3>1 DEF Told, GuestInv
    <3>3. a \in 0..MaxJoins /\ a <= Len(joins) /\ a # 0
      BY <3>1, <3>2 DEF Sound, Good, Session
    <3>4. a \in DOMAIN joins
      BY <1>9, <3>3, Bounded DEF TypeOK
    <3>5. joins'[a] = joins[a]
      BY <1>3, <1>9, <3>4 DEF TypeOK
    <3>6. Latest(g)' = Latest(g)
      BY <1>3, <1>4, <1>9, <1>15, AppendedLatest
    <3> QED BY <1>8, <2>2, <3>1, <3>2, <3>5, <3>6 DEF Told
  <2>21. Accounted(g) => Accounted(g)'
    <3>1. Latest(g)' = Latest(g)
      BY <1>3, <1>4, <1>9, <1>15, AppendedLatest
    <3> QED BY <1>3, <2>2, <3>1 DEF Accounted
  <2>3. \A d \in Consumers : handlers'[d].who = g => d # c
    BY <1>8, <1>15
  <2> QED BY <1>8, <1>11, <1>15, <2>1, <2>21, <2>3, HeardKept
<1> QED BY <1>12, <1>13, <1>14, <1>15

LEMMA AnswersAnswered ==
  ASSUME GuestInv, AnsweredInv, NEW c \in Consumers, NEW status \in {"APPROVED", "REJECTED"}, Answers(c, status)
  PROVE  AnsweredInv'
<1>1. PICK a : a = handlers[c].sess.ask
  OBVIOUS
<1>2. PICK j : j = joins[a]
  OBVIOUS
<1>3. /\ handlers[c].at = "think" /\ handlers[c].sess.state = "WAITING_OPENER_DECISION" /\ a # 0
      /\ joins' \in {joins, [joins EXCEPT ![a].status = status]}
      /\ UNCHANGED <<sessions, overwritten>>
  BY <1>1, <1>2 DEF Answers
<1>4. handlers[c] \in Handler /\ handlers[c].sess \in Session /\ Good(handlers[c].who, handlers[c].sess)
  BY <1>3, Working
<1>5. Len(joins) \in Nat /\ DOMAIN joins = 1..Len(joins) /\ \A k \in DOMAIN joins : joins[k] \in Join
  BY DEF GuestInv, TypeOK
<1>6. a \in DOMAIN joins
  <2>1. a \in 0..MaxJoins /\ a <= Len(joins)
    BY <1>1, <1>4 DEF Good, Session
  <2> QED BY <1>3, <1>5, <2>1, Bounded
<1>7. /\ DOMAIN joins' = DOMAIN joins
      /\ \A k \in DOMAIN joins : joins'[k].by = joins[k].by /\ (k # a => joins'[k] = joins[k])
  <2>1. joins[a] \in Join
    BY <1>5, <1>6
  <2>2. PICK n : n = [joins[a] EXCEPT !.status = status]
    OBVIOUS
  <2>3. n.by = joins[a].by
    BY <2>1, <2>2 DEF Join
  <2>4. joins' \in {joins, [joins EXCEPT ![a] = n]}
    BY <1>3, <2>2
  <2> QED BY <1>5, <1>6, <2>3, <2>4
<1>8. PICK s : s = To([handlers[c].sess EXCEPT !.ask = 0], "MAIN_MENU")
  OBVIOUS
<1>9. s \in Session /\ s.state = "MAIN_MENU"
  BY <1>3, <1>8, DoneGood
<1>10. PICK peer : peer = sessions[j.by]
  OBVIOUS
<1>11. \/ peer = NoSession /\ Finish(c, s) /\ UNCHANGED undelivered
       \/ /\ UNCHANGED undelivered
          /\ \E goal \in {"approve", "reject"} : handlers' = [handlers EXCEPT ![c] =
               [@ EXCEPT !.at = "deliver", !.goal = goal, !.peer = peer]]
       \/ Finish(c, s) /\ undelivered' = undelivered \cup {a}
  BY <1>1, <1>2, <1>8, <1>10 DEF Answers
<1>12. undelivered \subseteq undelivered'
  BY <1>11
\* The guest has no session, or is being told, or will not be.
<1>13. /\ handlers'[c].who = handlers[c].who /\ handlers'[c].base = handlers[c].base
       /\ handlers'[c].sess.state \in {"MAIN_MENU", "WAITING_OPENER_DECISION"}
       /\ \/ peer = NoSession
          \/ handlers'[c].at = "deliver" /\ handlers'[c].sess.ask = a
          \/ a \in undelivered'
       /\ \A o \in Consumers \ {c} : handlers'[o] = handlers[o]
  <2>1. CASE Finish(c, s)
    <3>1. peer = NoSession \/ a \in undelivered' \/ handlers'[c].at = "deliver"
      <4>1. ASSUME NEW goal, handlers' = [handlers EXCEPT ![c] =
                     [@ EXCEPT !.at = "deliver", !.goal = goal, !.peer = peer]]
            PROVE  handlers'[c].at = "deliver"
        BY <1>4, <4>1 DEF GuestInv, TypeOK, Handler
      <4> QED BY <1>11, <4>1
    <3>2. handlers'[c].at = "save"
      BY <1>9, <2>1, Finishing
    <3> QED BY <1>9, <2>1, <3>1, <3>2, Finishing
  <2>2. ASSUME NEW goal, handlers' = [handlers EXCEPT ![c] =
               [@ EXCEPT !.at = "deliver", !.goal = goal, !.peer = peer]]
        PROVE  /\ handlers'[c].who = handlers[c].who /\ handlers'[c].base = handlers[c].base
               /\ handlers'[c].sess = handlers[c].sess /\ handlers'[c].at = "deliver"
               /\ \A o \in Consumers \ {c} : handlers'[o] = handlers[o]
    <3>1. PICK d : d = [handlers[c] EXCEPT !.at = "deliver", !.goal = goal, !.peer = peer]
      OBVIOUS
    <3>2. d.at = "deliver" /\ d.who = handlers[c].who /\ d.base = handlers[c].base /\ d.sess = handlers[c].sess
      BY <1>4, <3>1 DEF Handler
    <3>3. handlers'[c] = d /\ \A o \in Consumers \ {c} : handlers'[o] = handlers[o]
      BY <2>2, <3>1 DEF GuestInv, TypeOK
    <3> QED BY <3>2, <3>3
  <2> QED BY <1>1, <1>3, <1>11, <2>1, <2>2
<1> SUFFICES ASSUME NEW g \in Guests \ overwritten
             PROVE  Heard(g)'
  BY <1>3 DEF AnsweredInv
<1>14. Heard(g)
  BY DEF AnsweredInv
<1>15. Latest(g)' = Latest(g)
  <2>1. {k \in DOMAIN joins' : joins'[k].by = g} = {k \in DOMAIN joins : joins[k].by = g}
    BY <1>7
  <2> QED BY <2>1 DEF Latest
<1>16. \A o \in Consumers :
         /\ handlers'[o].who = handlers[o].who /\ handlers'[o].base = handlers[o].base
         /\ (Waits(handlers'[o].sess) => Waits(handlers[o].sess))
  BY <1>13 DEF Waits
<1>17. Accounted(g) => Accounted(g)'
  <2>1. ASSUME NEW o \in Consumers, Told(o, g)
        PROVE  Told(o, g)'
    <3>1. PICK b : b = handlers[o].sess.ask
      OBVIOUS
    <3>2. /\ Sound(handlers[o]) /\ handlers[o].at = "deliver" /\ o # c /\ joins[b].by = g
          /\ b = Latest(g)
      BY <1>3, <2>1, <3>1 DEF Told, GuestInv
    <3>3. b \in 0..MaxJoins /\ b <= Len(joins) /\ b # 0
      BY <3>1, <3>2 DEF Sound, Good, Session
    <3>4. b \in DOMAIN joins
      BY <1>5, <3>3, Bounded
    <3> QED BY <1>7, <1>13, <1>15, <3>1, <3>2, <3>4 DEF Told
  <2> QED BY <1>12, <1>15, <2>1 DEF Accounted
<1>18. CASE Answered(g)' => Answered(g)
  BY <1>3, <1>14, <1>16, <1>17, <1>18, HeardKept
<1>19. CASE Answered(g)' /\ ~Answered(g)
  <2>1. \E k \in DOMAIN joins : joins[k].by = g
    BY <1>7, <1>19 DEF Answered
  <2>2. Latest(g) \in DOMAIN joins /\ joins[Latest(g)].by = g
    BY <2>1, LatestIn DEF GuestInv
  <2>3. a = Latest(g) /\ j.by = g /\ joins'[a].by = g
    BY <1>2, <1>7, <1>15, <1>19, <2>1, <2>2 DEF Answered
  <2>4. CASE peer = NoSession
    <3>1. sessions[g].state = "NONE"
      BY <1>10, <2>3, <2>4, NoSessionParts
    <3>2. \A o \in Consumers : handlers[o].who = g => ~Waits(handlers[o].sess)
      <4> SUFFICES ASSUME NEW o \in Consumers, handlers[o].who = g, Waits(handlers[o].sess)
                   PROVE  FALSE
        OBVIOUS
      <4>1. handlers[o].base.state = "NONE"
        BY <1>14, <3>1 DEF Heard
      <4>2. handlers[o].at # "idle"
        BY GuestsApart DEF GuestInv, Sound, Participants
      <4>3. Comes(handlers[o])
        BY <4>2, Working
      <4> QED BY <4>1, <4>3 DEF Comes, Waits
    <3>3. Past(g)'
      BY <1>3, <1>16, <3>1, <3>2 DEF Past, Waits
    <3> QED BY <1>3, <1>14, <1>16, <3>3 DEF Heard
  <2>5. CASE handlers'[c].at = "deliver" /\ handlers'[c].sess.ask = a
    <3>1. Accounted(g)'
      BY <1>15, <2>3, <2>5 DEF Accounted, Told
    <3> QED BY <1>3, <1>14, <1>16, <3>1 DEF Heard
  <2>6. CASE a \in undelivered'
    <3>1. Accounted(g)'
      BY <1>15, <2>3, <2>6 DEF Accounted
    <3> QED BY <1>3, <1>14, <1>16, <3>1 DEF Heard
  <2> QED BY <1>13, <2>4, <2>5, <2>6
<1> QED BY <1>18, <1>19

LEMMA DeliverAnswered ==
  ASSUME GuestInv, AnsweredInv, NEW c \in Consumers, Deliver(c)
  PROVE  AnsweredInv'
<1>0. PICK a : a = handlers[c].sess.ask
  OBVIOUS
<1>1. PICK b : b = joins[a].by
  OBVIOUS
<1>2. PICK s : s = To([handlers[c].sess EXCEPT !.ask = 0], "MAIN_MENU")
  OBVIOUS
<1>3. handlers[c].at = "deliver" /\ Finish(c, s) /\ UNCHANGED joins
  BY <1>2 DEF Deliver
<1>4. s \in Session /\ s.state = "MAIN_MENU"
  BY <1>2, <1>3, DoneGood
<1>5. /\ handlers'[c].who = handlers[c].who /\ handlers'[c].base = handlers[c].base /\ handlers'[c].sess = s
      /\ \A d \in Consumers \ {c} : handlers'[d] = handlers[d]
  BY <1>3, <1>4, Finishing
<1>6. Sound(handlers[c]) /\ handlers[c] \in Handler /\ Good(handlers[c].who, handlers[c].sess)
  BY <1>3, Working DEF GuestInv
<1>7. PICK peer : peer = handlers[c].peer
  OBVIOUS
<1>8. peer \in Session
  BY <1>6, <1>7 DEF Handler
<1>9. \/ /\ \E n : n.state = "MAIN_MENU" /\ sessions' = [sessions EXCEPT ![b] = n]
         /\ overwritten \subseteq overwritten' /\ undelivered' = undelivered \ {a}
      \/ UNCHANGED <<sessions, overwritten>> /\ undelivered' = undelivered \cup {a}
  <2>1. PICK w : w = WithoutContext(peer)
    OBVIOUS
  <2>2. w \in Session
    BY <1>8, <2>1, Without
  <2>3. \/ \E t : Reaches(c, To([w EXCEPT !.tab = t, !.table = TRUE], "MAIN_MENU"))
        \/ Reaches(c, To(w, "MAIN_MENU"))
    BY <1>7, <2>1 DEF Deliver, Reaches
  <2>4. \A t : To([w EXCEPT !.tab = t, !.table = TRUE], "MAIN_MENU").state = "MAIN_MENU"
    BY <2>2 DEF To, Session
  <2>5. To(w, "MAIN_MENU").state = "MAIN_MENU"
    BY <2>2 DEF To, Session
  <2>6. ASSUME NEW n, n.state = "MAIN_MENU", Reaches(c, n)
        PROVE  \/ /\ sessions' = [sessions EXCEPT ![b] = n]
                  /\ overwritten \subseteq overwritten' /\ undelivered' = undelivered \ {a}
               \/ UNCHANGED <<sessions, overwritten>> /\ undelivered' = undelivered \cup {a}
    BY <1>0, <1>1, <2>6 DEF Reaches, Write
  <2> QED BY <2>3, <2>4, <2>5, <2>6
<1> SUFFICES ASSUME NEW g \in Guests \ overwritten'
             PROVE  Heard(g)'
  BY DEF AnsweredInv
<1>10. Heard(g) /\ g \in Participants
  BY <1>9 DEF AnsweredInv, Participants
<1>11. /\ Answered(g)' => Answered(g)
       /\ Latest(g)' = Latest(g)
  BY <1>3 DEF Answered, Latest
<1>12. \A d \in Consumers :
         /\ handlers'[d].who = handlers[d].who /\ handlers'[d].base = handlers[d].base
         /\ (Waits(handlers'[d].sess) => Waits(handlers[d].sess))
  BY <1>4, <1>5 DEF Waits
<1>13. \A d \in Consumers \ {c} : Told(d, g) => Told(d, g)'
  BY <1>3, <1>5, <1>11 DEF Told
<1>14. CASE /\ \E n : n.state = "MAIN_MENU" /\ sessions' = [sessions EXCEPT ![b] = n]
            /\ undelivered' = undelivered \ {a}
  <2>1. PICK n : n.state = "MAIN_MENU" /\ sessions' = [sessions EXCEPT ![b] = n]
    BY <1>14
  <2>2. \A p \in Participants : sessions'[p] = IF p = b THEN n ELSE sessions[p]
    BY <2>1 DEF GuestInv, TypeOK
  <2>3. CASE g = b
    BY <1>10, <2>1, <2>2, <2>3, HeardSettled
  <2>4. CASE g # b
    <3>1. Accounted(g) /\ Answered(g) => Accounted(g)'
      <4>1. Answered(g) => joins[Latest(g)].by = g
        BY LatestIn DEF Answered, GuestInv
      <4>2. Answered(g) => Latest(g) # a
        BY <1>1, <2>4, <4>1
      <4>3. ~Told(c, g)
        BY <1>0, <1>1, <2>4 DEF Told
      <4> QED BY <1>11, <1>13, <1>14, <4>2, <4>3 DEF Accounted
    <3> QED BY <1>10, <1>11, <1>12, <2>2, <2>4, <3>1, HeardKept
  <2> QED BY <2>3, <2>4
<1>15. CASE UNCHANGED <<sessions, overwritten>> /\ undelivered' = undelivered \cup {a}
  <2>1. Told(c, g) => Latest(g) = a
    BY <1>0 DEF Told
  <2>2. Accounted(g) => Accounted(g)'
    BY <1>11, <1>13, <1>15, <2>1 DEF Accounted
  <2> QED BY <1>10, <1>11, <1>12, <1>15, <2>2, HeardKept
<1> QED BY <1>9, <1>14, <1>15

LEMMA SaveAnswered ==
  ASSUME GuestInv, AnsweredInv, NEW c \in Consumers, Save(c)
  PROVE  AnsweredInv'
<1>1. PICK who : who = handlers[c].who
  OBVIOUS
<1>2. PICK s : s = handlers[c].sess
  OBVIOUS
<1>3. PICK base : base = handlers[c].base
  OBVIOUS
<1>4. /\ handlers[c].at = "save" /\ handlers' = [handlers EXCEPT ![c] = Idle] /\ UNCHANGED <<joins, undelivered>>
      /\ sessions' = [sessions EXCEPT ![who] = s]
      /\ overwritten' = IF sessions[who] = base THEN overwritten ELSE overwritten \cup {who}
  BY <1>1, <1>2, <1>3 DEF Save, Write
<1>5. handlers'[c] = Idle /\ \A d \in Consumers \ {c} : handlers'[d] = handlers[d]
  BY <1>4 DEF GuestInv, TypeOK
<1>6. Comes(handlers[c]) /\ s.state # "NONE" /\ who \in Participants
  BY <1>1, <1>2, <1>4, Working DEF Comes
<1>7. \A p \in Participants : sessions'[p] = IF p = who THEN s ELSE sessions[p]
  BY <1>4, <1>6 DEF GuestInv, TypeOK
<1> SUFFICES ASSUME NEW g \in Guests \ overwritten'
             PROVE  Heard(g)'
  BY DEF AnsweredInv
<1>8. Heard(g) /\ g \in Participants /\ g # Nobody
  BY <1>4, GuestsApart DEF AnsweredInv, Participants
<1>9. Answered(g)' => Answered(g)
  BY <1>4 DEF Answered, Latest
<1>10. Accounted(g) => Accounted(g)'
  <2>1. \A d \in Consumers : Told(d, g) => Told(d, g)'
    BY <1>4, <1>5 DEF Told, Latest
  <2> QED BY <1>4, <2>1 DEF Accounted, Latest
<1>11. \A d \in Consumers : handlers'[d].who = g => d # c /\ handlers'[d] = handlers[d]
  BY <1>5, <1>8, IdleParts
<1>12. CASE g # who
  BY <1>7, <1>8, <1>9, <1>10, <1>11, <1>12, HeardKept
<1>13. CASE g = who
  <2>1. sessions[g] = base
    BY <1>4, <1>13
  <2>2. Past(g) => Past(g)'
    <3> SUFFICES ASSUME Past(g)
                 PROVE  Past(g)'
      OBVIOUS
    <3>1. ~Waits(s)
      BY <1>1, <1>2, <1>3, <1>6, <1>13, <2>1 DEF Past, Comes, Waits
    <3>2. ASSUME NEW d \in Consumers, handlers[d].who = g, Waits(handlers[d].sess)
          PROVE  s.state \notin {"NONE", "WAITING_COLLAB_CHOICE", "WAITING_JOIN_APPROVAL"}
      <4>1. base.state \notin {"NONE", "WAITING_COLLAB_CHOICE", "WAITING_JOIN_APPROVAL"}
        BY <2>1, <3>2 DEF Past
      <4> QED BY <1>2, <1>3, <1>6, <3>1, <4>1 DEF Comes, Waits
    <3> QED BY <1>7, <1>8, <1>11, <1>13, <3>1, <3>2 DEF Past
  <2>3. sessions'[g].state # "NONE"
    BY <1>6, <1>7, <1>13
  <2> QED BY <1>8, <1>9, <1>10, <2>2, <2>3 DEF Heard
<1> QED BY <1>12, <1>13

\* The other steps of a handler leave requests and sessions alone.
LEMMA OtherAnswered ==
  ASSUME GuestInv, AnsweredInv, NEW c \in Consumers, Claims(c) \/ Looks(c) \/ InsertCall(c)
  PROVE  AnsweredInv'
<1>1. handlers[c].at \in {"claim", "look", "insert"} /\ UNCHANGED <<joins, sessions, overwritten, undelivered>>
  BY DEF Claims, Looks, InsertCall
<1>2. /\ handlers'[c].who = handlers[c].who /\ handlers'[c].base = handlers[c].base
      /\ Waits(handlers'[c].sess) => Waits(handlers[c].sess)
      /\ \A d \in Consumers \ {c} : handlers'[d] = handlers[d]
  <2>1. handlers \in [Consumers -> Handler] /\ handlers[c] \in Handler
    BY DEF GuestInv, TypeOK
  <2>2. CASE Claims(c) \/ Looks(c)
    <3>1. PICK at \in {"decide", "insert"} : handlers' = [handlers EXCEPT ![c] = [handlers[c] EXCEPT !.at = at]]
      BY <2>2 DEF Claims, Looks
    <3>2. PICK h : h = [handlers[c] EXCEPT !.at = at]
      OBVIOUS
    <3>3. h.who = handlers[c].who /\ h.base = handlers[c].base /\ h.sess = handlers[c].sess
      BY <2>1, <3>2 DEF Handler
    <3> QED BY <2>1, <3>1, <3>2, <3>3
  <2>3. CASE InsertCall(c)
    <3>1. handlers[c].sess \in Session
      BY <1>1, Working
    <3>2. PICK s : s = To(handlers[c].sess, "MAIN_MENU")
      OBVIOUS
    <3>3. s \in Session /\ s.state = "MAIN_MENU"
      BY <3>1, <3>2, Moved DEF States
    <3> QED BY <2>3, <3>2, <3>3, Finishing DEF InsertCall, Waits
  <2> QED BY <2>2, <2>3
<1> SUFFICES ASSUME NEW g \in Guests \ overwritten
             PROVE  Heard(g)'
  BY <1>1 DEF AnsweredInv
<1>3. Heard(g)
  BY DEF AnsweredInv
<1>4. Answered(g)' => Answered(g)
  BY <1>1 DEF Answered, Latest
<1>5. Accounted(g) => Accounted(g)'
  <2>1. \A d \in Consumers : Told(d, g) => Told(d, g)'
    BY <1>1, <1>2 DEF Told, Latest
  <2> QED BY <1>1, <2>1 DEF Accounted, Latest
<1> QED BY <1>1, <1>2, <1>3, <1>4, <1>5, HeardKept

\* A handler that stops leaves the sessions; the answer it was to tell is not told.
LEMMA StopsAnswered ==
  ASSUME GuestInv, AnsweredInv, NEW c \in Consumers, Stops(c)
  PROVE  AnsweredInv'
<1>1. /\ handlers' = [handlers EXCEPT ![c] = Idle] /\ UNCHANGED <<joins, sessions, overwritten>>
      /\ undelivered \subseteq undelivered'
      /\ handlers[c].at = "deliver" => handlers[c].sess.ask \in undelivered'
  BY DEF Stops
<1>2. handlers'[c] = Idle /\ \A d \in Consumers \ {c} : handlers'[d] = handlers[d]
  BY <1>1 DEF GuestInv, TypeOK
<1> SUFFICES ASSUME NEW g \in Guests \ overwritten
             PROVE  Heard(g)'
  BY <1>1 DEF AnsweredInv
<1>3. Heard(g) /\ g # Nobody
  BY GuestsApart DEF AnsweredInv, Participants
<1>4. /\ Answered(g)' => Answered(g)
      /\ Latest(g)' = Latest(g)
  BY <1>1 DEF Answered, Latest
<1>5. Accounted(g) => Accounted(g)'
  <2>1. \A d \in Consumers \ {c} : Told(d, g) => Told(d, g)'
    BY <1>1, <1>2, <1>4 DEF Told
  <2>2. Told(c, g) => Latest(g) \in undelivered'
    BY <1>1 DEF Told
  <2> QED BY <1>1, <1>4, <2>1, <2>2 DEF Accounted
<1>6. \A d \in Consumers : handlers'[d].who = g => d # c /\ handlers'[d] = handlers[d]
  BY <1>2, <1>3, IdleParts
<1> QED BY <1>1, <1>3, <1>4, <1>5, <1>6, HeardKept

LEMMA StaffAnswered ==
  ASSUME GuestInv, AnsweredInv, Staff
  PROVE  AnsweredInv'
<1>1. UNCHANGED <<joins, handlers, undelivered>>
  BY StaffSteps
<1>2. \/ UNCHANGED <<sessions, overwritten>>
      \/ \E g \in Guests, state \in {"WELCOME", "MAIN_MENU"} : \E n :
           n.state = state /\ sessions' = [sessions EXCEPT ![g] = n] /\ UNCHANGED overwritten
      \/ \E ps \in SUBSET Participants : Forget(ps)
  BY StaffSteps
<1>3. overwritten \subseteq overwritten'
  BY <1>2 DEF Forget
<1>4. sessions \in [Participants -> Session] /\ Guests \subseteq Participants
  BY DEF GuestInv, TypeOK, Participants
<1> SUFFICES ASSUME NEW g \in Guests \ overwritten'
             PROVE  Heard(g)'
  BY DEF AnsweredInv
<1>5. Heard(g) /\ g \in Participants /\ g # Nobody
  BY <1>3, GuestsApart DEF AnsweredInv, Participants
<1>6. \/ sessions'[g] = sessions[g]
      \/ sessions'[g].state \in {"WELCOME", "MAIN_MENU"}
      \/ sessions'[g] = NoSession /\ ~Busy(g)
  BY <1>2, <1>4, <1>5 DEF Forget
<1>7. ~Busy(g) => \A d \in Consumers : handlers[d].who # g
  BY <1>5 DEF Busy, GuestInv, Sound
<1>8. Answered(g)' => Answered(g)
  BY <1>1 DEF Answered, Latest
<1>9. Accounted(g) => Accounted(g)'
  BY <1>1 DEF Accounted, Told, Latest
<1>10. CASE sessions'[g].state \in {"WELCOME", "MAIN_MENU"}
  BY <1>10, HeardSettled
<1>11. CASE sessions'[g] = sessions[g] \/ (sessions'[g] = NoSession /\ ~Busy(g))
  BY <1>1, <1>5, <1>7, <1>8, <1>9, <1>11, HeardKept
<1> QED BY <1>6, <1>10, <1>11

LEMMA StepAnswered ==
  ASSUME GuestInv, AnsweredInv, [Next]_vars
  PROVE  AnsweredInv'
<1>1. CASE (\E g \in Guests : BeginWhatsApp(g)) \/ (\E t \in DOMAIN tabs : BeginPortal(t))
  <2>1. \E c \in Consumers, who \in Participants : Begins(c, who)
    BY <1>1, BeginWhatsAppBegins, BeginPortalBegins DEF Consumers, Participants
  <2> QED BY <2>1, BeginsAnswered
<1>2. CASE \E c \in Consumers : Handle(c)
  <2>1. PICK c \in Consumers : Handle(c)
    BY <1>2
  <2>2. CASE Quiet(c)
    BY <2>2, QuietAnswered
  <2>3. CASE Heeded(c)
    BY <2>3, AsksAnswered, AnswersAnswered, DeliverAnswered, SaveAnswered, OtherAnswered,
       StopsAnswered DEF Heeded
  <2> QED BY <2>1, <2>2, <2>3, HandleCases
<1>3. CASE Staff
  BY <1>3, StaffAnswered
<1>4. CASE UNCHANGED vars
  BY <1>4 DEF vars, AnsweredInv, Heard, Answered, Latest, Past, Accounted, Told
<1> QED BY <1>1, <1>2, <1>3, <1>4 DEF Next

-----------------------------------------------------------------------------
(* Tabs are kept apart.                                                    *)
\* What TabsKeptApart says of the message a consumer handles.
Apart(c) ==
  LET h == handlers'[c]
  IN /\ handlers[c].at = "find" /\ h.tab # 0 =>
          \E how \in Ways : <<h.who, h.tab, how>> \in grants'
     /\ h.at = "look" /\ h.row = tabs[h.tab] =>
          \E how \in {"owner", "portal", "stale"} : <<h.who, h.tab, how>> \in grants

LEMMA LookRight ==
  ASSUME GuestInv, NEW h, Sound(h), h.at = "look", h.row = tabs[h.tab]
  PROVE  \E how \in {"owner", "portal", "stale"} : <<h.who, h.tab, how>> \in grants
<1>1. h.tab \in 0..MaxTabs /\ h.tab # 0 /\ h.tab <= Len(tabs) /\ h.who # Nobody
  BY DEF Sound, Handler
<1>2. h.tab \in DOMAIN tabs
  BY <1>1, Bounded DEF GuestInv, TypeOK
<1>3. h.row.owner = h.who \/ <<h.who, h.tab, "portal">> \in grants
  BY DEF Sound
<1> QED BY <1>1, <1>2, <1>3 DEF GuestInv, OwnersGood

LEMMA SameApart ==
  ASSUME GuestInv, NEW d \in Consumers, handlers'[d] = handlers[d]
  PROVE  Apart(d)
<1>1. Sound(handlers[d])
  BY DEF GuestInv
<1>2. handlers[d].at = "find" => handlers[d].tab = 0
  BY <1>1 DEF Sound
<1>3. handlers[d].at = "look" /\ handlers[d].row = tabs[handlers[d].tab] =>
        \E how \in {"owner", "portal", "stale"} : <<handlers[d].who, handlers[d].tab, how>> \in grants
  BY <1>1, LookRight
<1> QED BY <1>2, <1>3 DEF Apart

LEMMA StepApart ==
  ASSUME GuestInv, [Next]_vars, NEW d \in Consumers
  PROVE  Apart(d)
<1>1. CASE \E c \in Consumers, who \in Participants : Begins(c, who)
  <2>1. PICK c \in Consumers, who \in Participants : Begins(c, who)
    BY <1>1
  <2>2. CASE d = c
    BY <2>1, <2>2 DEF Begins, Apart
  <2>3. CASE d # c
    BY <2>1, <2>3, SameApart DEF Begins
  <2> QED BY <2>2, <2>3
<1>2. CASE \E c \in Consumers : Handle(c)
  <2>1. PICK c \in Consumers : Handle(c)
    BY <1>2
  <2>2. CASE Quiet(c)
    <3>1. PICK h : h = handlers'[d]
      OBVIOUS
    <3>2. /\ handlers[d].at = "find" /\ h.tab # 0 => \E how \in Ways : <<h.who, h.tab, how>> \in grants'
          /\ h.at = "look" => Sound(h)
      BY <2>2, <3>1, QuietApart
    <3> QED BY <3>1, <3>2, LookRight DEF Apart
  <2>3. CASE Heeded(c) /\ d = c
    BY <2>3, HeededTurn DEF Apart
  <2>4. CASE Heeded(c) /\ d # c
    BY <2>4, HeededTurn, SameApart
  <2> QED BY <2>1, <2>2, <2>3, <2>4, HandleCases
<1>3. CASE Staff
  BY <1>3, StaffSteps, SameApart
<1>4. CASE UNCHANGED vars
  BY <1>4, SameApart DEF vars
<1> QED BY <1>1, <1>2, <1>3, <1>4, BeginWhatsAppBegins, BeginPortalBegins DEF Next, Consumers, Participants

-----------------------------------------------------------------------------
(* The theorems.                                                           *)
LEMMA InitCalled == Init => CalledInv
<1> SUFFICES ASSUME Init
             PROVE  CalledInv
  OBVIOUS
<1>1. \A c \in Consumers : handlers[c].at = "idle"
  BY IdleParts DEF Init
<1>2. \A t \in Tabs : calls[t] = 0
  BY DEF Init
<1> QED BY <1>1, <1>2 DEF CalledInv, Inserts

LEMMA InitAnswered == Init => AnsweredInv
<1> SUFFICES ASSUME Init, NEW g \in Guests
             PROVE  Heard(g)
  BY DEF AnsweredInv
<1>1. \A c \in Consumers : handlers[c].who = Nobody
  BY IdleParts DEF Init
<1>2. joins = <<>>
  BY DEF Init
<1>3. ~Answered(g)
  BY <1>2 DEF Answered
<1>4. g # Nobody
  BY GuestsApart DEF Participants
<1> QED BY <1>1, <1>3, <1>4 DEF Heard

\* What the search, the QR code, the answers of openers and the staff leave behind is
\* well formed at every step: sessions refer to tabs and requests that exist, and a
\* handler works for a guest, or a link, that there is.
THEOREM TypeCorrect == Spec => []TypeOK
<1>1. GuestInv => TypeOK
  BY DEF GuestInv
<1> QED BY <1>1, InitInv, StepInv, PTL DEF Spec

\* One tab has one open request to close it, unless two messages looked for one at the
\* same time (FindOpenByTabAndType and the insert after it).
THEOREM CalledOnce == Spec => []AloneCalledOnce
<1>1. GuestInv /\ CalledInv => AloneCalledOnce
  <2> SUFFICES ASSUME GuestInv, CalledInv, NEW t \in Tabs, t \notin crossed
               PROVE  ~(calls[t] > 1)
    BY DEF AloneCalledOnce
  <2>1. calls[t] \in Nat
    BY DEF GuestInv, TypeOK
  <2>2. calls[t] <= 1
    BY DEF CalledInv
  <2> QED BY <2>1, <2>2
<1>2. Init => GuestInv /\ CalledInv
  BY InitInv, InitCalled
<1>3. GuestInv /\ CalledInv /\ [Next]_vars => (GuestInv /\ CalledInv)'
  BY StepInv, StepCalled
<1> QED BY <1>1, <1>2, <1>3, PTL DEF Spec

\* A guest whose request to join was answered does not go on waiting, whatever opener,
\* guest, staff and expiry did in between, unless a session was written over another, or
\* a failure or death after the answer was stored kept it from the session
\* (handleCollabChoice, handleOpenerDecision and the session each message writes).
THEOREM AnsweredHolds == Spec => []AnsweredNotWaiting
<1>1. AnsweredInv => AnsweredNotWaiting
  BY DEF AnsweredInv, AnsweredNotWaiting, Heard, Answered, Past, Accounted, Told, Waits
<1>2. Init => GuestInv /\ AnsweredInv
  BY InitInv, InitAnswered
<1>3. GuestInv /\ AnsweredInv /\ [Next]_vars => (GuestInv /\ AnsweredInv)'
  BY StepInv, StepAnswered
<1> QED BY <1>1, <1>2, <1>3, PTL DEF Spec

\* The search of a message finds only a tab its guest was let into, and only the owner
\* or a holder of the tab's link calls the staff to close it (findSessionOpenTab,
\* canSessionAccessTab, canSessionCloseTab).
THEOREM KeptApart == Spec => TabsKeptApart
<1>1. GuestInv /\ [Next]_vars =>
        [\A c \in Consumers :
           LET h == handlers'[c]
           IN /\ handlers[c].at = "find" /\ h.tab # 0 =>
                   \E how \in Ways : <<h.who, h.tab, how>> \in grants'
              /\ h.at = "look" /\ h.row = tabs[h.tab] =>
                   \E how \in {"owner", "portal", "stale"} : <<h.who, h.tab, how>> \in grants]_vars
  BY StepApart DEF Apart
<1> QED BY <1>1, InitInv, StepInv, PTL DEF Spec, TabsKeptApart
=============================================================================
