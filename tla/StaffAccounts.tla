--------------------------- MODULE StaffAccounts ---------------------------
(* Accounts of the people who work in the restaurants, as the panel's        *)
(* auth.service and the support's super-admin.service change them. Nothing   *)
(* locks a row: a request reads it, checks, and later saves what it read     *)
(* with its change, every column that differs from the table included.       *)
EXTENDS Integers, FiniteSets

CONSTANTS Desks,        \* requests under way at once
          Users,        \* rows, numbered in the order of creation
          Emails,       \* numbered too: at first everybody has their own
          Roles,        \* ADMIN, MANAGER and some that manage nobody
          Restaurants,
          MaxPassword, MaxRequests

ASSUME AccountsAssumption ==
  /\ IsFiniteSet(Desks) /\ IsFiniteSet(Users) /\ Users \subseteq Nat \ {0}
  /\ Users \subseteq Emails /\ Emails \subseteq Nat \ {0}
  /\ {"ADMIN", "MANAGER"} \subseteq Roles /\ Restaurants # {}
  /\ MaxPassword \in Nat \ {0} /\ MaxRequests \in Nat

VARIABLES users,         \* rows or None
          restaurants,   \* those with a row
          tokens,        \* users whose browser holds a token
          session,       \* of the support: none, live or ended
          desk,          \* the request under way at each
          requests,      \* started so far
          lastPassword,  \* passwords are numbered as they are set
          crossed,       \* two requests that take an administrator away overlapped, or an old row was saved
          dismissed,     \* users deactivated with nobody else at work on them, and not activated since
          replaced       \* passwords replaced in the same way, of each user

accountsVars == <<users, restaurants, tokens, session, desk, requests, lastPassword, crossed, dismissed, replaced>>
accountsGhosts == <<crossed, dismissed, replaced>>

Support == 0
None == [email |-> 0]
NoRequest == [op |-> "none"]
Rows == {u \in Users : users[u] # None}
Taken(e, except) == \E u \in Rows \ except : users[u].email = e
ActiveAdmins(r) == {u \in Rows : users[u].restaurant = r /\ users[u].role = "ADMIN" /\ users[u].active}

AccountsInit ==
  LET first == CHOOSE u \in Users : \A w \in Users : u <= w
      second == CHOOSE u \in Users \ {first} : \A w \in Users \ {first} : u <= w
      home == CHOOSE r \in Restaurants : TRUE
  IN \E role \in {"ADMIN", "MANAGER"} :
       /\ users = [u \in Users |->
            IF u \in {first, second}
            THEN [email |-> u, role |-> IF u = first THEN "ADMIN" ELSE role,
                  active |-> TRUE, pass |-> 1, restaurant |-> home]
            ELSE None]
       /\ restaurants = {home}
       /\ tokens = {first, second}
       /\ session = "none" /\ desk = [h \in Desks |-> NoRequest] /\ requests = 0 /\ lastPassword = 1
       /\ crossed = FALSE /\ dismissed = {} /\ replaced = [u \in Users |-> {}]

---------------------------------------------------------------------------

canActorAssignRole(actor, role) == actor = "ADMIN" \/ (actor = "MANAGER" /\ role # "ADMIN")
canActorManageTarget(actor, role) == actor \in {"ADMIN", "MANAGER"} /\ ~(actor = "MANAGER" /\ role = "ADMIN")

\* Desk h is at work on user u; another desk is.
IsAbout(h, u) == desk[h] # NoRequest /\ desk[h].of = u
OthersOn(h, u) == \E k \in Desks \ {h} : IsAbout(k, u)
TakesAdminAway(d) == d # NoRequest /\ d.op \in {"role", "status"}

Start(h, d) ==
  /\ desk[h] = NoRequest /\ requests < MaxRequests
  /\ requests' = requests + 1
  /\ desk' = [desk EXCEPT ![h] = d]
  /\ crossed' = (crossed \/ (TakesAdminAway(d) /\ \E k \in Desks \ {h} : TakesAdminAway(desk[k])))
  /\ UNCHANGED <<users, restaurants, lastPassword, dismissed, replaced>>
Advance(h, at) == /\ desk' = [desk EXCEPT ![h].at = at]
             /\ UNCHANGED <<users, restaurants, tokens, session, requests, lastPassword, accountsGhosts>>
Drop(h) == /\ desk' = [desk EXCEPT ![h] = NoRequest]
           /\ UNCHANGED <<users, restaurants, tokens, session, requests, lastPassword, accountsGhosts>>

\* The token names the user; row, activity and role are those of the moment.
Trusts(u) == u \in tokens /\ users[u] # None
validate(u) == u \in tokens /\ users[u] # None /\ users[u].active

\* What a request of u is: the target and the change that is asked for.
Asks(op, u, t, change) == [op |-> op, at |-> "load", by |-> u, role |-> users[u].role,
                           of |-> t, to |-> change, row |-> None]

\* The login reads the row, compares the password and saves the row with the time.
Login(h) ==
  \E u \in Rows, p \in 1..lastPassword :
    /\ users[u].active /\ users[u].pass = p
    /\ Start(h, [op |-> "login", at |-> "save", by |-> u, role |-> users[u].role,
                 of |-> u, to |-> p, row |-> users[u]])
    /\ UNCHANGED <<tokens, session>>

StartCreateUser(h) ==
  \E u \in Rows, t \in Users \ Rows, role \in Roles, e \in Emails :
    /\ validate(u) /\ canActorAssignRole(users[u].role, role)
    /\ ~Taken(e, {})
    /\ \A k \in Desks : ~IsAbout(k, t)
    /\ Start(h, [Asks("create", u, t, e) EXCEPT !.at = "save",
                   !.row = [email |-> e, role |-> role, active |-> TRUE, pass |-> 1,
                            restaurant |-> users[u].restaurant]])
    /\ UNCHANGED <<tokens, session>>

\* A request about a colleague, or about oneself.
StartUpdate(h) ==
  \E u, t \in Rows :
    /\ validate(u) /\ users[u].restaurant = users[t].restaurant
    /\ \/ \E role \in Roles : Start(h, Asks("role", u, t, role))
       \/ \E e \in Emails : Start(h, Asks("email", u, t, e))
       \/ \E a \in BOOLEAN : Start(h, Asks("status", u, t, a))
       \/ Start(h, Asks("reset", u, t, 0))
       \/ u = t /\ Start(h, Asks("change", u, t, users[u].pass))
    /\ UNCHANGED <<tokens, session>>

\* getManagedUserOrFail and the checks on what was read.
Loaded(h, allowed, row, next) ==
  IF allowed
  THEN /\ desk' = [desk EXCEPT ![h].row = row, ![h].at = next]
       /\ UNCHANGED <<users, restaurants, tokens, session, requests, lastPassword, accountsGhosts>>
  ELSE Drop(h)

updateUser(h) ==
  /\ desk[h] # NoRequest /\ desk[h].at = "load" /\ desk[h].op \in {"role", "email"}
  /\ LET d == desk[h]
         row == users[d.of]
         manages == canActorManageTarget(d.role, row.role)
     IN IF d.op = "role"
        THEN Loaded(h, manages /\ canActorAssignRole(d.role, d.to), [row EXCEPT !.role = d.to],
                    IF row.role = "ADMIN" /\ d.to # "ADMIN" THEN "count" ELSE "save")
        ELSE Loaded(h, manages /\ ~Taken(d.to, {d.of}), [row EXCEPT !.email = d.to], "save")

updateUserStatus(h) ==
  /\ desk[h] # NoRequest /\ desk[h].at = "load" /\ desk[h].op = "status"
  /\ LET d == desk[h]
         row == users[d.of]
     IN Loaded(h, canActorManageTarget(d.role, row.role) /\ (d.to \/ d.by # d.of),
               [row EXCEPT !.active = d.to],
               IF ~d.to /\ row.role = "ADMIN" THEN "count" ELSE "save")

resetUserPassword(h) ==
  /\ desk[h] # NoRequest /\ desk[h].at = "load" /\ desk[h].op = "reset"
  /\ LET row == users[desk[h].of]
     IN Loaded(h, canActorManageTarget(desk[h].role, row.role), row, "hash")

\* One's own password: the current one is asked for.
changePassword(h) ==
  /\ desk[h] # NoRequest /\ desk[h].at = "load" /\ desk[h].op = "change"
  /\ LET row == users[desk[h].of]
     IN Loaded(h, row.active /\ row.pass = desk[h].to, row, "hash")

HashPassword(h) ==
  /\ desk[h] # NoRequest /\ desk[h].at = "hash" /\ lastPassword < MaxPassword
  /\ lastPassword' = lastPassword + 1
  /\ desk' = [desk EXCEPT ![h].at = "save", ![h].row.pass = lastPassword + 1]
  /\ UNCHANGED <<users, restaurants, tokens, session, requests, accountsGhosts>>

anotherAdminExists(u) == \E w \in Rows \ {u} : users[w].role = "ADMIN" /\ users[w].restaurant = users[u].restaurant
ensureAnotherActiveAdminExists(u) ==
  ActiveAdmins(users[u].restaurant) \ {u} # {}
CountAdmins(h) ==
  /\ desk[h] # NoRequest /\ desk[h].at = "count"
  /\ IF ensureAnotherActiveAdminExists(desk[h].of) THEN Advance(h, "save") ELSE Drop(h)

\* What a save leaves behind, for the properties.
Noted(h, row) ==
  LET d == desk[h]
      u == d.of
      old == users[u]
      alone == ~OthersOn(h, u)
      had == old # None
  IN /\ dismissed' = IF had /\ old.active /\ ~row.active /\ alone THEN dismissed \cup {u}
                     ELSE IF d.op = "status" /\ row.active THEN dismissed \ {u} ELSE dismissed
     /\ replaced' = IF had /\ old.pass # row.pass /\ alone
                    THEN [replaced EXCEPT ![u] = (@ \cup {old.pass}) \ {row.pass}] ELSE replaced
     /\ crossed' = (crossed \/ (had /\ OthersOn(h, u)))

\* save() writes every column that differs from the table; e-mails are unique.
SaveUser(h) ==
  /\ desk[h] # NoRequest /\ desk[h].at = "save" /\ desk[h].by # Support
  /\ LET d == desk[h]
     IN IF Taken(d.row.email, {d.of}) THEN Drop(h)
        ELSE /\ users' = [users EXCEPT ![d.of] = d.row]
             /\ tokens' = IF d.op = "login" THEN tokens \cup {d.of} ELSE tokens
             /\ Noted(h, d.row)
             /\ desk' = [desk EXCEPT ![h] = NoRequest]
             /\ UNCHANGED <<restaurants, session, requests, lastPassword>>

---------------------------------------------------------------------------
(* The support *)

SupportLogin ==
  /\ session # "live" /\ requests < MaxRequests
  /\ session' = "live" /\ requests' = requests + 1
  /\ UNCHANGED <<users, restaurants, tokens, desk, lastPassword, accountsGhosts>>
requireAuthenticatedSession == session = "live"
logoutSession ==
  /\ requireAuthenticatedSession
  /\ session' = "ended"
  /\ UNCHANGED <<users, restaurants, tokens, desk, requests, lastPassword, accountsGhosts>>
SessionExpires ==
  /\ session = "live"
  /\ session' = "ended"
  /\ UNCHANGED <<users, restaurants, tokens, desk, requests, lastPassword, accountsGhosts>>

\* Whose row a request of the support ends in: a new one or the oldest administrator's.
NewRow == {u \in Users \ Rows : \A k \in Desks : ~IsAbout(k, u)}
Admins(r) == {u \in Rows : users[u].restaurant = r /\ users[u].role = "ADMIN"}
Oldest(S) == CHOOSE u \in S : \A w \in S : u <= w
AdminRow(r, e) == [email |-> e, role |-> "ADMIN", active |-> TRUE, pass |-> lastPassword, restaurant |-> r]

\* The restaurant is saved first, its administrator after; nothing undoes the first.
createTenant(h) ==
  /\ requireAuthenticatedSession
  /\ \E r \in Restaurants \ restaurants, u \in NewRow, e \in Emails :
       /\ desk[h] = NoRequest /\ requests < MaxRequests
       /\ requests' = requests + 1
       /\ restaurants' = restaurants \cup {r}
       /\ desk' = [desk EXCEPT ![h] = [op |-> "found", at |-> "save", by |-> Support, role |-> "ADMIN",
                                          of |-> u, to |-> e, row |-> AdminRow(r, e)]]
  /\ UNCHANGED <<users, tokens, session, lastPassword, accountsGhosts>>

\* E-mail or password of the oldest administrator, active or not; without one, a new one.
updateTenant(h) ==
  /\ requireAuthenticatedSession
  /\ \E r \in restaurants, e \in Emails :
       IF Admins(r) = {}
       THEN \E u \in NewRow :
              Start(h, [op |-> "admin", at |-> "save", by |-> Support, role |-> "ADMIN",
                        of |-> u, to |-> e, row |-> AdminRow(r, e)])
       ELSE LET u == Oldest(Admins(r))
            IN \/ Start(h, [op |-> "admin", at |-> "save", by |-> Support, role |-> "ADMIN",
                            of |-> u, to |-> e, row |-> [users[u] EXCEPT !.email = e]])
               \/ Start(h, [op |-> "admin", at |-> "hash", by |-> Support, role |-> "ADMIN",
                            of |-> u, to |-> e, row |-> users[u]])
  /\ UNCHANGED <<tokens, session>>

SaveAdmin(h) ==
  /\ desk[h] # NoRequest /\ desk[h].at = "save" /\ desk[h].by = Support
  /\ LET d == desk[h]
     IN IF Taken(d.row.email, {d.of}) THEN Drop(h)
        ELSE /\ users' = [users EXCEPT ![d.of] = d.row]
             /\ Noted(h, d.row)
             /\ desk' = [desk EXCEPT ![h] = NoRequest]
             /\ UNCHANGED <<restaurants, tokens, session, requests, lastPassword>>

Desk(h) == \/ Login(h) \/ StartCreateUser(h) \/ StartUpdate(h)
           \/ updateUser(h) \/ updateUserStatus(h) \/ resetUserPassword(h) \/ changePassword(h)
           \/ HashPassword(h) \/ CountAdmins(h) \/ SaveUser(h)
           \/ createTenant(h) \/ updateTenant(h) \/ SaveAdmin(h)

AccountsNext == (\E h \in Desks : Desk(h)) \/ SupportLogin \/ logoutSession \/ SessionExpires
AccountsSpec == AccountsInit /\ [][AccountsNext]_accountsVars

---------------------------------------------------------------------------

(* A restaurant that has an active administrator keeps one, whoever changes roles and     *)
(* activity in whatever order: while two such requests do not overlap, which the count    *)
(* before the save does not see, and no request saves a row that another one was changing. *)
AdminRemains ==
  [][\A r \in restaurants : ~crossed' /\ ActiveAdmins(r) # {} => ActiveAdmins(r)' # {}]_accountsVars

(* What was taken back stays so. A member who was deactivated, and a password that was     *)
(* replaced, while no other request about that user was under way, open nothing until     *)
(* somebody activates the member again: no request is started for the one or with the     *)
(* other, though browsers keep their tokens and later requests save whole rows.           *)
RevocationsHold ==
  [][\A h \in Desks : desk[h] = NoRequest /\ desk'[h] # NoRequest =>
       /\ desk'[h].by \notin dismissed
       /\ desk'[h].op = "login" => desk'[h].to \notin replaced[desk'[h].of]]_accountsVars
===========================================================================
