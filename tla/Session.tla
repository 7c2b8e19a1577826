------------------------------- MODULE Session -------------------------------
(***************************************************************************)
(* One browser tab of the console and its account: the start-up check, the *)
(* login, the periodic refresh of /api/auth/me, sign-out, session expiry   *)
(* seen by any request, the query cache that belongs to the account, and   *)
(* the users page that edits accounts.                                     *)
(*                                                                         *)
(* A request is a record in net.  It carries the session cookie of the     *)
(* moment it was sent, is served by the backend in one step and answered   *)
(* to the tab in a later one; requests are served and answered in any      *)
(* order.  The password, names and the wording of errors are left out.     *)
(***************************************************************************)
EXTENDS Integers, Sequences, FiniteSets, TLC

CONSTANTS
  Accounts,       \* rows of the users table
  Seed,           \* account -> role at the start ("none": no such row)
  Pages,          \* of "overview", "users", "settings": the pages visited
  AuthOff,        \* the backend answers without a session (development)
  MaxLogins, MaxNet, MaxPolls, MaxWrites,   \* bounds
  MaxNetFaults    \* lost messages and expired sessions

Nothing == "none"

\* What the instance must satisfy; a backend without authentication has no sessions to give.
SessionAssumption ==
  /\ {MaxLogins, MaxNet, MaxPolls, MaxWrites, MaxNetFaults} \subseteq Nat
  /\ Seed \in [Accounts -> {"admin", "viewer", "none"}]
  /\ Pages \subseteq {"overview", "users", "settings"} /\ "overview" \in Pages
  /\ AuthOff \in BOOLEAN /\ (AuthOff => MaxLogins = 0)
  /\ Accounts \cap {"nobody", "dev", Nothing} = {}

VARIABLES
  user,        \* AuthProvider: Nobody or [id, role, perms]
  gate,        \* [checking, backendError, crashed]
  cookie,      \* session of the cookie jar, 0 when there is none
  net,         \* requests under way: [kind, for, arg, sess, asked, ans]
  users,       \* the query of that name: NoUsers or [who, ver, err, stale]; history: outrun, its read
               \* was under way, and left so, when a write was acknowledged
  page,        \* [at, create, form, target, collapsed, stored]
  accounts,    \* backend: account -> [role, enabled]
  owner, live, \* backend: account of each session, sessions not ended
  ver, acked,  \* writes to the table, the newest one this tab was told of
  netFaults

sessionVars == <<user, gate, cookie, net, users, page, accounts, owner, live, ver, acked, netFaults>>
backend == <<accounts, owner, live, ver>>

Nobody == [id |-> "nobody"]
Dev == [id |-> "dev", role |-> "admin", perms |-> TRUE]
NoUsers == [who |-> "nobody"]
Waiting == [code |-> "waiting"]
Code(c) == [code |-> c]

Req(kind, for, arg) == [kind |-> kind, for |-> for, arg |-> arg, sess |-> cookie, asked |-> user.id, ans |-> Waiting]
Boot(c) == [kind |-> "me", for |-> "init", arg |-> Nothing, sess |-> c, asked |-> "nobody", ans |-> Waiting]
Blank(stored) == [at |-> "overview", create |-> FALSE, form |-> FALSE, target |-> Nothing, collapsed |-> FALSE, stored |-> stored]

\* The tab is opened, with the cookie of an earlier visit or with none.
SessionInit ==
  \E a \in Accounts \cup {Nothing} :
    /\ a # Nothing => Seed[a] # "none" /\ MaxLogins > 0
    /\ owner = (IF a = Nothing THEN <<>> ELSE <<a>>)
    /\ cookie = Len(owner) /\ live = 1..Len(owner)
    /\ user = Nobody /\ gate = [checking |-> TRUE, backendError |-> FALSE, crashed |-> FALSE]
    /\ net = {Boot(cookie)} /\ users = NoUsers /\ page = Blank(FALSE)
    /\ accounts = [b \in Accounts |-> [role |-> Seed[b], enabled |-> Seed[b] # "none"]]
    /\ ver = 0 /\ acked = 0 /\ netFaults = 0

----------------------------------------------------------------------------
(* What the tab shows. *)

\* AppContent.
Screen ==
  IF gate.crashed THEN "crashed" ELSE IF gate.checking THEN "spinner"
  ELSE IF gate.backendError THEN "unavailable" ELSE IF user = Nobody THEN "login" ELSE "shell"

\* rbac.ts on the permissions the user object carries; none when they are missing.
CanManageUsers == user # Nobody /\ user.perms /\ user.role = "admin"

\* Navigation entries of the sidebar.
VisibleNav == {p \in Pages : p = "users" => CanManageUsers}

\* The users page renders nothing, and leaves, without the permission.
UsersPage == Screen = "shell" /\ page.at = "users" /\ CanManageUsers

\* Rows that can be edited: not one's own.
EditableRows == {a \in Accounts : users # NoUsers /\ a # user.id}

Writes == {"create", "update", "delete"}
PagePending(kind) == \E q \in net : q.kind = kind /\ q.for = "page"
Polls == {q \in net : q.for = "poll"}
Room == Cardinality(net \ Polls) < MaxNet

----------------------------------------------------------------------------
(* AuthProvider. *)

\* usersEqual reads the permissions of both only when all before them is equal.
Throws(a, b) == a.id # "nobody" /\ a.id = b.id /\ a.role = b.role /\ ~(a.perms /\ b.perms)

\* With the query cache goes the read that would have filled it, with a component the
\* interest in the answers to its requests; the requests themselves are not aborted.
Orphan(q) == IF q.kind = "users" \/ q.for = "page" THEN [q EXCEPT !.for = "gone"] ELSE q

\* A page that is left: a read under way belongs to the cache and still fills it.
LeavePage(q) == IF q.kind # "users" /\ q.for = "page" THEN [q EXCEPT !.for = "gone"] ELSE q

FetchUsers == Req("users", "page", Nothing)
Fetching == \E q \in net : q.kind = "users" /\ q.for = "page"

\* The users page is mounted with a shell that another account enters, and reads its list.
MountFor(u) == IF u # Nobody /\ page.at = "users" THEN {[FetchUsers EXCEPT !.asked = u.id]} ELSE {}

\* Mutant of UpdateUser: the cache outlives the account.
UpdateUserKeeps(u, rest) ==
  /\ user' = u /\ users' = users
  /\ net' = IF u.id # user.id THEN {Orphan(q) : q \in rest} \cup MountFor(u) ELSE rest
  /\ page' = IF u.id = user.id THEN page ELSE [Blank(page.stored) EXCEPT !.collapsed = page.stored, !.at = page.at]
  /\ gate' = [gate EXCEPT !.crashed = Throws(user, u), !.checking = FALSE]

\* updateUser: another identity clears the query cache; the shell is left or
\* mounted again, and a mounted shell reads the stored state of the sidebar.
UpdateUser(u, rest) ==
  /\ user' = u
  /\ users' = IF u.id # user.id THEN NoUsers ELSE users
  /\ net' = IF u.id # user.id THEN {Orphan(q) : q \in rest} \cup MountFor(u) ELSE rest
  /\ page' = IF u.id = user.id THEN page ELSE [Blank(page.stored) EXCEPT !.collapsed = page.stored, !.at = page.at]
  /\ gate' = [gate EXCEPT !.crashed = Throws(user, u), !.checking = FALSE]

\* The answer changes nothing in the provider.
Ignore(rest) == net' = rest /\ UNCHANGED <<user, gate, users, page>>

Unavailable(rest) ==
  /\ gate' = [gate EXCEPT !.backendError = TRUE, !.checking = FALSE]
  /\ net' = rest /\ UNCHANGED <<user, users, page>>

\* The initial check; a 401 starts the probe for a backend without
\* authentication, and the spinner ends without waiting for it.
InitAnswer(q) ==
  /\ q.kind = "me" /\ q.for = "init"
  /\ CASE q.ans.code = "user" -> UpdateUser(q.ans.user, net \ {q})
       [] q.ans.code = "401" ->
            /\ gate' = [gate EXCEPT !.checking = FALSE]
            /\ net' = (net \ {q}) \cup {Req("probe", "init", Nothing)}
            /\ UNCHANGED <<user, users, page>>
       [] OTHER -> Unavailable(net \ {q})
  /\ UNCHANGED <<cookie, acked, netFaults>> /\ UNCHANGED backend

ProbeAnswer(q) ==
  /\ q.kind = "probe"
  /\ CASE q.ans.code = "ok" -> UpdateUser(Dev, net \ {q})
       [] q.ans.code = "401" -> Ignore(net \ {q})
       [] OTHER -> Unavailable(net \ {q})
  /\ UNCHANGED <<cookie, acked, netFaults>> /\ UNCHANGED backend

\* handleSubmit; the button is disabled while a login is under way.
Login(a) ==
  /\ Screen = "login" /\ ~\E q \in net : q.for = "login"
  /\ Room /\ Len(owner) < MaxLogins
  /\ net' = net \cup {Req("login", "login", a)}
  /\ UNCHANGED <<user, gate, cookie, users, page, acked, netFaults>> /\ UNCHANGED backend

\* The login is answered: the cookie is set and /me asked for the permissions.
LoginAnswer(q) ==
  /\ q.kind = "login"
  /\ IF q.ans.code = "user"
       THEN /\ cookie' = q.ans.sess
            /\ net' = (net \ {q}) \cup {[Req("me", "login", q.ans.user) EXCEPT !.sess = q.ans.sess]}
       ELSE cookie' = cookie /\ net' = net \ {q}
  /\ UNCHANGED <<user, gate, users, page, acked, netFaults>> /\ UNCHANGED backend

\* Without an answer of /me the user of the login response is taken, which has
\* no permissions.
LoginMe(q) ==
  /\ q.kind = "me" /\ q.for = "login"
  /\ UpdateUser(IF q.ans.code = "user" THEN q.ans.user ELSE q.arg, net \ {q})
  /\ UNCHANGED <<cookie, acked, netFaults>> /\ UNCHANGED backend

\* The interval runs while somebody with a session is signed in.
PollMe ==
  /\ ~gate.crashed /\ user.id \notin {"nobody", "dev"}
  /\ Cardinality(Polls \cup {Req("me", "poll", Nothing)}) <= MaxPolls
  /\ Req("me", "poll", Nothing) \notin net
  /\ net' = net \cup {Req("me", "poll", Nothing)}
  /\ UNCHANGED <<user, gate, cookie, users, page, acked, netFaults>> /\ UNCHANGED backend

\* The answer of the interval and of refreshUser.
RefreshAnswer(q) ==
  /\ q.kind = "me" /\ q.for \in {"poll", "refresh"}
  /\ CASE user.id # q.asked -> Ignore(net \ {q})
       [] user.id = q.asked /\ q.ans.code = "user" -> UpdateUser(q.ans.user, net \ {q})
       [] user.id = q.asked /\ q.ans.code = "401" -> UpdateUser(Nobody, net \ {q})
       [] OTHER -> Ignore(net \ {q})
  /\ UNCHANGED <<cookie, acked, netFaults>> /\ UNCHANGED backend

\* SignOutButton.
Logout ==
  /\ Screen = "shell" /\ Room
  /\ net' = net \cup {Req("logout", "logout", Nothing)}
  /\ UNCHANGED <<user, gate, cookie, users, page, acked, netFaults>> /\ UNCHANGED backend

\* Any answer signs the user out; one the backend accepted also clears the cookie.
LogoutAnswer(q) ==
  /\ q.kind = "logout"
  /\ cookie' = IF q.ans.code = "ok" THEN 0 ELSE cookie
  /\ UpdateUser(Nobody, net \ {q})
  /\ UNCHANGED <<acked, netFaults>> /\ UNCHANGED backend

\* The page is loaded again: only the cookie and the stored sidebar survive.
Reload ==
  /\ Screen \in {"unavailable", "crashed"}
  /\ user' = Nobody /\ gate' = [checking |-> TRUE, backendError |-> FALSE, crashed |-> FALSE]
  /\ net' = {Boot(cookie)} /\ users' = NoUsers /\ page' = Blank(page.stored) /\ acked' = 0
  /\ UNCHANGED <<cookie, netFaults>> /\ UNCHANGED backend

----------------------------------------------------------------------------
(* The shell and the account page. *)

\* Following a sidebar link; the users query is fetched on mount when it has no
\* data or stale data and is not being fetched.
Navigate(p) ==
  /\ Screen = "shell" /\ p \in VisibleNav \ {page.at}
  /\ p = "users" => Room
  /\ page' = [Blank(page.stored) EXCEPT !.at = p, !.collapsed = page.collapsed]
  /\ net' = {LeavePage(q) : q \in net}
            \cup (IF p = "users" /\ ~Fetching /\ (users = NoUsers \/ users.stale) THEN {FetchUsers} ELSE {})
  /\ UNCHANGED <<user, gate, cookie, users, acked, netFaults>> /\ UNCHANGED backend

\* A page whose permission is gone replaces itself by the overview.
Redirect ==
  /\ Screen = "shell" /\ page.at = "users" /\ ~CanManageUsers
  /\ page' = [Blank(page.stored) EXCEPT !.collapsed = page.collapsed]
  /\ net' = {LeavePage(q) : q \in net}
  /\ UNCHANGED <<user, gate, cookie, users, acked, netFaults>> /\ UNCHANGED backend

ToggleCollapse ==
  /\ Screen = "shell"
  /\ page' = [page EXCEPT !.collapsed = ~@, !.stored = ~page.collapsed]
  /\ UNCHANGED <<user, gate, cookie, net, users, acked, netFaults>> /\ UNCHANGED backend

\* A saved time zone, then refreshUser; the selector is disabled meanwhile.
SaveSettings ==
  /\ Screen = "shell" /\ page.at = "settings" /\ Room
  /\ ~PagePending("settings")
  /\ net' = net \cup {Req("settings", "page", Nothing)}
  /\ UNCHANGED <<user, gate, cookie, users, page, acked, netFaults>> /\ UNCHANGED backend

\* A 401 of an ordinary request dispatches kp-session-expired, whoever waits.
Expired(q) == UpdateUser(Nobody, net \ {q})

SettingsAnswer(q) ==
  /\ q.kind = "settings"
  /\ CASE q.ans.code = "401" -> Expired(q)
       [] q.ans.code = "ok" /\ q.for = "page" -> Ignore((net \ {q}) \cup {Req("me", "refresh", Nothing)})
       [] OTHER -> Ignore(net \ {q})
  /\ UNCHANGED <<cookie, acked, netFaults>> /\ UNCHANGED backend

----------------------------------------------------------------------------
(* The users page. *)

\* The list is read again in the background.
Refetch ==
  /\ UsersPage /\ users # NoUsers /\ ~Fetching /\ Room
  /\ net' = net \cup {FetchUsers}
  /\ UNCHANGED <<user, gate, cookie, users, page, acked, netFaults>> /\ UNCHANGED backend

UsersAnswer(q) ==
  /\ q.kind = "users"
  /\ CASE q.ans.code = "401" -> Expired(q)
       [] q.for = "gone" /\ q.ans.code # "401" -> Ignore(net \ {q})
       [] q.for = "page" /\ q.ans.code = "list" ->
            /\ users' = [who |-> q.ans.who, ver |-> q.ans.ver, err |-> FALSE, stale |-> FALSE,
                         outrun |-> q.arg = "outrun"]
            /\ net' = net \ {q} /\ UNCHANGED <<user, gate, page>>
       [] OTHER ->
            /\ users' = IF users = NoUsers THEN NoUsers ELSE [users EXCEPT !.err = TRUE, !.stale = TRUE]
            /\ net' = net \ {q} /\ UNCHANGED <<user, gate, page>>
  /\ UNCHANGED <<cookie, acked, netFaults>> /\ UNCHANGED backend

OpenCreate ==
  /\ UsersPage /\ ~page.create
  /\ page' = [page EXCEPT !.create = TRUE]
  /\ UNCHANGED <<user, gate, cookie, net, users, acked, netFaults>> /\ UNCHANGED backend

\* Cancel keeps what was typed.
CancelDialog ==
  /\ UsersPage /\ (page.create \/ page.target # Nothing)
  /\ page' = [page EXCEPT !.create = FALSE, !.target = Nothing]
  /\ UNCHANGED <<user, gate, cookie, net, users, acked, netFaults>> /\ UNCHANGED backend

\* Name and a password long enough are typed.
FillForm ==
  /\ UsersPage /\ page.create /\ ~page.form
  /\ page' = [page EXCEPT !.form = TRUE]
  /\ UNCHANGED <<user, gate, cookie, net, users, acked, netFaults>> /\ UNCHANGED backend

AskDeleteUser(a) ==
  /\ UsersPage /\ a \in EditableRows /\ page.target = Nothing /\ ~page.create
  /\ page' = [page EXCEPT !.target = a]
  /\ UNCHANGED <<user, gate, cookie, net, users, acked, netFaults>> /\ UNCHANGED backend

\* Create, Delete, and the role and enabled controls of a row.
Write(kind, a) ==
  /\ UsersPage /\ Room /\ ~PagePending(kind)
  /\ CASE kind = "create" -> page.create /\ page.form
       [] kind = "delete" -> a = page.target
       [] OTHER -> a \in EditableRows /\ ~page.create /\ page.target = Nothing
  /\ net' = net \cup {Req(kind, "page", a)}
  /\ UNCHANGED <<user, gate, cookie, users, page, acked, netFaults>> /\ UNCHANGED backend

\* invalidateQueries: the list on screen is read again, in place of a read that
\* may have been served before the write.  A first read is not replaced, nor is one that a
\* page which was left had started: `outrun'.
Invalidate(rest) ==
  LET mine == {q \in rest : q.kind = "users" /\ q.for = "page"}
      Kept == (rest \ mine) \cup {[q EXCEPT !.arg = "outrun"] : q \in mine} IN
  CASE page.at # "users" \/ user = Nobody -> Kept
    [] page.at = "users" /\ user # Nobody /\ users = NoUsers -> IF mine = {} THEN rest \cup {FetchUsers} ELSE Kept
    [] OTHER -> (rest \ mine) \cup {[q EXCEPT !.for = "gone"] : q \in mine} \cup {FetchUsers}

\* onSuccess and onError of the three mutations.
WriteAnswer(q) ==
  /\ q.kind \in Writes
  /\ CASE q.ans.code = "401" -> Expired(q) /\ acked' = acked
       [] q.ans.code = "ok" ->
            /\ net' = Invalidate(net \ {q})
            /\ users' = IF users = NoUsers THEN NoUsers ELSE [users EXCEPT !.stale = TRUE]
            /\ page' = CASE q.for # "page" -> page
                         [] q.for = "page" /\ q.kind = "create" -> [page EXCEPT !.create = FALSE, !.form = FALSE]
                         [] q.for = "page" /\ q.kind = "delete" -> [page EXCEPT !.target = Nothing]
                         [] OTHER -> page
            /\ acked' = IF q.ans.ver < acked THEN acked ELSE q.ans.ver
            /\ UNCHANGED <<user, gate>>
       [] OTHER ->
            /\ net' = net \ {q} /\ acked' = acked
            /\ page' = IF q.for = "page" /\ q.kind = "delete" THEN [page EXCEPT !.target = Nothing] ELSE page
            /\ UNCHANGED <<user, gate, users>>
  /\ UNCHANGED <<cookie, netFaults>> /\ UNCHANGED backend

----------------------------------------------------------------------------
(* The backend and the network. *)

Known(q) == AuthOff \/ q.sess \in live
Who(q) == IF q.sess \in live THEN owner[q.sess] ELSE "dev"
Admin(q) == Known(q) /\ (q.sess \in live => accounts[owner[q.sess]].role = "admin")
Refuse(q) == Code(IF Known(q) THEN "403" ELSE "401")
SessionsOf(a) == {s \in live : owner[s] = a}

\* The answer to a request that writes nothing.
ReadAnswer(q) ==
  CASE q.kind = "me" -> IF q.sess \in live
         THEN [code |-> "user", user |-> [id |-> owner[q.sess], role |-> accounts[owner[q.sess]].role, perms |-> TRUE]]
         ELSE Code("401")
    [] q.kind \in {"probe", "settings"} -> IF Known(q) THEN Code("ok") ELSE Code("401")
    [] q.kind = "users" -> IF Admin(q) THEN [code |-> "list", who |-> Who(q), ver |-> ver] ELSE Refuse(q)

Reply(q, a) == net' = (net \ {q}) \cup {[q EXCEPT !.ans = a]}

ServeRead(q) ==
  /\ q.kind \in {"me", "probe", "settings", "users"}
  /\ Reply(q, ReadAnswer(q)) /\ UNCHANGED backend

\* login: an enabled account gets a new session.
ServeLogin(q) ==
  /\ q.kind = "login"
  /\ IF accounts[q.arg].enabled
       THEN /\ owner' = Append(owner, q.arg) /\ live' = live \cup {Len(owner) + 1}
            /\ Reply(q, [code |-> "user", sess |-> Len(owner) + 1,
                         user |-> [id |-> q.arg, role |-> accounts[q.arg].role, perms |-> FALSE]])
       ELSE Reply(q, Code("401")) /\ UNCHANGED <<owner, live>>
  /\ UNCHANGED <<accounts, ver>>

ServeLogout(q) ==
  /\ q.kind = "logout"
  /\ live' = live \ {q.sess}
  /\ Reply(q, IF Known(q) THEN Code("ok") ELSE Code("401"))
  /\ UNCHANGED <<accounts, owner, ver>>

\* Disabled or deleted accounts lose their sessions.
Apply(a, row) ==
  /\ accounts' = [accounts EXCEPT ![a] = row]
  /\ live' = IF row.enabled THEN live ELSE live \ SessionsOf(a)
  /\ ver' = ver + 1 /\ owner' = owner

\* Rows an account can be turned into by one request.
Rows(kind, a) ==
  LET old == accounts[a] IN
  CASE kind = "create" -> IF old.role = "none" THEN {[role |-> "viewer", enabled |-> TRUE]} ELSE {}
    [] old.role = "none" -> {}
    [] kind = "delete" -> {[role |-> "none", enabled |-> FALSE]}
    [] OTHER -> {[old EXCEPT !.enabled = ~@], [old EXCEPT !.role = IF @ = "admin" THEN "viewer" ELSE "admin"]}

\* createUser, updateUser, deleteUser: not on oneself.
ServeWrite(q) ==
  /\ q.kind \in Writes
  /\ \/ /\ Admin(q) /\ q.arg # Who(q) /\ ver < MaxWrites
        /\ \E row \in Rows(q.kind, q.arg) : Apply(q.arg, row)
        /\ Reply(q, [code |-> "ok", ver |-> ver + 1])
     \/ /\ ~Admin(q) \/ q.arg = Who(q) \/ Rows(q.kind, q.arg) = {}
        /\ Reply(q, IF Admin(q) THEN Code("400") ELSE Refuse(q)) /\ UNCHANGED backend

ServeRequest(q) ==
  /\ q.ans = Waiting
  /\ ServeRead(q) \/ ServeLogin(q) \/ ServeLogout(q) \/ ServeWrite(q)
  /\ UNCHANGED <<user, gate, cookie, users, page, acked, netFaults>>

\* A request, or the answer to it, is lost.
LoseMessage(q) ==
  /\ netFaults < MaxNetFaults /\ q.ans.code # "error"
  /\ Reply(q, Code("error")) /\ netFaults' = netFaults + 1
  /\ UNCHANGED <<user, gate, cookie, users, page, acked>> /\ UNCHANGED backend

Deliver(q) ==
  /\ q.ans # Waiting /\ ~gate.crashed
  /\ \/ InitAnswer(q) \/ ProbeAnswer(q) \/ LoginAnswer(q) \/ LoginMe(q) \/ RefreshAnswer(q)
     \/ LogoutAnswer(q) \/ SettingsAnswer(q) \/ UsersAnswer(q) \/ WriteAnswer(q)

\* A session runs into its idle limit.
Expire(s) ==
  /\ netFaults < MaxNetFaults /\ netFaults' = netFaults + 1
  /\ live' = live \ {s}
  /\ UNCHANGED <<user, gate, cookie, net, users, page, accounts, owner, ver, acked>>

\* Another administrator changes a row.
OtherAdmin(a) ==
  /\ ver < MaxWrites /\ accounts[a].role # "none"
  /\ \E row \in Rows("update", a) : Apply(a, row)
  /\ UNCHANGED <<user, gate, cookie, net, users, page, acked, netFaults>>

SessionNext ==
  \/ \E a \in Accounts : Login(a) \/ AskDeleteUser(a) \/ OtherAdmin(a)
  \/ \E a \in Accounts, kind \in Writes : Write(kind, a)
  \/ PollMe \/ Logout \/ Reload \/ Redirect \/ ToggleCollapse \/ SaveSettings
  \/ Refetch \/ OpenCreate \/ CancelDialog \/ FillForm
  \/ \E p \in Pages : Navigate(p)
  \/ \E q \in net : ServeRequest(q) \/ LoseMessage(q) \/ Deliver(q)
  \/ \E s \in live : Expire(s)

SessionSpec == SessionInit /\ [][SessionNext]_sessionVars

----------------------------------------------------------------------------
(* Properties. *)

SessionTypeOK ==
  /\ user.id \in Accounts \cup {"nobody", "dev"} /\ cookie \in 0..Len(owner)
  /\ owner \in Seq(Accounts) /\ live \subseteq 1..Len(owner)
  /\ page.at \in {"overview", "users", "settings"} /\ page.target \in Accounts \cup {Nothing}
  /\ \A q \in net : /\ q.sess \in 0..Len(owner)
                     /\ q.for \in {"init", "login", "poll", "refresh", "logout", "page", "gone"}
  /\ {acked, ver} \subseteq Nat /\ acked <= ver

\* What the query cache holds was answered for the account that is shown:
\* updateUser clears it whenever the identity changes, and a read that was
\* under way cannot bring the old account's rows back.
CacheOwn == users # NoUsers => users.who = user.id

\* The users table on screen is at least as new as the last write this tab was
\* told had succeeded, whatever pages were visited meanwhile, unless it is being read again or
\* shows the error.  Not so when the acknowledgement outran the read of the list: a first read,
\* or that of a page already left, is not replaced and counts as fresh.
ReadsOwnWrites ==
  UsersPage /\ users # NoUsers /\ ~Fetching => users.err \/ users.outrun \/ users.ver >= acked

\* Collapsing the sidebar survives sign-out and sign-in.
SidebarStored == Screen = "shell" => page.collapsed = page.stored

\* The account on screen, its cached answers and its stored settings belong together, whatever
\* requests of an earlier account are still under way.
CacheOwned == SessionTypeOK /\ CacheOwn /\ ReadsOwnWrites /\ SidebarStored
----------------------------------------------------------------------------
(* Why CacheOwned holds.                                                   *)

Gates == [checking : BOOLEAN, backendError : BOOLEAN, crashed : BOOLEAN]
Lists == {NoUsers} \cup [who : Accounts \cup {"dev"}, ver : Nat, err : BOOLEAN, stale : BOOLEAN, outrun : BOOLEAN]
Views == [at : {"overview", "users", "settings"}, create : BOOLEAN, form : BOOLEAN,
          target : Accounts \cup {Nothing}, collapsed : BOOLEAN, stored : BOOLEAN]
IsRequest(q) == q = [kind |-> q.kind, for |-> q.for, arg |-> q.arg, sess |-> q.sess,
                     asked |-> q.asked, ans |-> q.ans]

SessionShapes ==
  /\ user = Nobody \/ user.id \in Accounts \cup {"dev"}
  /\ gate \in Gates /\ users \in Lists /\ page \in Views
  /\ \A q \in net : IsRequest(q)

\* The session in the cookie jar, if there is one, is of the account on screen; nobody has
\* one, and "dev" is shown, exactly when the backend does not authenticate.
SessionOfUser ==
  /\ user # Nobody /\ cookie # 0 => owner[cookie] = user.id
  /\ user # Nobody => (user.id = "dev" <=> AuthOff)
  /\ AuthOff => owner = <<>>
  /\ user # Nobody => page.collapsed = page.stored

\* The start-up check is alone, and one login is under way at a time.
OneAtATime ==
  /\ \A q \in net : q.kind = "me" /\ q.for = "init" => net = {q} /\ gate.checking
  /\ \A q, r \in net : q.for = "login" /\ r.for = "login" => q = r

\* A request carries the session of the account it was sent for, and a page's request is
\* of the account on screen: those of an earlier one were orphaned.
SentFor(q) ==
  /\ q.asked # "nobody" /\ q.sess # 0 => owner[q.sess] = q.asked
  /\ q.for \in {"poll", "refresh"} => q.asked # "nobody"
  /\ q.for = "page" => q.asked = user.id /\ user # Nobody
  /\ q.kind = "users" => q.for \in {"page", "gone"}
  /\ q.kind = "me" /\ q.for = "init" => user = Nobody /\ q.sess = cookie
  /\ q.kind = "login" => q.for = "login" /\ q.arg \in Accounts
  /\ q.for = "login" => user = Nobody /\ ~AuthOff
  /\ q.kind = "me" /\ q.for = "login" => q.sess # 0 /\ q.arg.id = owner[q.sess] /\ cookie \in {0, q.sess}
  /\ q.kind = "probe" /\ ~AuthOff => q.sess \notin live

\* An answer is of the account of the session it was asked with, and a list of users that
\* will be shown is no older than the last write this tab was told of.
AnsweredFor(q) ==
  /\ q.kind = "me" /\ q.ans.code = "user" => q.sess # 0 /\ q.ans.user.id = owner[q.sess]
  /\ q.kind = "me" /\ q.for = "init" /\ q.ans.code = "401" => q.sess \notin live
  /\ q.kind = "login" /\ q.ans.code = "user" =>
       q.ans.sess \in 1..Len(owner) /\ q.ans.user.id = owner[q.ans.sess]
  /\ q.kind = "probe" /\ ~AuthOff => q.ans.code # "ok"
  /\ q.kind = "users" /\ q.for = "page" /\ q.ans.code = "list" =>
       q.ans.who = user.id /\ q.ans.ver \in Nat /\ (q.arg = "outrun" \/ acked <= q.ans.ver)
  /\ q.kind \in Writes /\ q.ans.code = "ok" => q.ans.ver \in Nat /\ q.ans.ver <= ver

\* A list older than that is marked, and read again on the page that shows it.
StaleIsRead ==
  users # NoUsers => /\ users.ver < acked => users.stale \/ users.outrun
                     /\ users.stale /\ page.at = "users" => users.err \/ Fetching

SessionInv ==
  /\ SessionTypeOK /\ SessionShapes /\ CacheOwn /\ SessionOfUser /\ OneAtATime /\ StaleIsRead
  /\ \A q \in net : SentFor(q) /\ AnsweredFor(q)
=============================================================================
