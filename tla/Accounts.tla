------------------------------ MODULE Accounts ------------------------------
(***************************************************************************)
(* The accounts and the requests that sign in to them and change them,     *)
(* over the session store.  A request is a process: it opens its visit to  *)
(* the store, reads an account, writes what it read, with its change, back *)
(* over the row, and updates its session.  No statement is in a            *)
(* transaction with another.                                               *)
(*                                                                         *)
(* What a form holds (an account, a password, an iSAMS code) is chosen     *)
(* when the handler first looks at it, and the rows a handler reads, its   *)
(* own account's and the one it is about, are read in one step.  Of a row  *)
(* the user name, the password, the role, the iSAMS link and deleted_at    *)
(* are told apart; what else is in it (names, contact) is not.             *)
(***************************************************************************)
EXTENDS Sessions

CONSTANTS
    Technicians, Admins,  \* the accounts that have these roles, or higher, at first
    Passwords, Default,   \* passwords; the one of a new account
    Ids, NoId,            \* iSAMS codes; none
    Old, Linked,          \* the accounts there are at first, linked to iSAMS
    Names,                \* newuser1 .. newuser[Names] (nine in the code)
    Bodies,               \* bound: the JSON bodies posted to /api/user/edit
    MaxStamp,             \* bound: no request begins after this many writes
    MaxVisits             \* bound: requests

ASSUME AccountsAssumption ==
    /\ Admins \subseteq Technicians /\ Technicians \subseteq Users
    /\ Default \in Passwords /\ NoId \notin Ids /\ Linked \subseteq Old /\ Old \subseteq Users
    /\ Names \in Nat \ {0} /\ MaxStamp \in Nat /\ MaxVisits \in Nat

(* cap.go: a capability is the least role that has it. *)
Teacher == 0
Technician == 1
Admin == 2
Role == Teacher .. Admin
CapManageTimetable == Technician
CapManageUsers == Admin
CapResetPassword == Admin
CapImpersonate == Admin

(* A body names some fields of the user.  name is i for newuser[i], 0 for  *)
(* any other name; gone is deleted_at.                                     *)
ASSUME BodiesAssumption ==
    \A f \in Bodies :
        /\ "name" \in DOMAIN f => f["name"] \in 0 .. Names
        /\ "pass" \in DOMAIN f => f["pass"] \in Passwords
        /\ "link" \in DOMAIN f => f["link"] \in Ids
        /\ "role" \in DOMAIN f => f["role"] \in Role
        /\ "id" \in DOMAIN f => f["id"] \in Users

VARIABLES
    users,   \* table users
    stamp,   \* updated_at of the last write
    visits,  \* requests begun
    req      \* the requests in flight

vars == <<store, cookie, visit, meant, granted, users, stamp, visits, req>>

(* NoRow is an ID not given yet, Removed a row with deleted_at set, which  *)
(* no query finds and no statement matches.                                *)
Row == [pass: Passwords, link: Ids \cup {NoId}, name: 0 .. Names, role: Role, stamp: Nat]
NoRow == [row |-> "none"]
Removed == [row |-> "removed"]
Idle == [route |-> "none"]

(* The handlers, by what stands before them: nothing, session.Authenticator *)
(* (guarded) or session.Permissions (technicians).  refused is a request a  *)
(* middleware turned away, twice one that visits the session once more for  *)
(* it.  Which handler of its kind a request is for shows when the handler   *)
(* begins to act; a page only visits its session.                           *)
Routes == {"login", "logout", "api", "guarded", "technicians"}
Refusals == {"refused", "twice"}
GuardedOps == {"password", "link", "unlink", "sync"}
RowOps == GuardedOps \cup {"edit"}

Request == [route: Routes \cup Refusals, pc: {"guard", "session", "save"}]
    \cup [route: Routes, pc: {"enter"}, u: Users]
    \cup [route: Routes, pc: {"write"}, op: RowOps, of: Users, u: Users, bk: Row,
          reset: BOOLEAN, gone: BOOLEAN]
    \cup [route: Routes, pc: {"name", "create"}, i: 1 .. Names + 1, mark: Nat, blind: BOOLEAN]

TypeOK ==
    /\ SessionsTypeOK
    /\ users \in [Users -> Row \cup {NoRow, Removed}]
    /\ stamp \in Nat /\ visits \in Nat
    /\ req \in [Handlers -> {Idle} \cup Request]

RoleOf(u) == IF u \in Admins THEN Admin ELSE IF u \in Technicians THEN Technician ELSE Teacher

Init ==
    /\ SessionsInit
    /\ \E link \in [Linked -> Ids] :
        users = [u \in Users |-> IF u \notin Old THEN NoRow
                    ELSE [pass |-> Default, link |-> IF u \in Linked THEN link[u] ELSE NoId,
                          name |-> 0, role |-> RoleOf(u), stamp |-> 0]]
    /\ stamp = 0 /\ visits = 0
    /\ req = [h \in Handlers |-> Idle]

Present(u) == users[u] \notin {NoRow, Removed}

(* User.Can, of the account as it is in the table. *)
Can(u, cap) == Present(u) /\ users[u].role >= cap

(* GetUser and NewDashboardData fail on an account that is not there. *)
Acts(h) == SignedIn(h) /\ Present(visit[h].user)

At(h, r, pc) == req[h].route = r /\ req[h].pc = pc /\ Open(h)
Begin(h, r) == req' = [req EXCEPT ![h] = r]
Goto(h, pc) == req' = [req EXCEPT ![h].pc = pc]
Finish(h) == req' = [req EXCEPT ![h] = Idle]

table == <<users, stamp, visits>>

-----------------------------------------------------------------------------
(* Arrival, and the middleware of a guarded route *)

Arrival(h, b, r) ==
    /\ req[h] = Idle /\ visits < MaxVisits /\ stamp < MaxStamp
    /\ Arrive(h, b)
    /\ Begin(h, [route |-> r,
                 pc |-> IF r \in {"guarded", "technicians"} THEN "guard" ELSE "session"])
    /\ visits' = visits + 1
    /\ UNCHANGED <<store, cookie, meant, granted, users, stamp>>

(* RequireAuthentication visits the session for itself.  Signed in, that   *)
(* changes nothing and the handler's visit, read and written back later,   *)
(* follows; otherwise the request is aborted after the middleware's visit, *)
(* or goes on: RequirePermissions calls RequireAuthentication and, refused *)
(* or not, visits the session again and judges what it then finds.         *)
Guard(h) ==
    /\ req[h] # Idle /\ req[h].pc = "guard"
    /\ IF Exists(visit[h].sent) /\ store[visit[h].sent] # Nobody
       THEN Goto(h, "session")
       ELSE Begin(h, [pc |-> "session",
                      route |-> IF req[h].route = "technicians" THEN "twice" ELSE "refused"])
    /\ UNCHANGED <<sessionVars, table>>

VisitAgain(h) ==
    /\ At(h, "twice", "session")
    /\ UpdateAndStart(h)
    /\ Begin(h, [route |-> "technicians", pc |-> "session"])
    /\ UNCHANGED table

(* Store.Start. *)
Start(h) ==
    /\ req[h] # Idle /\ req[h].pc = "session"
    /\ Lookup(h) \/ NewToken(h) \/ StoreNew(h)
    /\ UNCHANGED <<table, req>>

(* The deferred Update of a handler that is done, only shows a page, has   *)
(* refused or met an error.  RequirePermissions leaves the session as it   *)
(* is if the account has the role, is gone or cannot be read.              *)
Done(h) ==
    /\ \/ \E r \in Routes : At(h, r, "save")
       \/ \E r \in {"api", "guarded", "technicians", "refused"} : At(h, r, "session")
    /\ Update(h) /\ Finish(h)
    /\ UNCHANGED table

(* It revokes the session of an account without the role. *)
Revoke(h) ==
    /\ At(h, "technicians", "session") /\ Acts(h) /\ ~Can(visit[h].user, Technician)
    /\ Change(h, Nobody) /\ Finish(h)
    /\ UNCHANGED table

-----------------------------------------------------------------------------
(* handleLoginAttempt, handleLogout, handleAccountSwitch *)

(* A bad name or password, or a session that is signed in already: no Update. *)
LoginRefused(h) ==
    /\ At(h, "login", "session")
    /\ Leave(h) /\ Finish(h)
    /\ UNCHANGED table

Chosen(h, u) == Begin(h, [route |-> req[h].route, pc |-> "enter", u |-> u])

Login(h, u, pw) ==
    /\ At(h, "login", "session") /\ ~SignedIn(h)
    /\ Present(u) /\ users[u].pass = pw
    /\ Chosen(h, u)
    /\ UNCHANGED <<sessionVars, table>>

Switch(h, u) ==
    /\ At(h, "guarded", "session") /\ Acts(h) /\ Can(visit[h].user, CapImpersonate)
    /\ Present(u)
    /\ Chosen(h, u)
    /\ UNCHANGED <<sessionVars, table>>

Enter(h) ==
    /\ \E r \in Routes : At(h, r, "enter")
    /\ Change(h, req[h].u) /\ Finish(h)
    /\ UNCHANGED table

Logout(h) ==
    /\ At(h, "logout", "session")
    /\ Change(h, Nobody) /\ Finish(h)
    /\ UNCHANGED table

-----------------------------------------------------------------------------
(* The handlers that write an account: its own, or another's by role *)

MayWrite(h, op, u) ==
    u = visit[h].user \/ (op # "password" /\ Can(visit[h].user, CapManageTimetable))

(* What the handler may make of the row it read. *)
Prepared(op, row) ==
    CASE op = "password" -> {[row EXCEPT !.pass = pw] : pw \in Passwords}
      [] op = "link"     -> IF row.link # NoId THEN {} ELSE {[row EXCEPT !.link = id] : id \in Ids}
      [] op = "unlink"   -> {[row EXCEPT !.link = NoId]}
      [] op = "sync"     -> IF row.link = NoId THEN {} ELSE {row}

Read(h, u) ==
    \E op \in GuardedOps :
        /\ At(h, "guarded", "session") /\ Acts(h)
        /\ MayWrite(h, op, u) /\ Present(u)
        /\ \E bk \in Prepared(op, users[u]) :
            Begin(h, [route |-> "guarded", pc |-> "write", op |-> op, of |-> u, u |-> u, bk |-> bk,
                      reset |-> op = "password", gone |-> FALSE])
        /\ UNCHANGED <<sessionVars, table>>

(* handleAPIEditUser decodes the body over the row it read, ID, role, link *)
(* and deleted_at with the rest, and the ID then says which row is         *)
(* written.  A password is only taken from an administrator.               *)
Given(f, field, old) == IF field \in DOMAIN f THEN f[field] ELSE old

Decoded(f, row, reset) ==
    [row EXCEPT !.name = Given(f, "name", @), !.link = Given(f, "link", @), !.role = Given(f, "role", @),
                !.pass = IF reset THEN Given(f, "pass", @) ELSE @]

ReadEdit(h, u, f) ==
    /\ At(h, "api", "session") /\ Acts(h)
    /\ u = visit[h].user \/ Can(visit[h].user, CapManageUsers)
    /\ Present(u)
    /\ LET reset == "pass" \in DOMAIN f /\ Can(visit[h].user, CapResetPassword) IN
        Begin(h, [route |-> "api", pc |-> "write", op |-> "edit", of |-> u, u |-> Given(f, "id", u),
                  bk |-> Decoded(f, users[u], reset), reset |-> reset, gone |-> "gone" \in DOMAIN f])
    /\ UNCHANGED <<sessionVars, table>>

Writing(h, ops) == req[h] # Idle /\ req[h].pc = "write" /\ req[h].op \in ops
Saved(h) == Begin(h, [route |-> req[h].route, pc |-> "save"])

(* Database.Updates(&usr) writes the whole copy, but for its zero fields:  *)
(* name and password go with it, a link only if there is one, a role only  *)
(* above a teacher's.                                                      *)
Updates(row, bk) ==
    [row EXCEPT !.name = bk.name, !.pass = bk.pass, !.link = IF bk.link = NoId THEN @ ELSE bk.link,
                !.role = IF bk.role = Teacher THEN @ ELSE bk.role, !.stamp = stamp + 1]

(* A row gone since is not matched, which is no error. *)
Write(h) ==
    /\ Writing(h, RowOps \ {"unlink"})
    /\ users' = IF Present(req[h].u)
                THEN [users EXCEPT ![req[h].u] = IF req[h].gone THEN Removed ELSE Updates(@, req[h].bk)]
                ELSE users
    /\ stamp' = stamp + 1
    /\ Saved(h)
    /\ UNCHANGED <<sessionVars, visits>>

(* Any statement that writes may fail: the handler answers an error. *)
Fail(h) ==
    /\ Writing(h, RowOps) \/ At(h, "guarded", "create")
    /\ Saved(h)
    /\ UNCHANGED <<sessionVars, table>>

(* A mutant: an unlink that names the row by its ID alone. *)
MatchesId(row, bk) == TRUE

(* Model(&usr).Where(&usr): every field read is a condition, updated_at    *)
(* too.  An unlink that matches no row is answered like one that did.      *)
Matches(row, bk) == row.stamp = bk.stamp

Unlink(h) ==
    /\ Writing(h, {"unlink"})
    /\ users' = IF Present(req[h].u) /\ Matches(users[req[h].u], req[h].bk)
                THEN [users EXCEPT ![req[h].u] = [@ EXCEPT !.link = NoId, !.stamp = stamp + 1]]
                ELSE users
    /\ stamp' = stamp + 1
    /\ Saved(h)
    /\ UNCHANGED <<sessionVars, visits>>

-----------------------------------------------------------------------------
(* handleNewAccount and NewUser: names are tried one query at a time, and  *)
(* the account is created in another statement.                            *)

Try(h, pc, i, blind) ==
    Begin(h, [route |-> "guarded", pc |-> pc, i |-> i, mark |-> stamp, blind |-> blind])

BeginNew(h) ==
    /\ At(h, "guarded", "session") /\ Acts(h) /\ Can(visit[h].user, CapManageUsers)
    /\ Try(h, "name", 1, FALSE)
    /\ UNCHANGED <<sessionVars, table>>

(* A mutant: only the first accounts are asked for. *)
TakenAtFirst(i) == \E u \in Old : Present(u) /\ users[u].name = i

Taken(i) == \E u \in Users : Present(u) /\ users[u].name = i

(* A mutant: one name too many. *)
TriedTooMany(i) == i > Names + 1

TriedAll(i) == i > Names

(* When every name is taken, u is the last account found, and its creation *)
(* fails on its ID.  A query that fails ends the loop like one that finds  *)
(* no account: blind is a request that took the name for free unseen.      *)
TryName(h) ==
    /\ At(h, "guarded", "name")
    /\ LET i == req[h].i IN
        IF TriedAll(i) THEN Saved(h)
        ELSE \/ Taken(i) /\ Try(h, "name", i + 1, FALSE)
             \/ ~Taken(i) /\ Try(h, "create", i, FALSE)
             \/ Try(h, "create", i, TRUE)
    /\ UNCHANGED <<sessionVars, table>>

Create(h) ==
    /\ At(h, "guarded", "create")
    /\ \E u \in Users, role \in Role :
        /\ users[u] = NoRow
        /\ users' = [users EXCEPT ![u] = [pass |-> Default, link |-> NoId, name |-> req[h].i,
                                          role |-> role, stamp |-> stamp + 1]]
    /\ stamp' = stamp + 1
    /\ Saved(h)
    /\ UNCHANGED <<sessionVars, visits>>

-----------------------------------------------------------------------------
Restart ==
    /\ SessionsRestart
    /\ req' = [h \in Handlers |-> Idle]
    /\ visits' = visits + 1 /\ visits < MaxVisits
    /\ UNCHANGED <<users, stamp>>

Forget(b) == Expire(b) /\ UNCHANGED <<table, req>>

Next ==
    \/ \E h \in Handlers :
        \/ \E b \in Browsers, r \in Routes : Arrival(h, b, r)
        \/ Guard(h) \/ VisitAgain(h) \/ Start(h) \/ Done(h) \/ Revoke(h)
        \/ LoginRefused(h) \/ \E u \in Users, pw \in Passwords : Login(h, u, pw)
        \/ \E u \in Users : Switch(h, u) \/ Read(h, u) \/ \E f \in Bodies : ReadEdit(h, u, f)
        \/ Enter(h) \/ Logout(h) \/ Write(h) \/ Unlink(h) \/ Fail(h)
        \/ BeginNew(h) \/ TryName(h) \/ Create(h)
    \/ \E b \in Browsers : Forget(b)
    \/ Restart

Spec == Init /\ [][Next]_vars

-----------------------------------------------------------------------------
(* Properties *)

(* What others made of an account is not undone behind their backs: by     *)
(* writing its copy of a row back, a request never takes a link away; it   *)
(* changes a password only to reset it, and a role only by an edit, unless *)
(* somebody wrote the row after it was read or the edit's body named       *)
(* another row than the one read.  An unlink takes the link of the very    *)
(* row it read, and only an edit takes an account away.                    *)
RowStands ==
    [][\A u \in Users : Present(u) /\ users'[u] # users[u] =>
        \E h \in Handlers :
            /\ Writing(h, RowOps) /\ req[h].u = u
            /\ LET seen == req[h].of = u /\ req[h].bk.stamp = users[u].stamp IN
                IF ~Present(u)' THEN req[h].op = "edit"
                ELSE /\ users[u].link # NoId /\ users'[u].link = NoId
                            => req[h].op = "unlink" /\ seen
                     /\ users'[u].pass # users[u].pass => req[h].reset \/ ~seen
                     /\ users'[u].role # users[u].role => req[h].op = "edit" \/ ~seen]_vars

(* A new account's name is also that of another account, which hides it    *)
(* from GetUserByName, only if the other was written after this request    *)
(* had found the name free, or the query that looked for the name failed.  *)
NamesApart ==
    [][\A h \in Handlers, v \in Users :
        users[v] = NoRow /\ Present(v)' /\ At(h, "guarded", "create") /\ At(h, "guarded", "save")' =>
            \A u \in Users : Present(u) /\ users[u].name = users'[v].name =>
                users[u].stamp > req[h].mark \/ req[h].blind]_vars
=============================================================================
