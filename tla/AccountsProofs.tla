--------------------------- MODULE AccountsProofs ---------------------------
(***************************************************************************)
(* The session invariants and those of the accounts table, for any number  *)
(* of accounts, browsers, tokens and requests, and whatever the bounds on  *)
(* a run are.                                                              *)
(*                                                                         *)
(* To the store the accounts are one program that visits it: every step is *)
(* one of SessionsNext or leaves the store alone, so SInv is kept.  Of the *)
(* table, a copy with the stamp of its row has the row's password and role *)
(* (Copies), and a name found free was taken after it was looked for       *)
(* (Named): what is written later has a later stamp (Stamps).              *)
(***************************************************************************)
EXTENDS Accounts, SessionsProofs

TableOK ==
    /\ users \in [Users -> Row \cup {NoRow, Removed}]
    /\ stamp \in Nat /\ visits \in Nat
    /\ req \in [Handlers -> {Idle} \cup Request]

Stamps == \A u \in Users : Present(u) => users[u].stamp <= stamp

(* Only a request that resets the password has one that differs from that  *)
(* of the very row it read, and only an edit another role, another row to  *)
(* write, or a row to take away.                                           *)
Faithful(r) ==
    /\ r.op = "edit" \/ (r.of = r.u /\ ~r.gone)
    /\ r.bk.stamp <= stamp
    /\ Present(r.u) /\ r.of = r.u /\ users[r.u].stamp = r.bk.stamp =>
        /\ r.reset \/ users[r.u].pass = r.bk.pass
        /\ r.op = "edit" \/ users[r.u].role = r.bk.role

Copies == \A h \in Handlers : Writing(h, RowOps) => Faithful(req[h])

(* The name a request creates an account with is another account's only if *)
(* that was written later, or if the request never saw who has the name.   *)
Apart(r) ==
    /\ r.i \in 1 .. Names /\ r.mark \in Nat /\ r.mark <= stamp
    /\ \A u \in Users : Present(u) /\ users[u].name = r.i => users[u].stamp > r.mark \/ r.blind

Named == \A h \in Handlers : req[h] # Idle /\ req[h].pc = "create" => Apart(req[h])

TableInv == TableOK /\ Stamps /\ Copies /\ Named

AInv == SInv /\ TableInv

-----------------------------------------------------------------------------
(* The request at a place of a handler has the fields it needs there. *)

LEMMA AtFields ==
    ASSUME TableOK, NEW h \in Handlers, NEW r \in Routes \cup Refusals, NEW pc, At(h, r, pc)
    PROVE  /\ Open(h) /\ req[h] # Idle /\ req[h] \in Request /\ req[h].route = r /\ req[h].pc = pc
  BY DEF At, TableOK, Idle, Routes, Refusals

LEMMA WriterFields ==
    ASSUME TableOK, NEW h \in Handlers, Writing(h, RowOps)
    PROVE  /\ req[h].route \in Routes /\ req[h].op \in RowOps
           /\ req[h].u \in Users /\ req[h].of \in Users /\ req[h].bk \in Row
  BY DEF TableOK, Writing, Request

LEMMA EntererFields ==
    ASSUME TableOK, NEW h \in Handlers, req[h] # Idle, req[h].pc = "enter"
    PROVE  req[h].u \in Users
  BY DEF TableOK, Request

LEMMA NamerFields ==
    ASSUME TableOK, NEW h \in Handlers, req[h] # Idle, req[h].pc \in {"name", "create"}
    PROVE  req[h].route \in Routes /\ req[h].i \in 1 .. Names + 1 /\ req[h].mark \in Nat
  BY DEF TableOK, Request

-----------------------------------------------------------------------------
(* To the store every step is a visit or nothing. *)

LEMMA ProgramVisits ==
    ASSUME TableOK, Next
    PROVE  SessionsNext \/ UNCHANGED sessionVars
<1>1. ASSUME NEW h \in Handlers, NEW b \in Browsers, NEW r \in Routes, Arrival(h, b, r)
      PROVE  Visits(h)
  BY <1>1 DEF Arrival, Visits
<1>2. ASSUME NEW h \in Handlers, Guard(h)
      PROVE  UNCHANGED sessionVars
  BY <1>2 DEF Guard
<1>3. ASSUME NEW h \in Handlers, VisitAgain(h)
      PROVE  Visits(h)
  BY <1>3 DEF VisitAgain, Visits, At
<1>4. ASSUME NEW h \in Handlers, Start(h)
      PROVE  Visits(h)
  BY <1>4 DEF Start, Visits
<1>5. ASSUME NEW h \in Handlers, Done(h)
      PROVE  Visits(h)
  BY <1>5 DEF Done, Visits, At
<1>6. ASSUME NEW h \in Handlers, Revoke(h) \/ Logout(h)
      PROVE  Visits(h)
  BY <1>6 DEF Revoke, Logout, Visits, At, Account
<1>7. ASSUME NEW h \in Handlers, LoginRefused(h)
      PROVE  Visits(h)
  BY <1>7 DEF LoginRefused, Visits, At
<1>8. ASSUME NEW h \in Handlers, Enter(h)
      PROVE  Visits(h)
  <2>1. Open(h) /\ req[h] # Idle /\ req[h].pc = "enter" /\ Change(h, req[h].u)
    BY <1>8, AtFields DEF Enter
  <2> QED
    BY <2>1, EntererFields DEF Visits, Account
<1>9. ASSUME NEW h \in Handlers, NEW u \in Users,
             \/ Switch(h, u) \/ Read(h, u)
             \/ \E f \in Bodies : ReadEdit(h, u, f)
             \/ \E pw \in Passwords : Login(h, u, pw)
      PROVE  UNCHANGED sessionVars
  BY <1>9 DEF Switch, Read, ReadEdit, Login
<1>10. ASSUME NEW h \in Handlers,
              Write(h) \/ Unlink(h) \/ Fail(h) \/ BeginNew(h) \/ TryName(h) \/ Create(h)
       PROVE  UNCHANGED sessionVars
  BY <1>10 DEF Write, Unlink, Fail, BeginNew, TryName, Create
<1>11. ASSUME NEW b \in Browsers, Forget(b)
       PROVE  Expire(b)
  BY <1>11 DEF Forget
<1>12. Restart => SessionsRestart
  BY DEF Restart
<1> QED
  BY <1>1, <1>2, <1>3, <1>4, <1>5, <1>6, <1>7, <1>8, <1>9, <1>10, <1>11, <1>12 DEF Next, SessionsNext

-----------------------------------------------------------------------------
(* Steps that leave the rows alone, and prepare neither a copy nor a name. *)
LEMMA QuietKeeps ==
    ASSUME TableInv, UNCHANGED <<users, stamp>>, visits' \in Nat, NEW h \in Handlers, NEW r,
           req' = [req EXCEPT ![h] = r],
           r = Idle \/ (r \in Request /\ r.pc \notin {"write", "create"})
    PROVE  TableInv'
<1> USE DEF TableInv
<1>1. TableOK'
  BY DEF TableOK
<1>2. \A g \in Handlers : req'[g] # Idle /\ req'[g].pc \in {"write", "create"} => req'[g] = req[g]
  BY DEF TableOK
<1>3. Stamps'
  BY DEF Stamps, Present
<1>4. Copies'
  BY <1>2 DEF Copies, Faithful, Writing, Present
<1>5. Named'
  BY <1>2 DEF Named, Apart, Present
<1> QED
  BY <1>1, <1>3, <1>4, <1>5

(* The places a quiet step goes to. *)
LEMMA Places ==
    /\ \A r \in Routes \cup Refusals, pc \in {"guard", "session", "save"} :
            [route |-> r, pc |-> pc] \in Request
    /\ \A r \in Routes, u \in Users : [route |-> r, pc |-> "enter", u |-> u] \in Request
    /\ \A i \in 1 .. Names + 1, m \in Nat, pc \in {"name", "create"}, bl \in BOOLEAN :
            [route |-> "guarded", pc |-> pc, i |-> i, mark |-> m, blind |-> bl] \in Request
  BY DEF Request, Routes

LEMMA FlowKeeps ==
    ASSUME TableInv, NEW h \in Handlers,
           \/ \E b \in Browsers, r \in Routes : Arrival(h, b, r)
           \/ Guard(h) \/ VisitAgain(h) \/ Start(h) \/ Done(h) \/ Revoke(h)
           \/ LoginRefused(h) \/ Enter(h) \/ Logout(h)
    PROVE  TableInv'
<1> USE DEF TableInv
<1>1. ASSUME NEW b \in Browsers, NEW r \in Routes, Arrival(h, b, r)
      PROVE  TableInv'
  <2> DEFINE q == [route |-> r, pc |-> IF r \in {"guarded", "technicians"} THEN "guard" ELSE "session"]
  <2>1. q \in Request /\ q.pc \notin {"write", "create"}
    BY Places
  <2>2. req' = [req EXCEPT ![h] = q] /\ UNCHANGED <<users, stamp>> /\ visits' \in Nat
    BY <1>1 DEF Arrival, Begin, TableOK
  <2> HIDE DEF q
  <2> QED
    BY <2>1, <2>2, QuietKeeps
<1>2. ASSUME Guard(h)
      PROVE  TableInv'
  <2>1. req[h] \in Request /\ req[h] # Idle /\ req[h].pc = "guard" /\ UNCHANGED <<users, stamp, visits>>
    BY <1>2 DEF Guard, TableOK, table
  <2>2. req[h] \in [route: Routes \cup Refusals, pc: {"guard", "session", "save"}]
    BY <2>1 DEF Request
  <2>3. CASE Goto(h, "session")
    <3> DEFINE q == [req[h] EXCEPT !.pc = "session"]
    <3>1. q \in Request /\ q.pc = "session"
      BY <2>2 DEF Request
    <3>2. req' = [req EXCEPT ![h] = q]
      BY <2>3 DEF Goto
    <3> HIDE DEF q
    <3> QED
      BY <2>1, <3>1, <3>2, QuietKeeps DEF TableOK
  <2>4. ASSUME NEW r \in Refusals, Begin(h, [pc |-> "session", route |-> r])
        PROVE  TableInv'
    <3>1. [pc |-> "session", route |-> r] \in Request
      BY DEF Request
    <3> QED
      BY <2>1, <2>4, <3>1, QuietKeeps DEF Begin, TableOK
  <2>5. \/ Goto(h, "session")
        \/ Begin(h, [pc |-> "session", route |-> "twice"])
        \/ Begin(h, [pc |-> "session", route |-> "refused"])
    BY <1>2 DEF Guard
  <2> QED
    BY <2>3, <2>4, <2>5 DEF Refusals
<1>3. ASSUME VisitAgain(h)
      PROVE  TableInv'
  <2>1. [route |-> "technicians", pc |-> "session"] \in Request
    BY Places DEF Routes
  <2> QED
    BY <1>3, <2>1, QuietKeeps DEF VisitAgain, Begin, table, TableOK
<1>4. ASSUME Start(h)
      PROVE  TableInv'
  BY <1>4 DEF Start, table, TableOK, Stamps, Copies, Faithful, Named, Apart, Present, Writing
<1>5. ASSUME Done(h) \/ Revoke(h) \/ LoginRefused(h) \/ Enter(h) \/ Logout(h)
      PROVE  TableInv'
  <2>1. req' = [req EXCEPT ![h] = Idle] /\ UNCHANGED <<users, stamp, visits>>
    BY <1>5 DEF Done, Revoke, LoginRefused, Enter, Logout, Finish, table
  <2> QED
    BY <2>1, QuietKeeps DEF TableOK
<1> QED
  BY <1>1, <1>2, <1>3, <1>4, <1>5

LEMMA ChoiceKeeps ==
    ASSUME TableInv, NEW h \in Handlers, NEW u \in Users,
           Switch(h, u) \/ \E pw \in Passwords : Login(h, u, pw)
    PROVE  TableInv'
<1> USE DEF TableInv
<1>1. Chosen(h, u) /\ UNCHANGED <<users, stamp, visits>> /\ req[h].route \in Routes
  BY DEF Switch, Login, table, At, Routes
<1>2. [route |-> req[h].route, pc |-> "enter", u |-> u] \in Request
  BY <1>1, Places
<1> QED
  BY <1>1, <1>2, QuietKeeps DEF Chosen, Begin, TableOK

(* What a handler makes of a row is a row, of the same stamp and role;     *)
(* only a password form makes it one of another password.                  *)
LEMMA PreparedRows ==
    ASSUME NEW op \in GuardedOps, NEW row \in Row, NEW bk \in Prepared(op, row)
    PROVE  /\ bk \in Row /\ bk.stamp = row.stamp /\ bk.role = row.role
           /\ op = "password" \/ bk.pass = row.pass
<1>1. \A pw \in Passwords : /\ [row EXCEPT !.pass = pw] \in Row
                             /\ [row EXCEPT !.pass = pw].stamp = row.stamp
                             /\ [row EXCEPT !.pass = pw].role = row.role
  BY DEF Row
<1>2. \A id \in Ids \cup {NoId} : /\ [row EXCEPT !.link = id] \in Row
                                /\ [row EXCEPT !.link = id].stamp = row.stamp
                                /\ [row EXCEPT !.link = id].role = row.role
                                /\ [row EXCEPT !.link = id].pass = row.pass
  BY DEF Row
<1>3. CASE op = "password"
  <2>1. PICK pw \in Passwords : bk = [row EXCEPT !.pass = pw]
    BY <1>3 DEF Prepared
  <2> QED
    BY <1>1, <1>3, <2>1
<1>4. CASE op \in {"link", "unlink"}
  <2>1. PICK id \in Ids \cup {NoId} : bk = [row EXCEPT !.link = id]
    BY <1>4 DEF Prepared
  <2> QED
    BY <1>2, <2>1
<1>5. CASE op = "sync"
  BY <1>5 DEF Prepared
<1> QED
  BY <1>3, <1>4, <1>5 DEF GuardedOps

(* So is what an edit makes of it, but for its role: whatever the body     *)
(* names, a password only goes with a reset.                               *)
LEMMA DecodedRows ==
    ASSUME NEW f \in Bodies, NEW row \in Row, NEW reset \in BOOLEAN
    PROVE  /\ Decoded(f, row, reset) \in Row /\ Decoded(f, row, reset).stamp = row.stamp
           /\ reset \/ Decoded(f, row, reset).pass = row.pass
<1> DEFINE n == Given(f, "name", row.name)
           l == Given(f, "link", row.link)
           r == Given(f, "role", row.role)
           p == IF reset THEN Given(f, "pass", row.pass) ELSE row.pass
<1>1. /\ n \in 0 .. Names /\ l \in Ids \cup {NoId} /\ r \in Role /\ p \in Passwords
      /\ reset \/ p = row.pass
  BY BodiesAssumption DEF Given, Row
<1>2. Decoded(f, row, reset) = [row EXCEPT !.name = n, !.link = l, !.role = r, !.pass = p]
  BY DEF Decoded, Row
<1> HIDE DEF n, l, r, p
<1> QED
  BY <1>1, <1>2 DEF Row

(* A request that has read a row and holds a faithful copy of it. *)
LEMMA CopyKeeps ==
    ASSUME TableInv, NEW h \in Handlers, UNCHANGED <<users, stamp, visits>>,
           NEW q \in Request, Begin(h, q), q.pc = "write", Faithful(q)
    PROVE  TableInv'
<1> USE DEF TableInv
<1>1. req'[h] = q /\ \A g \in Handlers : g # h => req'[g] = req[g]
  BY DEF TableOK, Begin
<1>2. TableOK'
  BY DEF TableOK, Begin
<1>3. Copies'
  <2> SUFFICES ASSUME NEW g \in Handlers, Writing(g, RowOps)'
               PROVE  Faithful(req'[g])
    BY DEF Copies, Faithful, Present
  <2>1. CASE g = h
    BY <1>1, <2>1
  <2>2. CASE g # h
    BY <1>1, <2>2 DEF Copies, Writing
  <2> QED
    BY <2>1, <2>2
<1>4. Stamps' /\ Named'
  BY <1>1 DEF Stamps, Named, Apart, Present
<1> QED
  BY <1>2, <1>3, <1>4

LEMMA ReadKeeps ==
    ASSUME TableInv, NEW h \in Handlers, NEW u \in Users, Read(h, u)
    PROVE  TableInv'
<1> USE DEF TableInv
<1>0. PICK op \in GuardedOps : \E bk \in Prepared(op, users[u]) :
        Begin(h, [route |-> "guarded", pc |-> "write", op |-> op, of |-> u, u |-> u, bk |-> bk,
                  reset |-> op = "password", gone |-> FALSE])
  BY DEF Read
<1>1. PICK bk \in Prepared(op, users[u]) :
        Begin(h, [route |-> "guarded", pc |-> "write", op |-> op, of |-> u, u |-> u, bk |-> bk,
                  reset |-> op = "password", gone |-> FALSE])
  BY <1>0
<1>2. users[u] \in Row /\ users[u].stamp <= stamp /\ UNCHANGED <<users, stamp, visits>>
  BY DEF Read, TableOK, Present, Stamps, table
<1> DEFINE q == [route |-> "guarded", pc |-> "write", op |-> op, of |-> u, u |-> u, bk |-> bk,
                 reset |-> op = "password", gone |-> FALSE]
<1>3. /\ bk \in Row /\ bk.stamp = users[u].stamp /\ bk.role = users[u].role
      /\ op = "password" \/ bk.pass = users[u].pass
  BY <1>2, PreparedRows
<1>4. q \in Request
  BY <1>3 DEF Request, RowOps, Routes
<1>5. Faithful(q) /\ q.pc = "write"
  BY <1>2, <1>3 DEF Faithful
<1> HIDE DEF q
<1>6. Begin(h, q)
  BY <1>1 DEF q
<1> QED
  BY <1>2, <1>4, <1>5, <1>6, CopyKeeps

LEMMA ReadEditKeeps ==
    ASSUME TableInv, NEW h \in Handlers, NEW u \in Users, NEW f \in Bodies, ReadEdit(h, u, f)
    PROVE  TableInv'
<1> USE DEF TableInv
<1> DEFINE reset == "pass" \in DOMAIN f /\ Can(visit[h].user, CapResetPassword)
           bk == Decoded(f, users[u], reset)
           q == [route |-> "api", pc |-> "write", op |-> "edit", of |-> u, u |-> Given(f, "id", u),
                 bk |-> bk, reset |-> reset, gone |-> "gone" \in DOMAIN f]
<1>1. Begin(h, q) /\ UNCHANGED <<users, stamp, visits>>
  BY DEF ReadEdit, table
<1>2. users[u] \in Row /\ users[u].stamp <= stamp
  BY DEF ReadEdit, TableOK, Present, Stamps
<1>3. reset \in BOOLEAN
  BY DEF Can
<1> HIDE DEF reset
<1>4. bk \in Row /\ bk.stamp = users[u].stamp /\ (reset \/ bk.pass = users[u].pass)
  BY <1>2, <1>3, DecodedRows
<1>5. Given(f, "id", u) \in Users
  BY BodiesAssumption DEF Given
<1> HIDE DEF bk
<1>6. q \in Request
  BY <1>3, <1>4, <1>5 DEF Request, RowOps, Routes
<1>7. Faithful(q) /\ q.pc = "write"
  BY <1>2, <1>4 DEF Faithful
<1> HIDE DEF q
<1> QED
  BY <1>1, <1>6, <1>7, CopyKeeps

-----------------------------------------------------------------------------
(* A step that gives one row the next stamp, or leaves them all alone, and *)
(* whose request goes on to where it saves its session.  The copies and    *)
(* the names found free that others hold are older than that row is now.   *)
LEMMA WrittenKeeps ==
    ASSUME TableInv, NEW h \in Handlers, req[h].route \in Routes, Saved(h), stamp' \in {stamp, stamp + 1},
           UNCHANGED visits, NEW u \in Users, NEW row \in Row \cup {NoRow, Removed},
           users' = [users EXCEPT ![u] = row],
           \/ row = users[u] \/ row = Removed
           \/ row \in Row /\ row.stamp = stamp + 1 /\ stamp' = stamp + 1
    PROVE  TableInv'
<1> USE DEF TableInv
<1> DEFINE q == [route |-> req[h].route, pc |-> "save"]
<1>1. req' = [req EXCEPT ![h] = q] /\ q \in Request
  BY Places DEF Saved, Begin
<1>2. req'[h] = q /\ \A g \in Handlers : g # h => req'[g] = req[g]
  BY <1>1 DEF TableOK
<1>3. stamp \in Nat /\ stamp' \in Nat /\ stamp <= stamp'
  BY DEF TableOK
<1>4. \A v \in Users : Present(v)' => \/ users'[v] = users[v] /\ Present(v)
                                      \/ users'[v] = row /\ row \in Row /\ row.stamp = stamp + 1
                                            /\ stamp' = stamp + 1
  BY DEF TableOK, Present
<1>5. \A v \in Users : Present(v) => users[v].stamp \in Nat
  BY DEF TableOK, Present, Row
<1>6. TableOK'
  BY <1>1, <1>3 DEF TableOK
<1>7. Stamps'
  BY <1>3, <1>4, <1>5 DEF Stamps
<1>8. Copies'
  <2> SUFFICES ASSUME NEW g \in Handlers, Writing(g, RowOps)'
               PROVE  Faithful(req[g])' 
    BY DEF Copies, Faithful
  <2>1. g # h /\ req'[g] = req[g] /\ Writing(g, RowOps)
    BY <1>2 DEF Writing
  <2>2. req[g].u \in Users /\ req[g].bk \in Row /\ Faithful(req[g])
    BY <2>1, WriterFields DEF Copies
  <2>3. req[g].bk.stamp \in Nat
    BY <2>2 DEF Row
  <2> QED
    BY <1>3, <1>4, <2>1, <2>2, <2>3 DEF Faithful
<1>9. Named'
  <2> SUFFICES ASSUME NEW g \in Handlers, req'[g] # Idle, req'[g].pc = "create"
               PROVE  Apart(req[g])'
    BY DEF Named, Apart
  <2>1. g # h /\ req'[g] = req[g] /\ Apart(req[g])
    BY <1>2 DEF Named
  <2> QED
    BY <1>3, <1>4, <2>1 DEF Apart
<1> QED
  BY <1>6, <1>7, <1>8, <1>9

(* What Updates makes of a row is a row, with the link it had if the copy  *)
(* has none and the role it had if the copy has a teacher's.               *)
LEMMA UpdatesFacts ==
    ASSUME NEW row \in Row, NEW bk \in Row, stamp \in Nat
    PROVE  /\ Updates(row, bk) \in Row /\ Updates(row, bk).stamp = stamp + 1
           /\ Updates(row, bk).pass = bk.pass
           /\ Updates(row, bk).link = IF bk.link = NoId THEN row.link ELSE bk.link
           /\ Updates(row, bk).role = IF bk.role = Teacher THEN row.role ELSE bk.role
<1> DEFINE l == IF bk.link = NoId THEN row.link ELSE bk.link
           r == IF bk.role = Teacher THEN row.role ELSE bk.role
<1>1. Updates(row, bk) =
        [row EXCEPT !.name = bk.name, !.pass = bk.pass, !.link = l, !.role = r, !.stamp = stamp + 1]
  BY DEF Updates
<1>2. /\ l \in Ids \cup {NoId} /\ r \in Role /\ bk.name \in 0 .. Names /\ bk.pass \in Passwords
      /\ stamp + 1 \in Nat
  BY DEF Row
<1> HIDE DEF l, r
<1>3. /\ Updates(row, bk) \in Row /\ Updates(row, bk).stamp = stamp + 1
      /\ Updates(row, bk).pass = bk.pass /\ Updates(row, bk).link = l /\ Updates(row, bk).role = r
  BY <1>1, <1>2 DEF Row
<1> QED
  BY <1>3 DEF l, r

(* What a request's write, or its unlink, makes of the row it names. *)
LEMMA WriteStep ==
    ASSUME TableInv, NEW h \in Handlers, Write(h)
    PROVE  /\ Writing(h, RowOps) /\ stamp' = stamp + 1 /\ Saved(h) /\ UNCHANGED visits
           /\ \/ users' = users
              \/ /\ Present(req[h].u) /\ req[h].gone
                 /\ users' = [users EXCEPT ![req[h].u] = Removed]
              \/ /\ Present(req[h].u)
                 /\ users' = [users EXCEPT ![req[h].u] = Updates(users[req[h].u], req[h].bk)]
  BY DEF Write, Writing

LEMMA WriteKeeps ==
    ASSUME TableInv, NEW h \in Handlers, Write(h)
    PROVE  TableInv'
<1> DEFINE u == req[h].u
<1>1. Writing(h, RowOps) /\ stamp' = stamp + 1 /\ Saved(h) /\ UNCHANGED visits
  BY WriteStep
<1>2. u \in Users /\ req[h].bk \in Row /\ req[h].route \in Routes /\ stamp \in Nat
      /\ users \in [Users -> Row \cup {NoRow, Removed}]
  BY <1>1, WriterFields DEF TableInv, TableOK
<1> HIDE DEF u
<1>3. CASE users' = users
  <2>1. users' = [users EXCEPT ![u] = users[u]] /\ users[u] \in Row \cup {NoRow, Removed}
    BY <1>2, <1>3
  <2> QED
    BY <1>1, <1>2, <2>1, WrittenKeeps
<1>4. CASE users' = [users EXCEPT ![u] = Removed]
  BY <1>1, <1>2, <1>4, WrittenKeeps
<1>5. CASE Present(u) /\ users' = [users EXCEPT ![u] = Updates(users[u], req[h].bk)]
  <2>1. users[u] \in Row
    BY <1>2, <1>5 DEF Present
  <2>2. Updates(users[u], req[h].bk) \in Row /\ Updates(users[u], req[h].bk).stamp = stamp + 1
    BY <1>2, <2>1, UpdatesFacts
  <2> QED
    BY <1>1, <1>2, <1>5, <2>2, WrittenKeeps
<1> QED
  BY <1>3, <1>4, <1>5, WriteStep DEF u

LEMMA UnlinkStep ==
    ASSUME TableInv, NEW h \in Handlers, Unlink(h)
    PROVE  /\ Writing(h, RowOps) /\ req[h].op = "unlink"
           /\ stamp' = stamp + 1 /\ Saved(h) /\ UNCHANGED visits
           /\ \/ users' = users
              \/ \E row \in Row :
                    /\ Present(req[h].u) /\ users' = [users EXCEPT ![req[h].u] = row]
                    /\ row.pass = users[req[h].u].pass /\ row.role = users[req[h].u].role
                    /\ users[req[h].u].stamp = req[h].bk.stamp /\ row.stamp = stamp + 1
<1>1. /\ Writing(h, RowOps) /\ req[h].op = "unlink"
      /\ stamp' = stamp + 1 /\ Saved(h) /\ UNCHANGED visits
  BY DEF Unlink, Writing, RowOps, GuardedOps
<1> DEFINE old == users[req[h].u]
           new == [old EXCEPT !.link = NoId, !.stamp = stamp + 1]
<1>2. CASE Present(req[h].u) /\ Matches(old, req[h].bk)
  <2>1. old \in Row /\ stamp \in Nat
    BY <1>1, <1>2, WriterFields DEF TableInv, TableOK, Present
  <2>2. users' = [users EXCEPT ![req[h].u] = new] /\ old.stamp = req[h].bk.stamp
    BY <1>2 DEF Unlink, Matches
  <2> HIDE DEF old
  <2>3. stamp + 1 \in Nat /\ NoId \in Ids \cup {NoId}
    BY <2>1
  <2>4. new \in Row /\ new.pass = old.pass /\ new.role = old.role /\ new.stamp = stamp + 1
    BY <2>1, <2>3 DEF Row
  <2> HIDE DEF new
  <2> QED
    BY <1>1, <1>2, <2>2, <2>4 DEF old
<1>3. CASE ~(Present(req[h].u) /\ Matches(old, req[h].bk))
  BY <1>1, <1>3 DEF Unlink
<1> QED
  BY <1>2, <1>3

LEMMA UnlinkKeeps ==
    ASSUME TableInv, NEW h \in Handlers, Unlink(h)
    PROVE  TableInv'
<1>1. Writing(h, RowOps) /\ stamp' = stamp + 1 /\ Saved(h) /\ UNCHANGED visits
  BY UnlinkStep
<1>2. /\ req[h].u \in Users /\ req[h].route \in Routes
      /\ users \in [Users -> Row \cup {NoRow, Removed}]
  BY <1>1, WriterFields DEF TableInv, TableOK
<1>3. PICK row \in Row \cup {NoRow, Removed} :
        /\ users' = [users EXCEPT ![req[h].u] = row]
        /\ row = users[req[h].u] \/ (row \in Row /\ row.stamp = stamp + 1)
  <2>1. CASE users' = users
    <3>1. users' = [users EXCEPT ![req[h].u] = users[req[h].u]]
      BY <1>2, <2>1
    <3> QED
      BY <1>2, <3>1
  <2>2. CASE users' # users
    BY <2>2, UnlinkStep
  <2> QED
    BY <2>1, <2>2
<1> QED
  BY <1>1, <1>2, <1>3, WrittenKeeps

(* A statement that fails changes no row. *)
LEMMA FailKeeps ==
    ASSUME TableInv, NEW h \in Handlers, Fail(h)
    PROVE  TableInv'
<1>1. req[h] # Idle /\ req[h].route \in Routes
  BY WriterFields, AtFields DEF Fail, TableInv, Writing, Routes
<1>2. [route |-> req[h].route, pc |-> "save"] \in Request
  BY <1>1, Places
<1> QED
  BY <1>2, QuietKeeps DEF Fail, Saved, Begin, table, TableInv, TableOK

LEMMA CreateKeeps ==
    ASSUME TableInv, NEW h \in Handlers, Create(h)
    PROVE  TableInv'
<1>1. req[h] # Idle /\ req[h].route = "guarded" /\ req[h].pc = "create"
  BY AtFields DEF Create, TableInv, Routes
<1>2. req[h].i \in 1 .. Names /\ stamp \in Nat
  BY <1>1 DEF TableInv, Named, Apart, TableOK
<1> DEFINE row(role) == [pass |-> Default, link |-> NoId, name |-> req[h].i,
                         role |-> role, stamp |-> stamp + 1]
<1>3. \A role \in Role : row(role) \in Row /\ row(role).stamp = stamp + 1
  BY <1>2, AccountsAssumption DEF Row
<1>4. PICK u \in Users, role \in Role : users' = [users EXCEPT ![u] = row(role)]
  BY DEF Create
<1>5. stamp' = stamp + 1 /\ Saved(h) /\ UNCHANGED visits
  BY DEF Create
<1> HIDE DEF row
<1> QED
  BY <1>1, <1>3, <1>4, <1>5, WrittenKeeps DEF Routes

LEMMA NamingKeeps ==
    ASSUME TableInv, NEW h \in Handlers, BeginNew(h) \/ TryName(h)
    PROVE  TableInv'
<1> USE DEF TableInv
<1>1. UNCHANGED <<users, stamp, visits>> /\ stamp \in Nat
  BY DEF BeginNew, TryName, table, TableOK
<1>2. req[h] # Idle /\ req[h].route = "guarded"
  BY AtFields DEF BeginNew, TryName, Routes
<1>3. CASE Saved(h)
  BY <1>1, <1>2, <1>3, Places, QuietKeeps DEF Saved, Begin, TableOK, Routes
<1>4. ASSUME NEW i \in 1 .. Names + 1, Try(h, "name", i, FALSE)
      PROVE  TableInv'
  <2> DEFINE q == [route |-> "guarded", pc |-> "name", i |-> i, mark |-> stamp, blind |-> FALSE]
  <2>1. q \in Request /\ q.pc \notin {"write", "create"}
    BY <1>1, Places
  <2>2. req' = [req EXCEPT ![h] = q]
    BY <1>4 DEF Try, Begin
  <2> HIDE DEF q
  <2> QED
    BY <1>1, <2>1, <2>2, QuietKeeps DEF TableOK
<1>5. ASSUME NEW i \in 1 .. Names, NEW blind \in BOOLEAN, blind \/ ~Taken(i), Try(h, "create", i, blind)
      PROVE  TableInv'
  <2> DEFINE q == [route |-> "guarded", pc |-> "create", i |-> i, mark |-> stamp, blind |-> blind]
  <2>1. q \in Request
    <3>1. i \in 1 .. Names + 1
      BY AccountsAssumption
    <3> QED
      BY <1>1, <3>1, Places
  <2>2. req' = [req EXCEPT ![h] = q]
    BY <1>5 DEF Try, Begin
  <2>3. req'[h] = q /\ \A g \in Handlers : g # h => req'[g] = req[g]
    BY <2>2 DEF TableOK
  <2>4. TableOK'
    BY <1>1, <2>1, <2>2 DEF TableOK
  <2>5. Stamps' /\ Copies'
    BY <1>1, <2>3 DEF Stamps, Copies, Faithful, Writing, Present
  <2>6. Apart(q)
    BY <1>1, <1>5 DEF Apart, Taken
  <2> HIDE DEF q
  <2>7. Named'
    BY <1>1, <2>3, <2>6 DEF Named, Apart, Present
  <2> QED
    BY <2>4, <2>5, <2>7
<1>6. CASE BeginNew(h)
  <2>1. 1 \in 1 .. Names + 1
    BY AccountsAssumption
  <2>2. Try(h, "name", 1, FALSE)
    BY <1>6 DEF BeginNew, Try
  <2> QED
    BY <1>4, <2>1, <2>2 DEF Try
<1>7. CASE TryName(h)
  <2>1. req[h].i \in 1 .. Names + 1 /\ Names \in Nat
    BY <1>2, <1>7, NamerFields, AccountsAssumption DEF TryName, At
  <2>2. \/ Saved(h)
        \/ req[h].i <= Names /\ Try(h, "name", req[h].i + 1, FALSE)
        \/ req[h].i <= Names /\ ~Taken(req[h].i) /\ Try(h, "create", req[h].i, FALSE)
        \/ req[h].i <= Names /\ Try(h, "create", req[h].i, TRUE)
    BY <1>7, <2>1 DEF TryName, TriedAll, Try
  <2>3. req[h].i <= Names => req[h].i \in 1 .. Names /\ req[h].i + 1 \in 1 .. Names + 1
    BY <2>1
  <2> QED
    BY <1>3, <1>4, <1>5, <2>2, <2>3
<1> QED
  BY <1>6, <1>7

LEMMA TableRestarts ==
    ASSUME TableInv, Restart
    PROVE  TableInv'
<1>1. UNCHANGED <<users, stamp>> /\ req' = [h \in Handlers |-> Idle] /\ visits' = visits + 1
  BY DEF Restart
<1> QED
  BY <1>1 DEF TableInv, TableOK, Stamps, Copies, Named, Present, Writing

-----------------------------------------------------------------------------
LEMMA AStart ==
    ASSUME Init
    PROVE  AInv
<1>1. SInv
  BY SessionsStart DEF Init
<1>2. PICK link \in [Linked -> Ids] :
        users = [u \in Users |-> IF u \notin Old THEN NoRow
                    ELSE [pass |-> Default, link |-> IF u \in Linked THEN link[u] ELSE NoId,
                          name |-> 0, role |-> RoleOf(u), stamp |-> 0]]
  BY DEF Init
<1>3. stamp = 0 /\ visits = 0 /\ \A h \in Handlers : req[h] = Idle
  BY DEF Init
<1>4. TableOK
  <2>1. \A u \in Linked : link[u] \in Ids
    BY <1>2
  <2>2. users \in [Users -> Row \cup {NoRow, Removed}]
    BY <1>2, <2>1, AccountsAssumption DEF Row, RoleOf, Role, Teacher, Technician, Admin
  <2> QED
    BY <1>3, <2>2 DEF Init, TableOK
<1>5. \A u \in Users : Present(u) => users[u].stamp = 0
  BY <1>2 DEF Present
<1>6. Stamps /\ Copies /\ Named
  BY <1>3, <1>5 DEF Stamps, Copies, Named, Writing
<1> QED
  BY <1>1, <1>4, <1>6 DEF AInv, TableInv

LEMMA AKept ==
    ASSUME AInv, [Next]_vars
    PROVE  AInv'
<1> USE DEF AInv
<1>1. CASE Next
  <2>1. SInv'
    BY <1>1, ProgramVisits, SessionsKept DEF TableInv
  <2>2. ASSUME NEW b \in Browsers, Forget(b)
        PROVE  TableInv'
    BY <2>2 DEF Forget, table, TableInv, TableOK, Stamps, Copies, Faithful, Named, Apart, Present, Writing
  <2>3. TableInv'
    BY <1>1, <2>2, FlowKeeps, ChoiceKeeps, ReadKeeps, ReadEditKeeps, WriteKeeps, UnlinkKeeps, FailKeeps,
       NamingKeeps, CreateKeeps, TableRestarts DEF Next
  <2> QED
    BY <2>1, <2>3
<1>2. CASE UNCHANGED vars
  <2>1. SInv'
    BY <1>2, SessionsKept DEF vars, sessionVars
  <2>2. TableInv'
    BY <1>2 DEF vars, TableInv, TableOK, Stamps, Copies, Faithful, Named, Apart, Present, Writing
  <2> QED
    BY <2>1, <2>2
<1> QED
  BY <1>1, <1>2

LEMMA AAlways == Spec => []AInv
<1>1. Init => AInv
  BY AStart
<1>2. AInv /\ [Next]_vars => AInv'
  BY AKept
<1> QED
  BY <1>1, <1>2, PTL DEF Spec

(* Every step leaves the sessions, the accounts and the requests what they *)
(* are meant to be.                                                        *)
THEOREM TypeCorrect == Spec => []TypeOK
<1>1. AInv => TypeOK
  BY DEF AInv, SInv, TableInv, TableOK, TypeOK
<1> QED
  BY <1>1, AAlways, PTL

(* What was last made of a session stands, until a request that had read   *)
(* it before ends after it.                                                *)
THEOREM SessionsStand == Spec => []SessionStands
<1>1. AInv => SessionStands
  BY DEF AInv, SInv
<1> QED
  BY <1>1, AAlways, PTL

(* A session, and a request, is signed in to an account only if its own    *)
(* browser was let into it, however many sessions are created at once.     *)
THEOREM ActsGranted == Spec => []ActsForGranted
<1>1. AInv => ActsForGranted
  BY LetInActs DEF AInv
<1> QED
  BY <1>1, AAlways, PTL

-----------------------------------------------------------------------------
(* The steps that change a row that is there are a request's write or its  *)
(* unlink.                                                                 *)
Stands(u) ==
    Present(u) /\ users'[u] # users[u] =>
        \E h \in Handlers :
            /\ Writing(h, RowOps) /\ req[h].u = u
            /\ LET seen == req[h].of = u /\ req[h].bk.stamp = users[u].stamp IN
                IF ~Present(u)' THEN req[h].op = "edit"
                ELSE /\ users[u].link # NoId /\ users'[u].link = NoId
                            => req[h].op = "unlink" /\ seen
                     /\ users'[u].pass # users[u].pass => req[h].reset \/ ~seen
                     /\ users'[u].role # users[u].role => req[h].op = "edit" \/ ~seen

LEMMA WriteStands ==
    ASSUME TableInv, NEW h \in Handlers, Write(h), NEW u \in Users
    PROVE  Stands(u)
<1>1. Writing(h, RowOps) /\ Faithful(req[h])
  BY WriteStep DEF TableInv, Copies
<1>2. /\ req[h].u \in Users /\ req[h].bk \in Row /\ stamp \in Nat
      /\ users \in [Users -> Row \cup {NoRow, Removed}]
  BY <1>1, WriterFields DEF TableInv, TableOK
<1>3. ASSUME u # req[h].u \/ users' = users
      PROVE  Stands(u)
  BY <1>2, <1>3, WriteStep DEF Stands
<1>4. CASE /\ u = req[h].u /\ Present(u) /\ req[h].gone
           /\ users' = [users EXCEPT ![u] = Removed]
  <2>1. req[h].op = "edit" /\ ~Present(u)'
    BY <1>1, <1>2, <1>4 DEF Faithful, Present
  <2> QED
    BY <1>1, <1>4, <2>1 DEF Stands
<1>5. CASE /\ u = req[h].u /\ Present(u)
           /\ users' = [users EXCEPT ![u] = Updates(users[u], req[h].bk)]
  <2>1. users[u] \in Row
    BY <1>2, <1>5 DEF Present
  <2>2. /\ users'[u].pass = req[h].bk.pass
        /\ users'[u].link = IF req[h].bk.link = NoId THEN users[u].link ELSE req[h].bk.link
        /\ users'[u].role = IF req[h].bk.role = Teacher THEN users[u].role ELSE req[h].bk.role
        /\ users'[u] \in Row
    BY <1>2, <1>5, <2>1, UpdatesFacts
  <2>3. Present(u)'
    BY <2>2 DEF Present, Row, NoRow, Removed
  <2>4. req[h].of = u /\ req[h].bk.stamp = users[u].stamp =>
            /\ req[h].reset \/ users[u].pass = req[h].bk.pass
            /\ req[h].op = "edit" \/ users[u].role = req[h].bk.role
    BY <1>1, <1>5 DEF Faithful
  <2> QED
    BY <1>1, <1>5, <2>2, <2>3, <2>4 DEF Stands
<1> QED
  BY <1>3, <1>4, <1>5, WriteStep

LEMMA UnlinkStands ==
    ASSUME TableInv, NEW h \in Handlers, Unlink(h), NEW u \in Users
    PROVE  Stands(u)
<1>1. Writing(h, RowOps) /\ req[h].op = "unlink" /\ req[h].of = req[h].u /\ req[h].u \in Users
  BY UnlinkStep, WriterFields DEF TableInv, Copies, Faithful
<1>2. ASSUME u # req[h].u \/ users' = users
      PROVE  Stands(u)
  BY <1>1, <1>2, UnlinkStep DEF Stands, TableInv, TableOK
<1>3. ASSUME u = req[h].u, users' # users
      PROVE  Stands(u)
  <2>1. PICK row \in Row :
            /\ users' = [users EXCEPT ![u] = row]
            /\ row.pass = users[u].pass /\ row.role = users[u].role
            /\ users[u].stamp = req[h].bk.stamp
    BY <1>3, UnlinkStep
  <2>2. users'[u] = row /\ Present(u)'
    BY <2>1 DEF TableInv, TableOK, Present, Row, NoRow, Removed
  <2> QED
    BY <1>1, <1>3, <2>1, <2>2 DEF Stands
<1> QED
  BY <1>2, <1>3

(* Whatever is done in a step, three statements write the table. *)
LEMMA WhoWrites ==
    ASSUME Next
    PROVE  \/ \E h \in Handlers : Write(h) \/ Unlink(h) \/ Create(h)
           \/ UNCHANGED users
<1>1. ASSUME NEW h \in Handlers, NEW b \in Browsers, NEW r \in Routes, Arrival(h, b, r)
      PROVE  UNCHANGED users
  BY <1>1 DEF Arrival
<1>2. ASSUME NEW h \in Handlers, Guard(h) \/ VisitAgain(h) \/ Start(h) \/ Done(h) \/ Revoke(h)
      PROVE  UNCHANGED users
  BY <1>2 DEF Guard, VisitAgain, Start, Done, Revoke, table
<1>3. ASSUME NEW h \in Handlers, LoginRefused(h) \/ Enter(h) \/ Logout(h) \/ Fail(h)
                                 \/ BeginNew(h) \/ TryName(h)
      PROVE  UNCHANGED users
  BY <1>3 DEF LoginRefused, Enter, Logout, Fail, BeginNew, TryName, table
<1>4. ASSUME NEW h \in Handlers, NEW u \in Users,
             \/ \E pw \in Passwords : Login(h, u, pw)
             \/ Switch(h, u) \/ Read(h, u)
             \/ \E f \in Bodies : ReadEdit(h, u, f)
      PROVE  UNCHANGED users
  BY <1>4 DEF Login, Switch, Read, ReadEdit, table
<1>5. ASSUME (\E b \in Browsers : Forget(b)) \/ Restart
      PROVE  UNCHANGED users
  BY <1>5 DEF Forget, Restart, table
<1> QED
  BY <1>1, <1>2, <1>3, <1>4, <1>5 DEF Next

LEMMA StepStands ==
    ASSUME AInv, Next, NEW u \in Users
    PROVE  Stands(u)
<1>1. ASSUME NEW h \in Handlers, Create(h)
      PROVE  Stands(u)
  <2>1. PICK v \in Users, role \in Role :
            /\ users[v] = NoRow
            /\ users' = [users EXCEPT ![v] = [pass |-> Default, link |-> NoId, name |-> req[h].i,
                                              role |-> role, stamp |-> stamp + 1]]
    BY <1>1 DEF Create
  <2>2. v # u => users'[u] = users[u]
    BY <2>1 DEF AInv, TableInv, TableOK
  <2> QED
    BY <2>1, <2>2 DEF Stands, Present
<1>2. ASSUME UNCHANGED users
      PROVE  Stands(u)
  BY <1>2 DEF Stands
<1>3. \/ \E h \in Handlers : Write(h) \/ Unlink(h) \/ Create(h)
      \/ UNCHANGED users
  BY WhoWrites
<1> QED
  BY <1>1, <1>2, <1>3, WriteStands, UnlinkStands DEF AInv

(* No request takes a link away, brings an old password back or changes a  *)
(* role by writing its copy of a row, unless somebody wrote the row after  *)
(* it was read or an edit named another row; and only edits take accounts  *)
(* away.                                                                   *)
THEOREM RowsStand == Spec => RowStands
<1>1. AInv /\ [Next]_vars => [\A u \in Users : Stands(u)]_vars
  BY StepStands DEF vars
<1>2. [\A u \in Users : Stands(u)]_vars =>
        [\A u \in Users : Present(u) /\ users'[u] # users[u] =>
            \E h \in Handlers :
                /\ Writing(h, RowOps) /\ req[h].u = u
                /\ LET seen == req[h].of = u /\ req[h].bk.stamp = users[u].stamp IN
                    IF ~Present(u)' THEN req[h].op = "edit"
                    ELSE /\ users[u].link # NoId /\ users'[u].link = NoId
                                => req[h].op = "unlink" /\ seen
                         /\ users'[u].pass # users[u].pass => req[h].reset \/ ~seen
                         /\ users'[u].role # users[u].role => req[h].op = "edit" \/ ~seen]_vars
  BY DEF Stands
<1> QED
  BY <1>1, <1>2, AAlways, PTL DEF Spec, RowStands

(* The step that fills an ID is the creation by the request that saves its *)
(* session next.                                                           *)
LEMMA CreatedName ==
    ASSUME AInv, Next, NEW h \in Handlers, NEW v \in Users,
           users[v] = NoRow, Present(v)', At(h, "guarded", "create"), At(h, "guarded", "save")'
    PROVE  users'[v].name = req[h].i
<1>1. users'[v] # users[v]
  BY DEF Present
<1>2. req'[h] # req[h]
  BY DEF At
<1>3. ASSUME NEW g \in Handlers, Write(g) \/ Unlink(g)
      PROVE  users'[v] = users[v]
  <2>1. req[g].u \in Users /\ users \in [Users -> Row \cup {NoRow, Removed}]
    BY <1>3, WriteStep, UnlinkStep, WriterFields DEF AInv, TableInv, TableOK
  <2>2. req[g].u = v => ~Present(req[g].u)
    BY DEF Present
  <2> QED
    BY <1>3, <2>1, <2>2, WriteStep, UnlinkStep DEF AInv
<1>4. \/ \E g \in Handlers : Write(g) \/ Unlink(g) \/ Create(g)
      \/ UNCHANGED users
  BY WhoWrites
<1>5. PICK g \in Handlers : Create(g)
  BY <1>1, <1>3, <1>4
<1>6. g = h
  BY <1>2, <1>5 DEF Create, Saved, Begin, AInv, TableInv, TableOK
<1>7. PICK w \in Users, role \in Role :
        users' = [users EXCEPT ![w] = [pass |-> Default, link |-> NoId, name |-> req[h].i,
                                       role |-> role, stamp |-> stamp + 1]]
  BY <1>5, <1>6 DEF Create
<1> QED
  BY <1>1, <1>7 DEF AInv, TableInv, TableOK

(* A new account's name is another's too only if the other was written     *)
(* after the name had been found free, or the query for it failed.         *)
THEOREM NamesStayApart == Spec => NamesApart
<1>1. AInv /\ [Next]_vars =>
        [\A h \in Handlers, v \in Users :
            users[v] = NoRow /\ Present(v)' /\ At(h, "guarded", "create") /\ At(h, "guarded", "save")' =>
                \A u \in Users : Present(u) /\ users[u].name = users'[v].name =>
                    users[u].stamp > req[h].mark \/ req[h].blind]_vars
  <2> SUFFICES ASSUME AInv, Next, NEW h \in Handlers, NEW v \in Users, users[v] = NoRow, Present(v)',
                      At(h, "guarded", "create"), At(h, "guarded", "save")',
                      NEW u \in Users, Present(u), users[u].name = users'[v].name
               PROVE  users[u].stamp > req[h].mark \/ req[h].blind
    BY DEF Present, vars
  <2>1. req[h] # Idle /\ req[h].pc = "create"
    BY AtFields DEF AInv, TableInv, Routes
  <2>2. users'[v].name = req[h].i
    BY CreatedName
  <2> QED
    BY <2>1, <2>2 DEF AInv, TableInv, Named, Apart
<1> QED
  BY <1>1, AAlways, PTL DEF Spec, NamesApart
=============================================================================
