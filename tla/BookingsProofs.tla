--------------------------- MODULE BookingsProofs ---------------------------
(***************************************************************************)
(* Proofs about Bookings, for every number of tickets, requests, deletions *)
(* and cleaners: its types, its safety properties, what CleanBookings      *)
(* deletes, and that Bookings implements BookingLife.                      *)
(***************************************************************************)
EXTENDS Bookings, TLAPS

(* The form that edits an activity was saved. *)
Saves == \/ \E p \in Templates : SaveTemplate(p)
         \/ \E t \in Tickets, some \in BOOLEAN : SaveCopy(t, some)

(* What GORM's statements make of a row is a row. *)
LEMMA RowOps ==
    ASSUME NEW row \in Row \cup {NoRow}, NEW bk \in Row, NEW now \in Nat,
           NEW status \in Statuses, NEW how \in Gone
    PROVE  /\ Updates(row, bk, now) \in Row \cup {NoRow}
           /\ UpdateStatus(row, bk, status, now) \in Row \cup {NoRow}
           /\ SoftDelete(row, how) \in Row \cup {NoRow}
  <1>1. CASE row = NoRow
    BY <1>1 DEF NoRow, Updates, UpdateStatus, Matches, SoftDelete, Live
  <1>2. CASE row \in Row
    <2>1. Updates(row, bk, now) \in Row
      <3>1. CASE Live(row)
        <4> DEFINE s == IF bk.status = "Pending" THEN row.status ELSE bk.status
        <4>1. s \in Statuses
          BY <1>2 DEF Row
        <4>2. Updates(row, bk, now) =
                [row EXCEPT !.start = bk.start, !.end = bk.end, !.stamp = now, !.status = s]
          BY <3>1, <1>2 DEF Updates, Row
        <4> HIDE DEF s
        <4> QED BY <4>1, <4>2, <1>2 DEF Row
      <3> QED BY <3>1, <1>2 DEF Updates
    <2>2. UpdateStatus(row, bk, status, now) \in Row
      BY <1>2 DEF UpdateStatus, Row
    <2>3. SoftDelete(row, how) \in Row
      BY <1>2 DEF SoftDelete, Row
    <2> QED BY <2>1, <2>2, <2>3
  <1> QED BY <1>1, <1>2

LEMMA NewRowType ==
    ASSUME NEW u \in Users, NEW slot \in Slots, NEW now \in Nat
    PROVE  NewRow(u, slot, now) \in Row
  BY BookingRowsAssumption DEF NewRow, Row, Statuses

LEMMA DropTypes ==
    ASSUME TypeOK, NEW ts, NEW how \in Gone
    PROVE  /\ DropRows(ts, how) \in [Tickets -> Row \cup {NoRow}]
           /\ DropActs(ts) \in [Tickets -> Act \cup {NoAct}]
  <1>1. \A t \in Tickets : SoftDelete(rows[t], how) \in Row \cup {NoRow}
    BY DEF TypeOK, SoftDelete, Row, NoRow, Live, Gone
  <1>2. \A t \in Tickets : acts[t] # NoAct => [acts[t] EXCEPT !.state = "deleted"] \in Act
    BY DEF TypeOK, Act
  <1> QED BY <1>1, <1>2 DEF TypeOK, DropRows, DropActs

(* The operation a request is doing tells what it remembers. *)
Request == {Idle} \cup Submission \cup StatusChange \cup Amendment \cup Cancellation

LEMMA Kinds ==
    ASSUME NEW r \in Request
    PROVE  /\ r.op = "submit" => r \in Submission
           /\ r.op = "status" => r \in StatusChange
           /\ r.op \in {"amend", "postpone"} => r \in Amendment
           /\ r.op = "cancel" => r \in Cancellation
  BY DEF Request, Idle, Submission, StatusChange, Amendment, Cancellation

LEMMA GotoType ==
    ASSUME NEW r \in Request, NEW pc,
           \/ r.op = "submit" /\ pc \in {"create", "push"}
           \/ r.op = "cancel" /\ pc = "push"
    PROVE  [r EXCEPT !.pc = pc] \in Request
  <1>1. CASE r.op = "submit"
    <2>1. r \in Submission BY <1>1, Kinds
    <2>2. [r EXCEPT !.pc = pc] \in Submission BY <1>1, <2>1 DEF Submission
    <2> QED BY <2>2 DEF Request
  <1>2. CASE r.op = "cancel"
    <2>1. r \in Cancellation BY <1>2, Kinds
    <2>2. [r EXCEPT !.pc = pc] \in Cancellation BY <1>2, <2>1 DEF Cancellation
    <2> QED BY <2>2 DEF Request
  <1> QED BY <1>1, <1>2

LEMMA RequestType ==
    ASSUME TypeOK, NEW h \in Handlers
    PROVE  /\ req[h] \in Request
           /\ \A r \in Request : [req EXCEPT ![h] = r] \in [Handlers -> Request]
  BY DEF TypeOK, Request

LEMMA ArrivalType ==
    ASSUME TypeOK, NEW h \in Handlers, Arrival(h)
    PROVE  TypeOK'
  <1> SUFFICES req' \in [Handlers -> Request] /\ UNCHANGED <<clock, stamp, faults, db, note, del, cln>>
    BY DEF TypeOK, Request, db
  <1>1. ASSUME NEW t \in Tickets, NEW p \in Activities, NEW u \in Users, BeginSubmit(h, t, p, u)
        PROVE  req' \in [Handlers -> Request] /\ UNCHANGED <<clock, stamp, faults, db, note, del, cln>>
    <2>1. [op |-> "submit", pc |-> "clone", t |-> t, from |-> p, user |-> u] \in Request
      BY DEF Request, Submission
    <2> QED BY <1>1, <2>1, RequestType DEF BeginSubmit, Begin
  <1>2. ASSUME NEW t \in Tickets, NEW status \in Statuses, BeginStatus(h, t, status)
        PROVE  req' \in [Handlers -> Request] /\ UNCHANGED <<clock, stamp, faults, db, note, del, cln>>
    <2>1. rows[t] \in Row BY <1>2 DEF BeginStatus, TypeOK, Live, NoRow
    <2>2. [op |-> "status", pc |-> "write", t |-> t, bk |-> rows[t], to |-> status,
           hit |-> FALSE] \in Request
      BY <2>1 DEF Request, StatusChange
    <2> QED BY <1>2, <2>2, RequestType DEF BeginStatus, Begin
  <1>3. ASSUME NEW t \in Tickets, NEW u \in Users, NEW slot \in Slots, NEW adds \in BOOLEAN,
               BeginAmend(h, u, t, slot, adds)
        PROVE  req' \in [Handlers -> Request] /\ UNCHANGED <<clock, stamp, faults, db, note, del, cln>>
    <2>1. rows[t] \in Row BY <1>3 DEF BeginAmend, TypeOK, Live, NoRow
    <2> DEFINE bk == [rows[t] EXCEPT !.start = slot.start, !.end = slot.end]
    <2>2. bk \in Row BY <2>1, BookingRowsAssumption DEF Row
    <2> HIDE DEF bk
    <2>3. [op |-> "amend", pc |-> "write", t |-> t, adds |-> adds, hit |-> FALSE, bk |-> bk] \in Request
      BY <2>2 DEF Request, Amendment
    <2> QED BY <1>3, <2>3, RequestType DEF BeginAmend, Begin, bk
  <1>4. ASSUME NEW t \in Tickets, NEW u \in Users, NEW slot \in Slots, BeginPostpone(h, u, t, slot)
        PROVE  req' \in [Handlers -> Request] /\ UNCHANGED <<clock, stamp, faults, db, note, del, cln>>
    <2>1. rows[t] \in Row BY <1>4 DEF BeginPostpone, TypeOK, Live, NoRow
    <2> DEFINE bk == [rows[t] EXCEPT !.start = slot.start, !.end = slot.end,
                                     !.status = IF @ = "Pending" THEN @ ELSE "Progress"]
    <2>2. bk \in Row BY <2>1, BookingRowsAssumption DEF Row, Statuses
    <2> HIDE DEF bk
    <2>3. [op |-> "postpone", pc |-> "write", t |-> t, adds |-> FALSE, hit |-> FALSE, bk |-> bk] \in Request
      BY <2>2 DEF Request, Amendment
    <2> QED BY <1>4, <2>3, RequestType DEF BeginPostpone, Begin, bk
  <1>5. ASSUME NEW t \in Tickets, NEW u \in Users, BeginCancel(h, u, t)
        PROVE  req' \in [Handlers -> Request] /\ UNCHANGED <<clock, stamp, faults, db, note, del, cln>>
    <2>1. [op |-> "cancel", pc |-> "write", t |-> t] \in Request
      BY DEF Request, Cancellation
    <2> QED BY <1>5, <2>1, RequestType DEF BeginCancel, Begin
  <1> QED BY <1>1, <1>2, <1>3, <1>4, <1>5 DEF Arrival

LEMMA ProgressType ==
    ASSUME TypeOK, NEW h \in Handlers, Progress(h)
    PROVE  TypeOK'
  <1> DEFINE r == req[h]
  <1>0. r \in Request /\ stamp + 1 \in Nat
    BY RequestType DEF TypeOK
  <1>f. Finish(h) => req' \in [Handlers -> Request]
    BY RequestType DEF Finish, Request
  <1>1. CASE Clone(h)
    <2>1. r \in Submission BY <1>0, <1>1, Kinds DEF Clone, At
    <2>2. [r EXCEPT !.pc = "create"] \in Request BY <1>0, <1>1, GotoType DEF Clone, At
    <2>3. req' \in [Handlers -> Request] BY <1>1, <2>2, RequestType DEF Clone, Goto
    <2>4. [state |-> "live", from |-> r.from, stamp |-> 0] \in Act /\ r.t \in Tickets
      BY <2>1 DEF Act, Submission
    <2> QED BY <1>1, <2>3, <2>4 DEF TypeOK, Clone, Request
  <1>2. ASSUME NEW slot \in Slots, NewBooking(h, slot) PROVE TypeOK'
    <2>1. r \in Submission BY <1>0, <1>2, Kinds DEF NewBooking, At
    <2>2. [r EXCEPT !.pc = "push"] \in Request BY <1>0, <1>2, GotoType DEF NewBooking, At
    <2>3. req' \in [Handlers -> Request] BY <1>2, <2>2, RequestType DEF NewBooking, Goto
    <2>4. NewRow(r.user, slot, stamp + 1) \in Row /\ r.t \in Tickets
      BY <2>1, <1>0, NewRowType DEF Submission
    <2> QED BY <1>2, <2>3, <2>4, <1>0 DEF TypeOK, NewBooking, Request, Write
  <1>3. CASE WriteStatus(h)
    <2>1. r \in StatusChange BY <1>0, <1>3, Kinds DEF WriteStatus, At
    <2>2. [r EXCEPT !.pc = "push", !.hit = Matches(rows[r.t], r.bk)] \in Request
      BY <2>1 DEF StatusChange, Request, Matches
    <2>3. req' \in [Handlers -> Request] BY <1>3, <2>2, RequestType DEF WriteStatus, Begin
    <2>4. r.t \in Tickets /\ UpdateStatus(rows[r.t], r.bk, r.to, stamp + 1) \in Row \cup {NoRow}
      BY <2>1, <1>0, RowOps DEF StatusChange, TypeOK, Gone
    <2> QED BY <1>3, <2>3, <2>4, <1>0 DEF TypeOK, WriteStatus, Request, Write
  <1>4. CASE TellOwner(h)
    <2>1. r \in StatusChange BY <1>0, <1>4, Kinds DEF TellOwner, At
    <2>2. [to |-> "owner", t |-> r.t, says |-> r.to] \in Note BY <2>1 DEF Note, StatusChange
    <2> QED BY <1>4, <1>f, <2>2 DEF TypeOK, TellOwner, Request, db
  <1>5. ASSUME NEW op \in {"amend", "postpone"}, WriteAmend(h, op) PROVE TypeOK'
    <2>1. r \in Amendment BY <1>0, <1>5, Kinds DEF WriteAmend, At
    <2>2. [r EXCEPT !.pc = "push", !.hit = Live(rows[r.t])] \in Request
      BY <2>1 DEF Amendment, Request, Live
    <2>3. req' \in [Handlers -> Request] BY <1>5, <2>2, RequestType DEF WriteAmend, Begin
    <2>4. r.t \in Tickets /\ Updates(rows[r.t], r.bk, stamp + 1) \in Row \cup {NoRow}
      BY <2>1, <1>0, RowOps DEF Amendment, TypeOK, Gone, Statuses
    <2> QED BY <1>5, <2>3, <2>4, <1>0 DEF TypeOK, WriteAmend, Request, Write
  <1>6. CASE WriteCancel(h)
    <2>1. r \in Cancellation BY <1>0, <1>6, Kinds DEF WriteCancel, At
    <2>2. [r EXCEPT !.pc = "push"] \in Request BY <1>0, <1>6, GotoType DEF WriteCancel, At
    <2>3. req' \in [Handlers -> Request] BY <1>6, <2>2, RequestType DEF WriteCancel, Goto
    <2>4. r.t \in Tickets BY <2>1 DEF Cancellation
    <2>5. SoftDelete(rows[r.t], "cancelled") \in Row \cup {NoRow}
      BY <2>4 DEF TypeOK, SoftDelete, Row, NoRow, Live, Gone
    <2> QED BY <1>6, <2>3, <2>4, <2>5 DEF TypeOK, WriteCancel, Request
  <1>7. CASE TellTechnicians(h)
    <2>1. r.t \in Tickets
      BY <1>0, <1>7, Kinds DEF TellTechnicians, At, Subjects, Submission, Amendment, Cancellation
    <2>2. \A op \in Subjects : [to |-> "technicians", t |-> r.t, says |-> op] \in Note
      BY <2>1 DEF Note
    <2> QED BY <1>7, <1>f, <2>2 DEF TypeOK, TellTechnicians, Request, db
  <1> QED BY <1>1, <1>2, <1>3, <1>4, <1>5, <1>6, <1>7 DEF Progress

LEMMA DeleteType ==
    ASSUME TypeOK, NEW d \in Deleters,
           DeleteStep(d) \/ \E p \in Activities : BeginDelete(d, p)
    PROVE  TypeOK'
  <1>1. ASSUME NEW p \in Activities, BeginDelete(d, p) PROVE TypeOK'
    <2>1. SavedAt(p) \in Nat
      <3>1. CASE p \in Tickets
        <4>1. acts[p] \in Act BY <1>1, <3>1 DEF BeginDelete, There, ActLive, TypeOK, NoAct
        <4> QED BY <3>1, <4>1 DEF SavedAt, Act
      <3>2. CASE p \in Templates /\ p \notin Tickets
        BY <3>2 DEF SavedAt, TypeOK
      <3> QED BY <3>1, <3>2 DEF Activities
    <2>2. [op |-> "delete", pc |-> "find", from |-> p, read |-> SavedAt(p), kids |-> {}] \in Deletion
      BY <2>1 DEF Deletion
    <2> QED BY <1>1, <2>2 DEF BeginDelete, TypeOK, db
  <1>2. CASE FindCopies(d)
    <2>1. del[d] \in Deletion BY <1>2 DEF FindCopies, TypeOK
    <2>2. Copies(del[d].from) \in SUBSET Tickets BY DEF Copies
    <2> DEFINE r == [del[d] EXCEPT !.pc = "commit", !.kids = Copies(del[d].from)]
    <2>3. r \in Deletion BY <2>1, <2>2 DEF Deletion
    <2>4. del' = [del EXCEPT ![d] = r] BY <1>2 DEF FindCopies, TypeOK
    <2> HIDE DEF r
    <2> QED BY <1>2, <2>3, <2>4 DEF FindCopies, TypeOK, db
  <1>3. CASE CommitDelete(d)
    <2>1. del[d] \in Deletion BY <1>3 DEF CommitDelete, TypeOK
    <2>2. rows' \in [Tickets -> Row \cup {NoRow}] /\ acts' \in [Tickets -> Act \cup {NoAct}]
      BY <1>3, DropTypes DEF CommitDelete, Gone
    <2>3. \A p \in Templates : \A b \in BOOLEAN :
            [tmpl[p] EXCEPT !.live = @ /\ b] \in [live: BOOLEAN, stamp: Nat]
      BY DEF TypeOK
    <2>4. gear' \subseteq Tickets BY <1>3 DEF CommitDelete, TypeOK
    <2>5. tmpl' \in [Templates -> [live: BOOLEAN, stamp: Nat]]
      BY <1>3, <2>3 DEF CommitDelete
    <2>6. del' \in [Deleters -> {Idle} \cup Deletion] BY <1>3 DEF CommitDelete, TypeOK
    <2> QED BY <1>3, <2>2, <2>4, <2>5, <2>6 DEF CommitDelete, TypeOK
  <1> QED BY <1>1, <1>2, <1>3 DEF DeleteStep

LEMMA CleanType ==
    ASSUME TypeOK, NEW c \in Cleaners, BeginClean(c) \/ CleanStep(c)
    PROVE  TypeOK'
  <1>0. cln[c] # Idle => cln[c] \in Cleaning BY DEF TypeOK
  <1>1. CASE BeginClean(c)
    BY <1>1 DEF BeginClean, TypeOK, Cleaning, db
  <1>2. CASE FindPast(c)
    <2>1. PICK b \in SUBSET Past(cln[c].cut) :
            cln' = [cln EXCEPT ![c].pc = "delete", ![c].batch = b, ![c].mark = stamp,
                              ![c].temps = {t \in b : ActLive(t)}, ![c].full = ~LastBatch(b)]
      BY <1>2 DEF FindPast
    <2> DEFINE r == [cln[c] EXCEPT !.pc = "delete", !.batch = b, !.mark = stamp,
                              !.temps = {t \in b : ActLive(t)}, !.full = ~LastBatch(b)]
    <2>2. b \in SUBSET Tickets BY DEF Past
    <2>3. r \in Cleaning BY <1>0, <1>2, <2>2 DEF FindPast, Cleaning, TypeOK, LastBatch
    <2>4. cln' = [cln EXCEPT ![c] = r] BY <2>1 DEF TypeOK
    <2> HIDE DEF r
    <2> QED BY <1>2, <2>3, <2>4 DEF FindPast, TypeOK, db
  <1>3. ASSUME NEW t \in Tickets, DeleteBooking(c, t) PROVE TypeOK'
    <2>1. rows' \in [Tickets -> Row \cup {NoRow}] /\ acts' \in [Tickets -> Act \cup {NoAct}]
      BY <1>3, DropTypes DEF DeleteBooking, Gone
    <2> DEFINE r == [cln[c] EXCEPT !.batch = @ \ {t}]
    <2>2. r \in Cleaning BY <1>0, <1>3 DEF DeleteBooking, Cleaning
    <2>3. cln' = [cln EXCEPT ![c] = r] BY <1>3 DEF DeleteBooking, TypeOK
    <2> HIDE DEF r
    <2> QED BY <1>3, <2>1, <2>2, <2>3 DEF DeleteBooking, TypeOK
  <1>4. ASSUME NEW t \in Tickets, DeleteFails(c, t) PROVE TypeOK'
    <2> DEFINE r == [cln[c] EXCEPT !.batch = @ \ {t}, !.errs = TRUE]
    <2>2. r \in Cleaning BY <1>0, <1>4 DEF DeleteFails, Cleaning
    <2>3. cln' = [cln EXCEPT ![c] = r] BY <1>4 DEF DeleteFails, TypeOK
    <2> HIDE DEF r
    <2>4. cln' \in [Cleaners -> {Idle} \cup Cleaning] BY <2>2, <2>3 DEF TypeOK
    <2>5. faults' \in Nat BY <1>4 DEF DeleteFails, TypeOK
    <2> QED BY <1>4, <2>4, <2>5 DEF DeleteFails, TypeOK, db
  <1>5. CASE NextBatch(c)
    <2> DEFINE r == [cln[c] EXCEPT !.pc = "find"]
    <2>2. r \in Cleaning BY <1>0, <1>5 DEF NextBatch, Cleaning
    <2>3. cln' = [cln EXCEPT ![c] = r] BY <1>5 DEF NextBatch, TypeOK
    <2> HIDE DEF r
    <2> QED BY <1>5, <2>2, <2>3 DEF NextBatch, TypeOK, db
  <1>6. CASE EndClean(c)
    BY <1>6 DEF EndClean, TypeOK, db
  <1> QED BY <1>1, <1>2, <1>3, <1>4, <1>5, <1>6 DEF CleanStep

LEMMA EnvironmentType ==
    ASSUME TypeOK, Tick \/ Fail \/ Crash \/ Saves
    PROVE  TypeOK'
  <1>1. CASE Tick BY <1>1 DEF Tick, TypeOK, db
  <1>2. CASE Fail BY <1>2 DEF Fail, TypeOK, db, Finish
  <1>3. CASE Crash BY <1>3 DEF Crash, TypeOK, db
  <1>4. ASSUME NEW p \in Templates, SaveTemplate(p) PROVE TypeOK'
    <2>1. [tmpl[p] EXCEPT !.stamp = stamp + 1] \in [live: BOOLEAN, stamp: Nat] /\ stamp + 1 \in Nat
      BY DEF TypeOK
    <2>2. tmpl' \in [Templates -> [live: BOOLEAN, stamp: Nat]] /\ stamp' \in Nat
      BY <1>4, <2>1 DEF SaveTemplate, TypeOK, Write
    <2> QED BY <1>4, <2>2 DEF SaveTemplate, TypeOK
  <1>5. ASSUME NEW t \in Tickets, NEW some \in BOOLEAN, SaveCopy(t, some) PROVE TypeOK'
    <2>1. acts[t] \in Act BY <1>5 DEF SaveCopy, ActLive, TypeOK, NoAct
    <2>2. stamp + 1 \in Nat BY DEF TypeOK
    <2>3. [acts[t] EXCEPT !.stamp = stamp + 1] \in Act BY <2>1, <2>2 DEF Act
    <2>4. acts' \in [Tickets -> Act \cup {NoAct}] BY <1>5, <2>3 DEF SaveCopy, TypeOK
    <2>5. gear' \subseteq Tickets BY <1>5 DEF SaveCopy, TypeOK
    <2> QED BY <1>5, <2>2, <2>4, <2>5 DEF SaveCopy, TypeOK, Write
  <1> QED BY <1>1, <1>2, <1>3, <1>4, <1>5 DEF Saves

LEMMA StepType == TypeOK /\ [Next]_vars => TypeOK'
  <1> SUFFICES ASSUME TypeOK, [Next]_vars PROVE TypeOK'
    OBVIOUS
  <1>1. CASE UNCHANGED vars BY <1>1 DEF vars, TypeOK
  <1>2. CASE Next
    BY <1>2, ArrivalType, ProgressType, DeleteType, CleanType, EnvironmentType
       DEF Next, Saves
  <1> QED BY <1>1, <1>2

(* Every reachable state of the server has its type: in particular a request *)
(* holds the copy of a booking it needs, and no statement makes a row that   *)
(* is not one.                                                               *)
THEOREM TypeCorrect == Spec => []TypeOK
  <1>1. Init => TypeOK
    BY DEF Init, TypeOK
  <1> QED BY <1>1, StepType, PTL DEF Spec

-----------------------------------------------------------------------------
(* Safety. *)

(* A submission that has not created its booking yet. *)
Submitting(h) == req[h].op = "submit" /\ req[h].pc \in {"clone", "create"}

(* A ticket is used by one submission, which creates its activity and then    *)
(* its booking; every other request was begun on a booking that existed.      *)
BookedOnce ==
    /\ \A t \in Tickets : rows[t] # NoRow => acts[t] # NoAct
    /\ \A h \in Handlers : Submitting(h) =>
          /\ rows[req[h].t] = NoRow
          /\ acts[req[h].t] = NoAct <=> req[h].pc = "clone"
    /\ \A g, h \in Handlers :
          Submitting(g) /\ Submitting(h) /\ req[g].t = req[h].t => g = h
    /\ \A h \in Handlers :
          req[h] # Idle /\ ~Submitting(h) => rows[req[h].t] # NoRow

(* A cancellation is announced only after its booking went. *)
CancelledFirst ==
    /\ \A h \in Handlers : At(h, "cancel", "push") => rows[req[h].t].state \in Gone
    /\ note # NoNote /\ note.to = "technicians" /\ note.says = "cancel" =>
          rows[note.t].state \in Gone

(* What a deletion and a cleaner remember of the activities they are about to *)
(* delete is still so, except that another may have deleted them.             *)
RemembersActs ==
    /\ \A d \in Deleters : del[d] # Idle => \A t \in del[d].kids : acts[t] # NoAct
    /\ \A c \in Cleaners : cln[c] # Idle =>
          \A t \in cln[c].batch : acts[t] # NoAct /\ (ActLive(t) => t \in cln[c].temps)

(* Equal timestamps mean equal rows: why a conditional update is enough. *)
StampsTell ==
    /\ \A t \in Tickets : rows[t] # NoRow => rows[t].stamp <= stamp
    /\ \A h \in Handlers : At(h, "status", "write") =>
          /\ req[h].bk.stamp <= stamp
          /\ Matches(rows[req[h].t], req[h].bk) => rows[req[h].t] = req[h].bk

(* The inductive invariant. *)
IInv == /\ TypeOK /\ BookedOnce /\ CancelledFirst /\ RemembersActs /\ StampsTell
        /\ ActivityGoesWithBooking

-----------------------------------------------------------------------------
(* What a step can do to the tables. *)

Created(t) ==
    /\ rows[t] = NoRow /\ acts[t] # NoAct /\ stamp' = stamp + 1
    /\ \E h \in Handlers, slot \in Slots :
          /\ NewBooking(h, slot) /\ req[h].t = t /\ req[h].user \in Users
          /\ rows' = [rows EXCEPT ![t] = NewRow(req[h].user, slot, stamp + 1)]

Rewritten(t) ==
    /\ Live(rows[t]) /\ stamp' = stamp + 1
    /\ \E r \in Row : /\ Live(r) /\ r.owner = rows[t].owner /\ r.stamp = stamp + 1
                     /\ rows' = [rows EXCEPT ![t] = r]

Removed(ts) ==
    /\ stamp' = stamp
    /\ \E how \in Gone : rows' = DropRows(ts, how)

RowsChange ==
    \/ rows' = rows /\ stamp' \in {stamp, stamp + 1}
    \/ \E t \in Tickets : Created(t) \/ Rewritten(t)
    \/ \E ts \in SUBSET Tickets : Removed(ts)

(* A row a statement finds is written, or the statement leaves the table as it is. *)
LEMMA WriteOne ==
    ASSUME TypeOK, NEW t \in Tickets, NEW r \in Row \cup {NoRow}, stamp' = stamp + 1,
           rows' = [rows EXCEPT ![t] = r],
           \/ r = rows[t]
           \/ /\ Live(rows[t]) /\ Live(r)
              /\ r.owner = rows[t].owner /\ r.stamp = stamp + 1
    PROVE  RowsChange
  <1>1. CASE r = rows[t]
    BY <1>1 DEF RowsChange, TypeOK
  <1>2. CASE r # rows[t]
    <2>1. r \in Row BY <1>2 DEF Live, NoRow
    <2>2. Rewritten(t) BY <1>2, <2>1 DEF Rewritten
    <2> QED BY <2>2 DEF RowsChange
  <1> QED BY <1>1, <1>2

LEMMA UpdatesRow ==
    ASSUME NEW row \in Row \cup {NoRow}, NEW bk \in Row, NEW status \in Statuses, NEW now \in Nat
    PROVE  /\ \/ Updates(row, bk, now) = row
              \/ /\ Live(row) /\ Live(Updates(row, bk, now))
                 /\ Updates(row, bk, now).owner = row.owner
                 /\ Updates(row, bk, now).stamp = now
           /\ \/ UpdateStatus(row, bk, status, now) = row
              \/ /\ Matches(row, bk) /\ Live(row) /\ Live(UpdateStatus(row, bk, status, now))
                 /\ UpdateStatus(row, bk, status, now).owner = row.owner
                 /\ UpdateStatus(row, bk, status, now).stamp = now
  <1>1. CASE ~Live(row)
    BY <1>1 DEF Updates, UpdateStatus, Matches
  <1>2. CASE Live(row)
    <2>1. row \in Row BY <1>2 DEF Live, NoRow
    <2>2. Updates(row, bk, now) =
            [row EXCEPT !.start = bk.start, !.end = bk.end, !.stamp = now,
                        !.status = IF bk.status = "Pending" THEN row.status ELSE bk.status]
      BY <1>2, <2>1 DEF Updates, Row
    <2>3. /\ Live(Updates(row, bk, now)) /\ Updates(row, bk, now).owner = row.owner
          /\ Updates(row, bk, now).stamp = now
      BY <1>2, <2>1, <2>2 DEF Live, Row
    <2>4. \/ UpdateStatus(row, bk, status, now) = row
          \/ /\ Matches(row, bk)
             /\ UpdateStatus(row, bk, status, now) = [row EXCEPT !.status = status, !.stamp = now]
      BY DEF UpdateStatus
    <2> QED BY <1>2, <2>1, <2>3, <2>4 DEF Live, Row
  <1> QED BY <1>1, <1>2

LEMMA RowsStep ==
    ASSUME TypeOK, BookedOnce, [Next]_vars
    PROVE  RowsChange
  <1>n. stamp \in Nat /\ stamp + 1 \in Nat BY DEF TypeOK
  <1>0. ASSUME rows' = rows, stamp' \in {stamp, stamp + 1} PROVE RowsChange
    BY <1>0 DEF RowsChange
  <1>1. CASE UNCHANGED vars BY <1>1, <1>0 DEF vars
  <1>2. ASSUME NEW h \in Handlers, Arrival(h) PROVE RowsChange
    BY <1>2, <1>0 DEF Arrival, BeginSubmit, BeginStatus, BeginAmend, BeginPostpone, BeginCancel, db
  <1>3. ASSUME NEW h \in Handlers, Progress(h) PROVE RowsChange
    <2> DEFINE r == req[h]
    <2>0. r \in Request BY RequestType
    <2>1. CASE Clone(h) \/ TellOwner(h) \/ TellTechnicians(h)
      BY <2>1, <1>0 DEF Clone, TellOwner, TellTechnicians, db
    <2>2. ASSUME NEW slot \in Slots, NewBooking(h, slot) PROVE RowsChange
      <3>1. r \in Submission BY <2>0, <2>2, Kinds DEF NewBooking, At
      <3>2. r.t \in Tickets /\ r.user \in Users BY <3>1 DEF Submission
      <3>3. rows[r.t] = NoRow /\ acts[r.t] # NoAct
        BY <2>2 DEF NewBooking, At, BookedOnce, Submitting
      <3>4. rows' = [rows EXCEPT ![r.t] = NewRow(r.user, slot, stamp + 1)] /\ stamp' = stamp + 1
        BY <2>2 DEF NewBooking, Write
      <3>5. Created(r.t) BY <2>2, <3>2, <3>3, <3>4 DEF Created
      <3> QED BY <3>2, <3>5 DEF RowsChange
    <2>3. CASE WriteStatus(h)
      <3>1. r \in StatusChange BY <2>0, <2>3, Kinds DEF WriteStatus, At
      <3>2. r.t \in Tickets /\ r.bk \in Row /\ r.to \in Statuses BY <3>1 DEF StatusChange
      <3>3. rows[r.t] \in Row \cup {NoRow} BY <3>2 DEF TypeOK
      <3> DEFINE w == UpdateStatus(rows[r.t], r.bk, r.to, stamp + 1)
      <3>4. w \in Row \cup {NoRow} BY <1>n, <3>2, <3>3, RowOps DEF Gone
      <3>5. \/ w = rows[r.t]
            \/ Live(rows[r.t]) /\ Live(w) /\ w.owner = rows[r.t].owner /\ w.stamp = stamp + 1
        BY <1>n, <3>2, <3>3, UpdatesRow
      <3>6. rows' = [rows EXCEPT ![r.t] = w] /\ stamp' = stamp + 1
        BY <2>3 DEF WriteStatus, Write
      <3> HIDE DEF w, r
      <3> QED BY <3>2, <3>4, <3>5, <3>6, WriteOne
    <2>4. ASSUME NEW op \in {"amend", "postpone"}, WriteAmend(h, op) PROVE RowsChange
      <3>1. r \in Amendment BY <2>0, <2>4, Kinds DEF WriteAmend, At
      <3>2. r.t \in Tickets /\ r.bk \in Row BY <3>1 DEF Amendment
      <3>3. rows[r.t] \in Row \cup {NoRow} BY <3>2 DEF TypeOK
      <3> DEFINE w == Updates(rows[r.t], r.bk, stamp + 1)
      <3>4. w \in Row \cup {NoRow} BY <1>n, <3>2, <3>3, RowOps DEF Gone, Statuses
      <3>5. \/ w = rows[r.t]
            \/ Live(rows[r.t]) /\ Live(w) /\ w.owner = rows[r.t].owner /\ w.stamp = stamp + 1
        BY <1>n, <3>2, <3>3, UpdatesRow DEF Statuses
      <3>6. rows' = [rows EXCEPT ![r.t] = w] /\ stamp' = stamp + 1
        BY <2>4 DEF WriteAmend, Write
      <3> HIDE DEF w, r
      <3> QED BY <3>2, <3>4, <3>5, <3>6, WriteOne
    <2>5. CASE WriteCancel(h)
      <3>1. r \in Cancellation BY <2>0, <2>5, Kinds DEF WriteCancel, At
      <3>2. r.t \in Tickets BY <3>1 DEF Cancellation
      <3>3. rows' = DropRows({r.t}, "cancelled")
        BY <2>5, <3>2 DEF WriteCancel, DropRows, TypeOK
      <3> QED BY <2>5, <3>2, <3>3 DEF RowsChange, Removed, WriteCancel, Gone
    <2> QED BY <1>3, <2>1, <2>2, <2>3, <2>4, <2>5 DEF Progress
  <1>4. ASSUME Saves PROVE RowsChange
    BY <1>4, <1>0 DEF Saves, SaveTemplate, SaveCopy, Write
  <1>5. ASSUME NEW d \in Deleters, DeleteStep(d) \/ \E p \in Activities : BeginDelete(d, p)
        PROVE  RowsChange
    <2>1. CASE FindCopies(d) \/ \E p \in Activities : BeginDelete(d, p)
      BY <2>1, <1>0 DEF FindCopies, BeginDelete, db
    <2>2. CASE CommitDelete(d)
      <3>1. del[d] \in Deletion BY <2>2 DEF CommitDelete, TypeOK
      <3>2. del[d].kids \in SUBSET Tickets BY <3>1 DEF Deletion
      <3> QED BY <2>2, <3>2 DEF CommitDelete, RowsChange, Removed, Gone
    <2> QED BY <1>5, <2>1, <2>2 DEF DeleteStep
  <1>6. ASSUME NEW c \in Cleaners, BeginClean(c) \/ CleanStep(c) PROVE RowsChange
    <2>1. ASSUME NEW t \in Tickets, DeleteBooking(c, t) PROVE RowsChange
      <3>1. {t} \in SUBSET Tickets OBVIOUS
      <3> QED BY <2>1, <3>1 DEF DeleteBooking, RowsChange, Removed, Gone
    <2> QED BY <1>6, <2>1, <1>0
            DEF CleanStep, BeginClean, FindPast, NextBatch, EndClean, DeleteFails, db
  <1>7. CASE Tick \/ Fail \/ Crash
    BY <1>7, <1>0 DEF Tick, Fail, Crash, db
  <1> QED BY <1>1, <1>2, <1>3, <1>4, <1>5, <1>6, <1>7 DEF Next, Saves

LEMMA RowsOnlyGrow ==
    ASSUME TypeOK, RowsChange, NEW t \in Tickets
    PROVE  /\ rows[t] # NoRow => rows'[t] # NoRow
           /\ rows[t].state \in Gone => rows'[t] = rows[t]
           /\ Live(rows[t]) => Live(rows'[t]) \/ rows'[t].state \in Gone
           /\ rows'[t] # rows[t] /\ Live(rows'[t]) => rows'[t].stamp = stamp + 1
           /\ rows'[t] # rows[t] /\ ~Live(rows'[t]) => rows'[t].stamp = rows[t].stamp
           /\ stamp' >= stamp /\ (Live(rows'[t]) /\ rows'[t] # rows[t] => stamp' = stamp + 1)
  <1> DEFINE Goal ==
           /\ rows[t] # NoRow => rows'[t] # NoRow
           /\ rows[t].state \in Gone => rows'[t] = rows[t]
           /\ Live(rows[t]) => Live(rows'[t]) \/ rows'[t].state \in Gone
           /\ rows'[t] # rows[t] /\ Live(rows'[t]) => rows'[t].stamp = stamp + 1
           /\ rows'[t] # rows[t] /\ ~Live(rows'[t]) => rows'[t].stamp = rows[t].stamp
           /\ stamp' >= stamp /\ (Live(rows'[t]) /\ rows'[t] # rows[t] => stamp' = stamp + 1)
  <1>0. rows[t] \in Row \cup {NoRow} /\ stamp \in Nat BY DEF TypeOK
  <1>1. CASE rows' = rows /\ stamp' \in {stamp, stamp + 1}
    BY <1>0, <1>1
  <1>2. ASSUME NEW k \in Tickets, Created(k) PROVE Goal
    <2>1. PICK h \in Handlers, slot \in Slots :
            rows' = [rows EXCEPT ![k] = NewRow(req[h].user, slot, stamp + 1)]
      BY <1>2 DEF Created
    <2>2. CASE k = t
      BY <1>0, <1>2, <2>1, <2>2 DEF Created, NewRow, Live, Gone, NoRow, TypeOK
    <2>3. CASE k # t
      BY <1>0, <1>2, <2>1, <2>3 DEF Created, TypeOK
    <2> QED BY <2>2, <2>3
  <1>3. ASSUME NEW k \in Tickets, Rewritten(k) PROVE Goal
    <2>1. PICK r \in Row : Live(r) /\ r.stamp = stamp + 1 /\ rows' = [rows EXCEPT ![k] = r]
      BY <1>3 DEF Rewritten
    <2>2. CASE k = t
      BY <1>0, <1>3, <2>1, <2>2 DEF Rewritten, Live, Gone, NoRow, TypeOK
    <2>3. CASE k # t
      BY <1>0, <1>3, <2>1, <2>3 DEF Rewritten, TypeOK
    <2> QED BY <2>2, <2>3
  <1>4. ASSUME NEW ts \in SUBSET Tickets, Removed(ts) PROVE Goal
    <2>1. PICK how \in Gone : rows' = DropRows(ts, how) BY <1>4 DEF Removed
    <2>2. rows'[t] = rows[t] \/ (Live(rows[t]) /\ rows'[t] = [rows[t] EXCEPT !.state = how])
      BY <2>1 DEF DropRows, SoftDelete
    <2>3. stamp' = stamp BY <1>4 DEF Removed
    <2>4. CASE rows'[t] = rows[t] BY <1>0, <2>3, <2>4
    <2>5. CASE Live(rows[t]) /\ rows'[t] = [rows[t] EXCEPT !.state = how]
      <3>1. rows[t] \in Row BY <1>0, <2>5 DEF Live, NoRow
      <3>2. rows'[t].state = how /\ rows'[t].stamp = rows[t].stamp /\ how # "live" /\ how # "none"
        BY <2>5, <3>1 DEF Row, Gone
      <3> QED BY <1>0, <2>3, <2>5, <3>2 DEF Live, NoRow, Gone
    <2> QED BY <2>2, <2>4, <2>5
  <1> QED BY <1>1, <1>2, <1>3, <1>4 DEF RowsChange

(* What a step can do to the activities. *)
LEMMA ActsStep ==
    ASSUME TypeOK, [Next]_vars
    PROVE  \/ acts' = acts
           \/ \E h \in Handlers : Clone(h)
           \/ \E t \in Tickets, some \in BOOLEAN : SaveCopy(t, some)
           \/ \E ts \in SUBSET Tickets : acts' = DropActs(ts)
  <1>1. CASE UNCHANGED vars BY <1>1 DEF vars
  <1>2. ASSUME NEW h \in Handlers, Arrival(h) PROVE acts' = acts
    BY <1>2 DEF Arrival, BeginSubmit, BeginStatus, BeginAmend, BeginPostpone, BeginCancel, db
  <1>3. ASSUME NEW h \in Handlers, Progress(h) PROVE acts' = acts \/ Clone(h)
    BY <1>3 DEF Progress, NewBooking, WriteStatus, TellOwner, WriteAmend, WriteCancel,
                TellTechnicians, db
  <1>4. ASSUME Saves PROVE acts' = acts \/ \E t \in Tickets, some \in BOOLEAN : SaveCopy(t, some)
    BY <1>4 DEF Saves, SaveTemplate
  <1>5. ASSUME NEW d \in Deleters, DeleteStep(d) \/ \E p \in Activities : BeginDelete(d, p)
        PROVE  acts' = acts \/ \E ts \in SUBSET Tickets : acts' = DropActs(ts)
    <2>1. CASE CommitDelete(d)
      <3>1. del[d] \in Deletion BY <2>1 DEF CommitDelete, TypeOK
      <3>2. del[d].kids \cup Unsaved(del[d].from, del[d].read) \in SUBSET Tickets
        BY <3>1 DEF Deletion, Unsaved
      <3> QED BY <2>1, <3>2 DEF CommitDelete
    <2> QED BY <1>5, <2>1 DEF DeleteStep, FindCopies, BeginDelete, db
  <1>6. ASSUME NEW c \in Cleaners, BeginClean(c) \/ CleanStep(c)
        PROVE  acts' = acts \/ \E ts \in SUBSET Tickets : acts' = DropActs(ts)
    <2>1. ASSUME NEW t \in Tickets, DeleteBooking(c, t)
          PROVE  \E ts \in SUBSET Tickets : acts' = DropActs(ts)
      <3>1. {t} \cap cln[c].temps \in SUBSET Tickets OBVIOUS
      <3> QED BY <2>1, <3>1 DEF DeleteBooking
    <2> QED BY <1>6, <2>1 DEF CleanStep, BeginClean, FindPast, NextBatch, EndClean, DeleteFails, db
  <1>7. CASE Tick \/ Fail \/ Crash
    BY <1>7 DEF Tick, Fail, Crash, db
  <1> QED BY <1>1, <1>2, <1>3, <1>4, <1>5, <1>6, <1>7 DEF Next, Saves

LEMMA DroppedActs ==
    ASSUME NEW ts, NEW t \in Tickets, acts' = DropActs(ts), TypeOK
    PROVE  /\ acts[t] # NoAct <=> acts'[t] # NoAct
           /\ ActLive(t)' => ActLive(t)
           /\ t \in ts => ~ActLive(t)'
           /\ t \notin ts => acts'[t] = acts[t]
  <1>1. acts'[t] = IF t \in ts /\ acts[t] # NoAct THEN [acts[t] EXCEPT !.state = "deleted"] ELSE acts[t]
    BY DEF DropActs
  <1>2. acts[t] \in Act \cup {NoAct} BY DEF TypeOK
  <1>3. CASE acts[t] = NoAct BY <1>1, <1>3 DEF NoAct, ActLive
  <1>4. CASE acts[t] # NoAct
    <2>1. acts[t] \in Act BY <1>2, <1>4
    <2>2. t \in ts => acts'[t].state = "deleted" BY <1>1, <1>4, <2>1 DEF Act
    <2> QED BY <1>1, <1>4, <2>1, <2>2 DEF NoAct, ActLive
  <1> QED BY <1>3, <1>4

LEMMA SavedCopy ==
    ASSUME TypeOK, NEW k \in Tickets, NEW some \in BOOLEAN, SaveCopy(k, some), NEW t \in Tickets
    PROVE  /\ acts[t] # NoAct <=> acts'[t] # NoAct
           /\ ActLive(t)' <=> ActLive(t)
  <1>1. acts[k] \in Act BY DEF SaveCopy, ActLive, TypeOK, NoAct
  <1>2. acts' = [acts EXCEPT ![k] = [acts[k] EXCEPT !.stamp = stamp + 1]]
    BY DEF SaveCopy
  <1>3. CASE t = k
    <2>1. acts'[t] = [acts[k] EXCEPT !.stamp = stamp + 1] BY <1>2, <1>3 DEF TypeOK
    <2>2. acts'[t].state = acts[t].state /\ acts[t].state = "live"
      BY <1>1, <1>3, <2>1 DEF Act, SaveCopy, ActLive
    <2> QED BY <2>2 DEF ActLive, NoAct
  <1>4. CASE t # k
    BY <1>2, <1>4 DEF TypeOK, ActLive
  <1> QED BY <1>3, <1>4

LEMMA ActsOnlyGrow ==
    ASSUME TypeOK, BookedOnce, [Next]_vars, NEW t \in Tickets
    PROVE  /\ acts[t] # NoAct => acts'[t] # NoAct
           /\ ActLive(t)' => ActLive(t) \/ acts[t] = NoAct
  <1>1. CASE acts' = acts BY <1>1 DEF ActLive
  <1>2. ASSUME NEW h \in Handlers, Clone(h)
        PROVE  /\ acts[t] # NoAct => acts'[t] # NoAct
               /\ ActLive(t)' => ActLive(t) \/ acts[t] = NoAct
    <2>1. acts[req[h].t] = NoAct
      BY <1>2 DEF Clone, At, BookedOnce, Submitting
    <2>2. CASE t = req[h].t BY <1>2, <2>1, <2>2
    <2>3. CASE t # req[h].t BY <1>2, <2>3 DEF Clone, TypeOK, ActLive
    <2> QED BY <2>2, <2>3
  <1>3. ASSUME NEW ts \in SUBSET Tickets, acts' = DropActs(ts)
        PROVE  /\ acts[t] # NoAct => acts'[t] # NoAct
               /\ ActLive(t)' => ActLive(t) \/ acts[t] = NoAct
    BY <1>3, DroppedActs
  <1>4. ASSUME NEW k \in Tickets, NEW some \in BOOLEAN, SaveCopy(k, some)
        PROVE  /\ acts[t] # NoAct => acts'[t] # NoAct
               /\ ActLive(t)' => ActLive(t) \/ acts[t] = NoAct
    BY <1>4, SavedCopy
  <1> QED BY <1>1, <1>2, <1>3, <1>4, ActsStep

(* What a step can do to the requests. *)

Began(h) ==
    /\ UNCHANGED <<rows, acts, stamp, note>> /\ req[h] = Idle
    /\ \E r \in Request :
          /\ r # Idle /\ r.t \in Tickets
          /\ req' = [req EXCEPT ![h] = r]
          /\ \/ r.op = "submit" /\ r.pc = "clone" /\ Unused(r.t)
             \/ /\ r.op # "submit" /\ r.pc = "write" /\ Live(rows[r.t])
                /\ r.op = "status" => r.bk = rows[r.t]

Wrote(h) ==
    /\ acts' = acts /\ note' = note
    /\ req[h] # Idle /\ req[h].op # "submit" /\ req[h].t \in Tickets
    /\ \E r \in Request :
          /\ r # Idle /\ r.op = req[h].op /\ r.t = req[h].t /\ r.pc = "push"
          /\ r.op = "cancel" => rows'[r.t] = SoftDelete(rows[r.t], "cancelled")
          /\ req' = [req EXCEPT ![h] = r]

RequestsChange ==
    \/ \A h \in Handlers : req'[h] \in {req[h], Idle}
    \/ \E h \in Handlers : \/ Began(h) \/ Wrote(h) \/ Clone(h)
                           \/ \E slot \in Slots : NewBooking(h, slot)

LEMMA ArrivalBegins ==
    ASSUME TypeOK, NEW h \in Handlers, Arrival(h)
    PROVE  Began(h)
  <1>0. UNCHANGED <<rows, acts, stamp, note>> /\ req[h] = Idle
    BY DEF Arrival, BeginSubmit, BeginStatus, BeginAmend, BeginPostpone, BeginCancel, Free, db
  <1>1. ASSUME NEW t \in Tickets, NEW p \in Activities, NEW u \in Users, BeginSubmit(h, t, p, u)
        PROVE  Began(h)
    <2> DEFINE r == [op |-> "submit", pc |-> "clone", t |-> t, from |-> p, user |-> u]
    <2>1. r \in Request /\ r # Idle BY DEF Request, Submission, Idle
    <2>2. req' = [req EXCEPT ![h] = r] /\ Unused(t) BY <1>1 DEF BeginSubmit, Begin
    <2> QED BY <1>0, <2>1, <2>2 DEF Began
  <1>2. ASSUME NEW t \in Tickets, NEW status \in Statuses, BeginStatus(h, t, status)
        PROVE  Began(h)
    <2> DEFINE r == [op |-> "status", pc |-> "write", t |-> t, bk |-> rows[t], to |-> status,
                     hit |-> FALSE]
    <2>0. rows[t] \in Row BY <1>2 DEF BeginStatus, TypeOK, Live, NoRow
    <2>1. r \in Request /\ r # Idle BY <2>0 DEF Request, StatusChange, Idle
    <2>2. req' = [req EXCEPT ![h] = r] /\ Live(rows[t]) BY <1>2 DEF BeginStatus, Begin
    <2> QED BY <1>0, <2>1, <2>2 DEF Began
  <1>3. ASSUME NEW t \in Tickets, NEW u \in Users, NEW slot \in Slots, NEW adds \in BOOLEAN,
               BeginAmend(h, u, t, slot, adds)
        PROVE  Began(h)
    <2> DEFINE bk == [rows[t] EXCEPT !.start = slot.start, !.end = slot.end]
               r == [op |-> "amend", pc |-> "write", t |-> t, adds |-> adds, hit |-> FALSE,
                     bk |-> bk]
    <2>0. rows[t] \in Row BY <1>3 DEF BeginAmend, TypeOK, Live, NoRow
    <2>1. bk \in Row BY <2>0, BookingRowsAssumption DEF Row
    <2>2. req' = [req EXCEPT ![h] = r] /\ Live(rows[t]) BY <1>3 DEF BeginAmend, Begin
    <2> HIDE DEF bk
    <2>3. r \in Request /\ r # Idle BY <2>1 DEF Request, Amendment, Idle
    <2> QED BY <1>0, <2>2, <2>3 DEF Began
  <1>4. ASSUME NEW t \in Tickets, NEW u \in Users, NEW slot \in Slots, BeginPostpone(h, u, t, slot)
        PROVE  Began(h)
    <2> DEFINE bk == [rows[t] EXCEPT !.start = slot.start, !.end = slot.end,
                                     !.status = IF @ = "Pending" THEN @ ELSE "Progress"]
               r == [op |-> "postpone", pc |-> "write", t |-> t, adds |-> FALSE, hit |-> FALSE,
                     bk |-> bk]
    <2>0. rows[t] \in Row BY <1>4 DEF BeginPostpone, TypeOK, Live, NoRow
    <2>1. bk \in Row BY <2>0, BookingRowsAssumption DEF Row, Statuses
    <2>2. req' = [req EXCEPT ![h] = r] /\ Live(rows[t]) BY <1>4 DEF BeginPostpone, Begin
    <2> HIDE DEF bk
    <2>3. r \in Request /\ r # Idle BY <2>1 DEF Request, Amendment, Idle
    <2> QED BY <1>0, <2>2, <2>3 DEF Began
  <1>5. ASSUME NEW t \in Tickets, NEW u \in Users, BeginCancel(h, u, t)
        PROVE  Began(h)
    <2> DEFINE r == [op |-> "cancel", pc |-> "write", t |-> t]
    <2>1. r \in Request /\ r # Idle BY DEF Request, Cancellation, Idle
    <2>2. req' = [req EXCEPT ![h] = r] /\ Live(rows[t]) BY <1>5 DEF BeginCancel, Begin
    <2> QED BY <1>0, <2>1, <2>2 DEF Began
  <1> QED BY <1>1, <1>2, <1>3, <1>4, <1>5 DEF Arrival

LEMMA ProgressChanges ==
    ASSUME TypeOK, NEW h \in Handlers, Progress(h)
    PROVE  RequestsChange
  <1> DEFINE r == req[h]
  <1>0. r \in Request BY RequestType
  <1>1. CASE TellOwner(h) \/ TellTechnicians(h)
    BY <1>1 DEF TellOwner, TellTechnicians, Finish, RequestsChange, TypeOK
  <1>2. CASE WriteStatus(h)
    <2>1. r \in StatusChange BY <1>0, <1>2, Kinds DEF WriteStatus, At
    <2> DEFINE s == [r EXCEPT !.pc = "push", !.hit = Matches(rows[r.t], r.bk)]
    <2>2. s \in Request /\ s # Idle /\ s.op = r.op /\ s.t = r.t /\ s.pc = "push"
      BY <2>1 DEF StatusChange, Request, Matches, Idle
    <2>3. r # Idle /\ r.op = "status" /\ r.t \in Tickets BY <2>1 DEF StatusChange, Idle
    <2>4. req' = [req EXCEPT ![h] = s] BY <1>2 DEF WriteStatus, Begin
    <2> HIDE DEF s
    <2> QED BY <1>2, <2>2, <2>3, <2>4 DEF WriteStatus, Wrote, RequestsChange
  <1>3. ASSUME NEW op \in {"amend", "postpone"}, WriteAmend(h, op) PROVE RequestsChange
    <2>1. r \in Amendment BY <1>0, <1>3, Kinds DEF WriteAmend, At
    <2> DEFINE s == [r EXCEPT !.pc = "push", !.hit = Live(rows[r.t])]
    <2>2. s \in Request /\ s # Idle /\ s.op = r.op /\ s.t = r.t /\ s.pc = "push"
      BY <2>1 DEF Amendment, Request, Live, Idle
    <2>3. r # Idle /\ r.op # "submit" /\ r.op # "cancel" /\ r.t \in Tickets
      BY <2>1 DEF Amendment, Idle
    <2>4. req' = [req EXCEPT ![h] = s] BY <1>3 DEF WriteAmend, Begin
    <2> HIDE DEF s
    <2> QED BY <1>3, <2>2, <2>3, <2>4 DEF WriteAmend, Wrote, RequestsChange
  <1>4. CASE WriteCancel(h)
    <2>1. r \in Cancellation BY <1>0, <1>4, Kinds DEF WriteCancel, At
    <2> DEFINE s == [r EXCEPT !.pc = "push"]
    <2>2. s \in Request /\ s # Idle /\ s.op = r.op /\ s.t = r.t /\ s.pc = "push"
      BY <2>1 DEF Cancellation, Request, Idle
    <2>3. r # Idle /\ r.op = "cancel" /\ r.t \in Tickets BY <2>1 DEF Cancellation, Idle
    <2>4. req' = [req EXCEPT ![h] = s] BY <1>4 DEF WriteCancel, Goto
    <2>5. rows'[r.t] = SoftDelete(rows[r.t], "cancelled")
      BY <1>4, <2>3 DEF WriteCancel, TypeOK
    <2> HIDE DEF s
    <2> QED BY <1>4, <2>2, <2>3, <2>4, <2>5 DEF WriteCancel, Wrote, RequestsChange
  <1> QED BY <1>1, <1>2, <1>3, <1>4 DEF Progress, RequestsChange

LEMMA RequestsStep ==
    ASSUME TypeOK, [Next]_vars
    PROVE  RequestsChange
  <1>0. ASSUME \A h \in Handlers : req'[h] \in {req[h], Idle} PROVE RequestsChange
    BY <1>0 DEF RequestsChange
  <1>1. CASE UNCHANGED vars BY <1>1, <1>0 DEF vars
  <1>2. ASSUME NEW h \in Handlers, Arrival(h) PROVE RequestsChange
    BY <1>2, ArrivalBegins DEF RequestsChange
  <1>3. ASSUME NEW h \in Handlers, Progress(h) PROVE RequestsChange
    BY <1>3, ProgressChanges
  <1>4. ASSUME Saves PROVE RequestsChange
    BY <1>4, <1>0 DEF Saves, SaveTemplate, SaveCopy
  <1>5. ASSUME NEW d \in Deleters, DeleteStep(d) \/ \E p \in Activities : BeginDelete(d, p)
        PROVE  RequestsChange
    BY <1>5, <1>0 DEF DeleteStep, FindCopies, CommitDelete, BeginDelete
  <1>6. ASSUME NEW c \in Cleaners, BeginClean(c) \/ CleanStep(c) PROVE RequestsChange
    BY <1>6, <1>0 DEF CleanStep, BeginClean, FindPast, NextBatch, EndClean, DeleteFails, DeleteBooking
  <1>7. CASE Tick BY <1>7, <1>0 DEF Tick
  <1>8. CASE Fail
    <2>1. ASSUME NEW h \in Handlers, Finish(h) PROVE \A g \in Handlers : req'[g] \in {req[g], Idle}
      BY <2>1 DEF Finish, TypeOK
    <2> QED BY <1>8, <1>0, <2>1 DEF Fail
  <1>9. CASE Crash BY <1>9, <1>0 DEF Crash
  <1> QED BY <1>1, <1>2, <1>3, <1>4, <1>5, <1>6, <1>7, <1>8, <1>9 DEF Next, Saves

-----------------------------------------------------------------------------
(* Each part of the invariant is kept by every step. *)

(* Only a submission makes a row or an activity where there was none. *)
LEMMA NothingNew ==
    ASSUME TypeOK, BookedOnce, [Next]_vars, NEW t \in Tickets,
           ~ \E h \in Handlers : Clone(h) \/ \E slot \in Slots : NewBooking(h, slot)
    PROVE  /\ rows'[t] = NoRow <=> rows[t] = NoRow
           /\ acts'[t] = NoAct <=> acts[t] = NoAct
  <1>1. acts'[t] = NoAct <=> acts[t] = NoAct
    <2>1. \/ acts' = acts \/ \E ts \in SUBSET Tickets : acts' = DropActs(ts)
          \/ \E k \in Tickets, some \in BOOLEAN : SaveCopy(k, some)
      BY ActsStep
    <2> QED BY <2>1, DroppedActs, SavedCopy
  <1>2. RowsChange BY RowsStep
  <1>3. rows[t] # NoRow => rows'[t] # NoRow BY <1>2, RowsOnlyGrow
  <1>4. rows[t] = NoRow => rows'[t] = NoRow
    <2>1. ASSUME NEW k \in Tickets, Created(k) PROVE FALSE BY <2>1 DEF Created
    <2>2. ASSUME NEW k \in Tickets, Rewritten(k), rows[t] = NoRow PROVE rows'[t] = NoRow
      <3>1. k # t BY <2>2 DEF Rewritten, Live, NoRow
      <3> QED BY <2>2, <3>1 DEF Rewritten, TypeOK
    <2>3. ASSUME NEW ts \in SUBSET Tickets, Removed(ts), rows[t] = NoRow PROVE rows'[t] = NoRow
      BY <2>3 DEF Removed, DropRows, SoftDelete, Live, NoRow
    <2> QED BY <1>2, <2>1, <2>2, <2>3 DEF RowsChange
  <1> QED BY <1>1, <1>3, <1>4

LEMMA RequestTickets ==
    ASSUME TypeOK
    PROVE  \A h \in Handlers : /\ Submitting(h) => req[h] # Idle
                               /\ req[h] # Idle => req[h].t \in Tickets
  BY RequestType DEF Request, Submission, StatusChange, Amendment, Cancellation, Submitting, Idle

LEMMA CloneKeepsBookedOnce ==
    ASSUME TypeOK, BookedOnce, NEW h \in Handlers, Clone(h)
    PROVE  BookedOnce'
  <1>1. req[h] \in Submission /\ Submitting(h)
    BY RequestType, Kinds DEF Clone, At, Submitting
  <1>2. /\ rows' = rows
        /\ req' = [req EXCEPT ![h].pc = "create"]
        /\ acts' = [acts EXCEPT ![req[h].t] = [state |-> "live", from |-> req[h].from, stamp |-> 0]]
    BY DEF Clone, Goto
  <1>3. /\ req'[h].t = req[h].t /\ req'[h].op = "submit" /\ req'[h].pc = "create"
        /\ \A g \in Handlers : g # h => req'[g] = req[g]
        /\ req[h].t \in Tickets
    BY <1>1, <1>2 DEF TypeOK, Submission
  <1>4. /\ acts'[req[h].t] # NoAct
        /\ \A t \in Tickets : t # req[h].t => acts'[t] = acts[t]
    BY <1>2, <1>3 DEF TypeOK, NoAct
  <1>5. \A t \in Tickets : rows'[t] # NoRow => acts'[t] # NoAct
    BY <1>2, <1>4 DEF BookedOnce
  <1>6. ASSUME NEW g \in Handlers, Submitting(g)'
        PROVE  /\ rows'[req'[g].t] = NoRow
               /\ acts'[req'[g].t] = NoAct <=> req'[g].pc = "clone"
    <2>1. CASE g = h BY <1>1, <1>2, <1>3, <1>4, <2>1 DEF BookedOnce
    <2>2. CASE g # h
      <3>1. Submitting(g) /\ req[g].t \in Tickets /\ req[g].t # req[h].t
        BY <1>1, <1>3, <1>6, <2>2, RequestTickets DEF Submitting, BookedOnce
      <3> QED BY <1>2, <1>3, <1>4, <2>2, <3>1 DEF BookedOnce
    <2> QED BY <2>1, <2>2
  <1>7. \A f, g \in Handlers :
          Submitting(f)' /\ Submitting(g)' /\ req'[f].t = req'[g].t => f = g
    BY <1>1, <1>3 DEF BookedOnce, Submitting
  <1>8. \A g \in Handlers : req'[g] # Idle /\ ~Submitting(g)' => rows'[req'[g].t] # NoRow
    BY <1>2, <1>3 DEF BookedOnce, Submitting
  <1> QED BY <1>5, <1>6, <1>7, <1>8 DEF BookedOnce

LEMMA NewBookingKeepsBookedOnce ==
    ASSUME TypeOK, BookedOnce, NEW h \in Handlers, NEW slot \in Slots, NewBooking(h, slot)
    PROVE  BookedOnce'
  <1>1. req[h] \in Submission /\ Submitting(h)
    BY RequestType, Kinds DEF NewBooking, At, Submitting
  <1>2. /\ acts' = acts
        /\ req' = [req EXCEPT ![h].pc = "push"]
        /\ rows' = [rows EXCEPT ![req[h].t] = NewRow(req[h].user, slot, stamp + 1)]
    BY DEF NewBooking, Goto
  <1>3. /\ req'[h].t = req[h].t /\ req'[h].op = "submit" /\ req'[h].pc = "push"
        /\ \A g \in Handlers : g # h => req'[g] = req[g]
        /\ req[h].t \in Tickets
    BY <1>1, <1>2 DEF TypeOK, Submission
  <1>4. /\ rows'[req[h].t] # NoRow
        /\ \A t \in Tickets : t # req[h].t => rows'[t] = rows[t]
    BY <1>2, <1>3 DEF TypeOK, NoRow, NewRow
  <1>5. \A t \in Tickets : rows'[t] # NoRow => acts'[t] # NoAct
    <2>1. acts[req[h].t] # NoAct BY <1>1 DEF BookedOnce, NewBooking, At
    <2> QED BY <1>2, <1>4, <2>1 DEF BookedOnce
  <1>6. ASSUME NEW g \in Handlers, Submitting(g)'
        PROVE  /\ rows'[req'[g].t] = NoRow
               /\ acts'[req'[g].t] = NoAct <=> req'[g].pc = "clone"
    <2>1. g # h BY <1>3, <1>6 DEF Submitting
    <2>2. Submitting(g) /\ req[g].t \in Tickets /\ req[g].t # req[h].t
      BY <1>1, <1>3, <1>6, <2>1, RequestTickets DEF Submitting, BookedOnce
    <2> QED BY <1>2, <1>3, <1>4, <2>1, <2>2 DEF BookedOnce
  <1>7. \A f, g \in Handlers :
          Submitting(f)' /\ Submitting(g)' /\ req'[f].t = req'[g].t => f = g
    BY <1>3 DEF BookedOnce, Submitting
  <1>8. ASSUME NEW g \in Handlers, req'[g] # Idle, ~Submitting(g)'
        PROVE  rows'[req'[g].t] # NoRow
    <2>1. CASE g = h BY <1>3, <1>4, <2>1
    <2>2. CASE g # h
      <3>1. rows[req[g].t] # NoRow /\ req[g].t \in Tickets
        BY <1>3, <1>8, <2>2, RequestTickets DEF BookedOnce, Submitting
      <3> QED BY <1>3, <1>4, <2>2, <3>1
    <2> QED BY <2>1, <2>2
  <1> QED BY <1>5, <1>6, <1>7, <1>8 DEF BookedOnce

LEMMA BookedOnceStep ==
    ASSUME TypeOK, BookedOnce, [Next]_vars
    PROVE  BookedOnce'
  <1>1. CASE \E h \in Handlers : Clone(h) \/ \E slot \in Slots : NewBooking(h, slot)
    BY <1>1, CloneKeepsBookedOnce, NewBookingKeepsBookedOnce
  <1>2. CASE ~ \E h \in Handlers : Clone(h) \/ \E slot \in Slots : NewBooking(h, slot)
    <2>1. \A t \in Tickets : /\ rows'[t] = NoRow <=> rows[t] = NoRow
                             /\ acts'[t] = NoAct <=> acts[t] = NoAct
      BY <1>2, NothingNew
    <2>2. \A t \in Tickets : rows'[t] # NoRow => acts'[t] # NoAct
      BY <2>1 DEF BookedOnce
    <2>3. CASE \A h \in Handlers : req'[h] \in {req[h], Idle}
      <3>1. \A h \in Handlers : Submitting(h)' => req'[h] = req[h] /\ Submitting(h)
        BY <2>3 DEF Submitting, Idle
      <3>2. \A h \in Handlers : req'[h] # Idle => req'[h] = req[h]
        BY <2>3
      <3>3. ASSUME NEW h \in Handlers, Submitting(h)'
            PROVE  /\ rows'[req'[h].t] = NoRow
                   /\ acts'[req'[h].t] = NoAct <=> req'[h].pc = "clone"
        BY <2>1, <3>1, <3>3, RequestTickets DEF BookedOnce
      <3>4. \A g, h \in Handlers :
              Submitting(g)' /\ Submitting(h)' /\ req'[g].t = req'[h].t => g = h
        BY <3>1 DEF BookedOnce
      <3>5. ASSUME NEW h \in Handlers, req'[h] # Idle, ~Submitting(h)'
            PROVE  rows'[req'[h].t] # NoRow
        BY <2>1, <3>2, <3>5, RequestTickets DEF BookedOnce, Submitting
      <3> QED BY <2>2, <3>3, <3>4, <3>5 DEF BookedOnce
    <2>4. ASSUME NEW h \in Handlers, Began(h) PROVE BookedOnce'
      <3>1. PICK r \in Request :
              /\ r # Idle /\ r.t \in Tickets
              /\ req' = [req EXCEPT ![h] = r]
              /\ \/ r.op = "submit" /\ r.pc = "clone" /\ Unused(r.t)
                 \/ r.op # "submit" /\ r.pc = "write" /\ Live(rows[r.t])
        BY <2>4 DEF Began
      <3>2. rows' = rows /\ acts' = acts BY <2>4 DEF Began
      <3>3. req'[h] = r /\ \A g \in Handlers : g # h => req'[g] = req[g]
        BY <3>1 DEF TypeOK
      <3>4. Submitting(h)' <=> r.op = "submit"
        BY <3>1, <3>3 DEF Submitting
      <3>5. r.op = "submit" => /\ acts[r.t] = NoAct /\ rows[r.t] = NoRow
                               /\ \A g \in Handlers : req[g] # Idle => req[g].t # r.t
        BY <3>1 DEF Unused, BookedOnce
      <3>6. r.op # "submit" => rows[r.t] # NoRow
        BY <3>1 DEF Live, NoRow
      <3>7. \A g \in Handlers : Submitting(g)' =>
              /\ rows'[req'[g].t] = NoRow
              /\ acts'[req'[g].t] = NoAct <=> req'[g].pc = "clone"
        BY <3>1, <3>2, <3>3, <3>4, <3>5 DEF BookedOnce, Submitting
      <3>8. \A f, g \in Handlers :
              Submitting(f)' /\ Submitting(g)' /\ req'[f].t = req'[g].t => f = g
        BY <3>3, <3>4, <3>5, RequestTickets DEF BookedOnce, Submitting
      <3>9. \A g \in Handlers : req'[g] # Idle /\ ~Submitting(g)' => rows'[req'[g].t] # NoRow
        BY <3>2, <3>3, <3>4, <3>6 DEF BookedOnce, Submitting
      <3> QED BY <2>2, <3>7, <3>8, <3>9 DEF BookedOnce
    <2>5. ASSUME NEW h \in Handlers, Wrote(h) PROVE BookedOnce'
      <3>1. PICK r \in Request : r # Idle /\ r.op = req[h].op /\ r.t = req[h].t /\ r.pc = "push"
                                 /\ req' = [req EXCEPT ![h] = r]
        BY <2>5 DEF Wrote
      <3>2. req[h] # Idle /\ req[h].op # "submit" /\ req[h].t \in Tickets
        BY <2>5 DEF Wrote
      <3>3. req'[h] = r /\ \A g \in Handlers : g # h => req'[g] = req[g]
        BY <3>1 DEF TypeOK
      <3>4. \A g \in Handlers : Submitting(g)' => req'[g] = req[g] /\ Submitting(g)
        BY <3>1, <3>2, <3>3 DEF Submitting
      <3>5. ASSUME NEW g \in Handlers, Submitting(g)'
            PROVE  /\ rows'[req'[g].t] = NoRow
                   /\ acts'[req'[g].t] = NoAct <=> req'[g].pc = "clone"
        BY <2>1, <3>4, <3>5, RequestTickets DEF BookedOnce
      <3>6. \A f, g \in Handlers :
              Submitting(f)' /\ Submitting(g)' /\ req'[f].t = req'[g].t => f = g
        BY <3>4 DEF BookedOnce
      <3>7. ASSUME NEW g \in Handlers, req'[g] # Idle, ~Submitting(g)'
            PROVE  rows'[req'[g].t] # NoRow
        <4>1. req'[g].t = req[g].t /\ req[g] # Idle /\ ~Submitting(g)
          BY <3>1, <3>2, <3>3, <3>7 DEF Submitting
        <4> QED BY <2>1, <4>1, RequestTickets DEF BookedOnce
      <3> QED BY <2>2, <3>5, <3>6, <3>7 DEF BookedOnce
    <2> QED BY <1>2, <2>3, <2>4, <2>5, RequestsStep DEF RequestsChange
  <1> QED BY <1>1, <1>2

LEMMA NoteStep ==
    ASSUME [Next]_vars
    PROVE  \/ note' \in {note, NoNote}
           \/ \E h \in Handlers : TellOwner(h) \/ TellTechnicians(h)
  <1>1. CASE UNCHANGED vars BY <1>1 DEF vars
  <1>2. ASSUME NEW h \in Handlers, Arrival(h) PROVE note' = note
    BY <1>2 DEF Arrival, BeginSubmit, BeginStatus, BeginAmend, BeginPostpone, BeginCancel
  <1>3. ASSUME NEW h \in Handlers, Progress(h)
        PROVE  note' = note \/ TellOwner(h) \/ TellTechnicians(h)
    BY <1>3 DEF Progress, Clone, NewBooking, WriteStatus, WriteAmend, WriteCancel
  <1>4. ASSUME Saves PROVE note' = note
    BY <1>4 DEF Saves, SaveTemplate, SaveCopy
  <1>5. ASSUME NEW d \in Deleters, DeleteStep(d) \/ \E p \in Activities : BeginDelete(d, p)
        PROVE  note' = note
    BY <1>5 DEF DeleteStep, FindCopies, CommitDelete, BeginDelete
  <1>6. ASSUME NEW c \in Cleaners, BeginClean(c) \/ CleanStep(c) PROVE note' = note
    BY <1>6 DEF CleanStep, BeginClean, FindPast, NextBatch, EndClean, DeleteFails, DeleteBooking
  <1>7. CASE Tick \/ Fail \/ Crash
    BY <1>7 DEF Tick, Fail, Crash
  <1> QED BY <1>1, <1>2, <1>3, <1>4, <1>5, <1>6, <1>7 DEF Next, Saves

LEMMA CancelledFirstStep ==
    ASSUME TypeOK, BookedOnce, CancelledFirst, [Next]_vars
    PROVE  CancelledFirst'
  <1>0. \A t \in Tickets : rows[t].state \in Gone => rows'[t].state \in Gone
    BY RowsStep, RowsOnlyGrow
  <1>1. ASSUME NEW h \in Handlers, At(h, "cancel", "push")'
        PROVE  rows'[req'[h].t].state \in Gone
    <2>1. CASE req'[h] = req[h]
      <3>1. At(h, "cancel", "push") BY <1>1, <2>1 DEF At
      <3>2. req[h].t \in Tickets BY <3>1, RequestTickets DEF At, Idle
      <3> QED BY <1>0, <2>1, <3>1, <3>2 DEF CancelledFirst
    <2>2. CASE req'[h] # req[h]
      <3>1. req'[h] # Idle BY <1>1 DEF At, Idle
      <3>2. ASSUME NEW g \in Handlers, Clone(g) \/ \E slot \in Slots : NewBooking(g, slot)
            PROVE  req'[h] = req[h]
        <4>1. req[g] \in Submission BY <3>2, RequestType, Kinds DEF Clone, NewBooking, At
        <4>2. \E pc \in {"create", "push"} : req' = [req EXCEPT ![g].pc = pc]
          BY <3>2 DEF Clone, NewBooking, Goto
        <4>3. g # h BY <1>1, <4>1, <4>2 DEF TypeOK, Submission, At
        <4> QED BY <4>2, <4>3 DEF TypeOK
      <3>3. PICK g \in Handlers : Began(g) \/ Wrote(g)
        BY <2>2, <3>1, <3>2, RequestsStep DEF RequestsChange
      <3>4. CASE Began(g) BY <1>1, <2>2, <3>4 DEF Began, At, TypeOK
      <3>5. CASE Wrote(g)
        <4>1. PICK r \in Request :
                /\ r.op = req[g].op /\ r.t = req[g].t
                /\ r.op = "cancel" => rows'[r.t] = SoftDelete(rows[r.t], "cancelled")
                /\ req' = [req EXCEPT ![g] = r]
          BY <3>5 DEF Wrote
        <4>2. g = h /\ req'[h] = r BY <2>2, <4>1 DEF TypeOK
        <4>3. rows'[r.t] = SoftDelete(rows[r.t], "cancelled")
          BY <1>1, <4>1, <4>2 DEF At
        <4>4. req[h] # Idle /\ ~Submitting(h) /\ r.t \in Tickets
          BY <3>5, <4>1, <4>2 DEF Wrote, Submitting
        <4>5. rows[r.t] \in Row BY <4>1, <4>2, <4>4 DEF BookedOnce, TypeOK
        <4>6. SoftDelete(rows[r.t], "cancelled").state \in Gone
          BY <4>5 DEF SoftDelete, Row, Live, Gone
        <4> QED BY <4>2, <4>3, <4>6
      <3> QED BY <3>3, <3>4, <3>5
    <2> QED BY <2>1, <2>2
  <1>2. ASSUME note' # NoNote, note'.to = "technicians", note'.says = "cancel"
        PROVE  rows'[note'.t].state \in Gone
    <2>1. CASE note' = note
      <3>1. note.t \in Tickets BY <1>2, <2>1 DEF TypeOK, Note, NoNote
      <3> QED BY <1>0, <1>2, <2>1, <3>1 DEF CancelledFirst
    <2>2. CASE note' # note
      <3>1. PICK h \in Handlers : TellTechnicians(h)
        BY <1>2, <2>2, NoteStep DEF TellOwner
      <3>2. note' = [to |-> "technicians", t |-> req[h].t, says |-> "cancel"]
            /\ At(h, "cancel", "push") /\ rows' = rows
        BY <1>2, <3>1 DEF TellTechnicians, db
      <3> QED BY <3>2 DEF CancelledFirst
    <2> QED BY <2>1, <2>2
  <1> QED BY <1>1, <1>2 DEF CancelledFirst

(* Whose step changes what a deletion or a cleaner remembers. *)
LEMMA DeletionsStep ==
    ASSUME TypeOK, [Next]_vars, NEW d \in Deleters, del'[d] # Idle, del'[d] # del[d]
    PROVE  \E e \in Deleters : DeleteStep(e) \/ \E p \in Activities : BeginDelete(e, p)
  <1>1. CASE UNCHANGED vars BY <1>1 DEF vars
  <1>2. ASSUME NEW h \in Handlers, Arrival(h) PROVE FALSE
    BY <1>2 DEF Arrival, BeginSubmit, BeginStatus, BeginAmend, BeginPostpone, BeginCancel
  <1>3. ASSUME NEW h \in Handlers, Progress(h) PROVE FALSE
    BY <1>3 DEF Progress, Clone, NewBooking, WriteStatus, TellOwner, WriteAmend, WriteCancel,
                TellTechnicians
  <1>4. ASSUME Saves PROVE FALSE
    BY <1>4 DEF Saves, SaveTemplate, SaveCopy
  <1>5. ASSUME NEW c \in Cleaners, BeginClean(c) \/ CleanStep(c) PROVE FALSE
    BY <1>5 DEF CleanStep, BeginClean, FindPast, NextBatch, EndClean, DeleteFails, DeleteBooking
  <1>6. CASE Tick BY <1>6 DEF Tick
  <1>7. ASSUME Fail PROVE FALSE
    BY <1>7 DEF Fail, TypeOK
  <1>8. CASE Crash BY <1>8 DEF Crash
  <1> QED BY <1>1, <1>2, <1>3, <1>4, <1>5, <1>6, <1>7, <1>8 DEF Next, Saves

LEMMA CleaningsStep ==
    ASSUME TypeOK, [Next]_vars, NEW c \in Cleaners, cln'[c] # Idle, cln'[c] # cln[c]
    PROVE  \E e \in Cleaners : BeginClean(e) \/ CleanStep(e)
  <1>1. CASE UNCHANGED vars BY <1>1 DEF vars
  <1>2. ASSUME NEW h \in Handlers, Arrival(h) PROVE FALSE
    BY <1>2 DEF Arrival, BeginSubmit, BeginStatus, BeginAmend, BeginPostpone, BeginCancel
  <1>3. ASSUME NEW h \in Handlers, Progress(h) PROVE FALSE
    BY <1>3 DEF Progress, Clone, NewBooking, WriteStatus, TellOwner, WriteAmend, WriteCancel,
                TellTechnicians
  <1>4. ASSUME Saves PROVE FALSE
    BY <1>4 DEF Saves, SaveTemplate, SaveCopy
  <1>5. ASSUME NEW d \in Deleters, DeleteStep(d) \/ \E p \in Activities : BeginDelete(d, p)
        PROVE  FALSE
    BY <1>5 DEF DeleteStep, FindCopies, CommitDelete, BeginDelete
  <1>6. CASE Tick BY <1>6 DEF Tick
  <1>7. ASSUME Fail PROVE FALSE
    BY <1>7 DEF Fail, TypeOK
  <1>8. CASE Crash BY <1>8 DEF Crash
  <1> QED BY <1>1, <1>2, <1>3, <1>4, <1>5, <1>6, <1>7, <1>8 DEF Next, Saves

LEMMA RemembersActsStep ==
    ASSUME TypeOK, BookedOnce, RemembersActs, [Next]_vars
    PROVE  RemembersActs'
  <1>0. \A t \in Tickets : /\ acts[t] # NoAct => acts'[t] # NoAct
                           /\ ActLive(t)' => ActLive(t) \/ acts[t] = NoAct
    BY ActsOnlyGrow
  <1>d. \A d \in Deleters : del[d] # Idle => del[d].kids \in SUBSET Tickets
    BY DEF TypeOK, Deletion
  <1>c. \A c \in Cleaners : cln[c] # Idle => cln[c].batch \in SUBSET Tickets
    BY DEF TypeOK, Cleaning
  <1>1. ASSUME NEW d \in Deleters, del'[d] # Idle, NEW t \in del'[d].kids
        PROVE  acts'[t] # NoAct
    <2>1. CASE del'[d] = del[d]
      <3>1. t \in Tickets /\ acts[t] # NoAct BY <1>1, <1>d, <2>1 DEF RemembersActs
      <3> QED BY <1>0, <3>1
    <2>2. CASE del'[d] # del[d]
      <3>1. PICK e \in Deleters : DeleteStep(e) \/ \E p \in Activities : BeginDelete(e, p)
        BY <1>1, <2>2, DeletionsStep
      <3>2. CASE FindCopies(e)
        <4>1. d = e BY <2>2, <3>2 DEF FindCopies, TypeOK
        <4>2. del[e] \in Deletion BY <3>2 DEF FindCopies, TypeOK
        <4>3. del'[d].kids = Copies(del[e].from)
          BY <3>2, <4>1, <4>2 DEF FindCopies, TypeOK, Deletion
        <4>4. t \in Tickets /\ ActLive(t) BY <1>1, <4>3 DEF Copies
        <4> QED BY <1>0, <4>4 DEF ActLive, NoAct
      <3>3. ASSUME NEW p \in Activities, BeginDelete(e, p) PROVE FALSE
        <4>1. d = e BY <2>2, <3>3 DEF BeginDelete, TypeOK
        <4>2. del'[d].kids = {} BY <3>3, <4>1 DEF BeginDelete, TypeOK
        <4> QED BY <1>1, <4>2
      <3>4. CASE CommitDelete(e)
        BY <1>1, <2>2, <3>4 DEF CommitDelete, TypeOK
      <3> QED BY <3>1, <3>2, <3>3, <3>4 DEF DeleteStep
    <2> QED BY <2>1, <2>2
  <1>2. ASSUME NEW c \in Cleaners, cln'[c] # Idle, NEW t \in cln'[c].batch
        PROVE  acts'[t] # NoAct /\ (ActLive(t)' => t \in cln'[c].temps)
    <2>1. CASE cln'[c] = cln[c]
      <3>1. t \in Tickets /\ acts[t] # NoAct /\ (ActLive(t) => t \in cln[c].temps)
        BY <1>2, <1>c, <2>1 DEF RemembersActs
      <3> QED BY <1>0, <2>1, <3>1
    <2>2. CASE cln'[c] # cln[c]
      <3>1. PICK e \in Cleaners : BeginClean(e) \/ CleanStep(e)
        BY <1>2, <2>2, CleaningsStep
      <3>2. CASE FindPast(e)
        <4>1. PICK b \in SUBSET Past(cln[e].cut) :
                cln' = [cln EXCEPT ![e].pc = "delete", ![e].batch = b, ![e].mark = stamp,
                              ![e].temps = {k \in b : ActLive(k)}, ![e].full = ~LastBatch(b)]
          BY <3>2 DEF FindPast
        <4>2. c = e BY <2>2, <4>1 DEF TypeOK
        <4>3. cln[e] \in Cleaning BY <3>2 DEF FindPast, TypeOK
        <4>4. cln'[c].batch = b /\ cln'[c].temps = {k \in b : ActLive(k)}
          BY <4>1, <4>2, <4>3 DEF TypeOK, Cleaning
        <4>5. t \in Tickets /\ rows[t] # NoRow
          BY <1>2, <4>4 DEF Past, PastAt, Live, NoRow
        <4>6. acts[t] # NoAct BY <4>5 DEF BookedOnce
        <4> QED BY <1>0, <1>2, <4>4, <4>5, <4>6
      <3>3. CASE BeginClean(e)
        <4>1. c = e BY <2>2, <3>3 DEF BeginClean, TypeOK
        <4>2. cln'[c].batch = {} BY <3>3, <4>1 DEF BeginClean, TypeOK
        <4> QED BY <1>2, <4>2
      <3>4. ASSUME NEW k \in Tickets, DeleteBooking(e, k) \/ DeleteFails(e, k)
            PROVE  acts'[t] # NoAct /\ (ActLive(t)' => t \in cln'[c].temps)
        <4>1. c = e BY <2>2, <3>4 DEF DeleteBooking, DeleteFails, TypeOK
        <4>2. cln[e] \in Cleaning
          BY <3>4 DEF DeleteBooking, DeleteFails, TypeOK
        <4>3. cln'[c].batch \subseteq cln[c].batch /\ cln'[c].temps = cln[c].temps
          BY <3>4, <4>1, <4>2 DEF DeleteBooking, DeleteFails, TypeOK, Cleaning
        <4>4. cln[c] # Idle BY <4>1, <4>2 DEF Cleaning, Idle
        <4>5. t \in Tickets /\ acts[t] # NoAct /\ (ActLive(t) => t \in cln[c].temps)
          BY <1>2, <1>c, <4>3, <4>4 DEF RemembersActs
        <4> QED BY <1>0, <4>3, <4>5
      <3>5. CASE EndClean(e)
        BY <1>2, <2>2, <3>5 DEF EndClean, TypeOK
      <3>6. CASE NextBatch(e)
        <4>1. cln'[c].batch = {}
          BY <2>2, <3>6 DEF NextBatch, TypeOK, Cleaning
        <4> QED BY <1>2, <4>1
      <3> QED BY <3>1, <3>2, <3>3, <3>4, <3>5, <3>6 DEF CleanStep
    <2> QED BY <2>1, <2>2
  <1> QED BY <1>1, <1>2 DEF RemembersActs

LEMMA BornLive ==
    ASSUME TypeOK, RowsChange, NEW t \in Tickets, rows[t] = NoRow
    PROVE  Live(rows'[t]) \/ rows'[t] = NoRow
  <1>1. ASSUME NEW k \in Tickets, Created(k) \/ Rewritten(k)
        PROVE  Live(rows'[t]) \/ rows'[t] = NoRow
    <2>1. PICK r : Live(r) /\ rows' = [rows EXCEPT ![k] = r]
      BY <1>1 DEF Created, Rewritten, NewRow, Live
    <2> QED BY <2>1 DEF TypeOK
  <1>2. ASSUME NEW ts \in SUBSET Tickets, Removed(ts) PROVE rows'[t] = NoRow
    BY <1>2 DEF Removed, DropRows, SoftDelete, Live, NoRow
  <1> QED BY <1>1, <1>2 DEF RowsChange

LEMMA StampsTellStep ==
    ASSUME TypeOK, BookedOnce, StampsTell, [Next]_vars
    PROVE  StampsTell'
  <1>0. RowsChange /\ stamp \in Nat /\ stamp' \in Nat
    BY RowsStep, StepType DEF TypeOK
  <1>1. ASSUME NEW t \in Tickets, rows'[t] # NoRow
        PROVE  rows'[t].stamp <= stamp'
    <2>0. stamp' >= stamp BY <1>0, RowsOnlyGrow
    <2>1. CASE rows'[t] = rows[t]
      <3>1. rows[t].stamp \in Nat BY <1>1, <2>1 DEF TypeOK, Row
      <3> QED BY <1>0, <1>1, <2>0, <2>1, <3>1 DEF StampsTell
    <2>2. CASE rows'[t] # rows[t] /\ Live(rows'[t])
      BY <1>0, <2>2, RowsOnlyGrow
    <2>3. CASE rows'[t] # rows[t] /\ ~Live(rows'[t])
      <3>1. rows'[t].stamp = rows[t].stamp BY <1>0, <2>3, RowsOnlyGrow
      <3>2. rows[t] # NoRow
        <4>1. rows[t] = NoRow => Live(rows'[t]) \/ rows'[t] = NoRow
          BY <1>0, BornLive
        <4> QED BY <1>1, <2>3, <4>1
      <3>3. rows[t].stamp \in Nat BY <3>2 DEF TypeOK, Row
      <3> QED BY <1>0, <2>0, <3>1, <3>2, <3>3 DEF StampsTell
    <2> QED BY <2>1, <2>2, <2>3
  <1>2. ASSUME NEW h \in Handlers, At(h, "status", "write")'
        PROVE  /\ req'[h].bk.stamp <= stamp'
               /\ Matches(rows'[req'[h].t], req'[h].bk) => rows'[req'[h].t] = req'[h].bk
    <2>1. CASE req'[h] = req[h]
      <3>1. At(h, "status", "write") BY <1>2, <2>1 DEF At
      <3>2. req[h] \in StatusChange BY <3>1, RequestType, Kinds DEF At
      <3>3. req[h].t \in Tickets /\ req[h].bk \in Row /\ req[h].bk.stamp \in Nat
        BY <3>2 DEF StatusChange, Row
      <3>4. req[h].bk.stamp <= stamp /\ (Matches(rows[req[h].t], req[h].bk) => rows[req[h].t] = req[h].bk)
        BY <3>1 DEF StampsTell
      <3>5. stamp' >= stamp BY <1>0, <3>3, RowsOnlyGrow
      <3>6. ASSUME Matches(rows'[req[h].t], req[h].bk) PROVE rows'[req[h].t] = rows[req[h].t]
        <4>1. SUFFICES ASSUME rows'[req[h].t] # rows[req[h].t] PROVE FALSE OBVIOUS
        <4>2. rows'[req[h].t].stamp = stamp + 1 BY <1>0, <3>3, <3>6, <4>1, RowsOnlyGrow DEF Matches
        <4> QED BY <1>0, <3>3, <3>4, <3>6, <4>2 DEF Matches
      <3> QED BY <1>0, <2>1, <3>3, <3>4, <3>5, <3>6
    <2>2. CASE req'[h] # req[h]
      <3>1. req'[h] # Idle BY <1>2 DEF At, Idle
      <3>2. ASSUME NEW g \in Handlers, Clone(g) \/ \E slot \in Slots : NewBooking(g, slot)
            PROVE  req'[h] = req[h]
        <4>1. req[g] \in Submission BY <3>2, RequestType, Kinds DEF Clone, NewBooking, At
        <4>2. \E pc \in {"create", "push"} : req' = [req EXCEPT ![g].pc = pc]
          BY <3>2 DEF Clone, NewBooking, Goto
        <4>3. g # h BY <1>2, <4>1, <4>2 DEF TypeOK, Submission, At
        <4> QED BY <4>2, <4>3 DEF TypeOK
      <3>3. PICK g \in Handlers : Began(g) \/ Wrote(g)
        BY <2>2, <3>1, <3>2, RequestsStep DEF RequestsChange
      <3>4. CASE Wrote(g) BY <1>2, <2>2, <3>4 DEF Wrote, At, TypeOK
      <3>5. CASE Began(g)
        <4>1. PICK r \in Request :
                /\ r.t \in Tickets /\ req' = [req EXCEPT ![g] = r]
                /\ \/ r.op = "submit"
                   \/ Live(rows[r.t]) /\ (r.op = "status" => r.bk = rows[r.t])
          BY <3>5 DEF Began
        <4>2. g = h /\ req'[h] = r BY <2>2, <4>1 DEF TypeOK
        <4>3. r.bk = rows[r.t] /\ Live(rows[r.t]) BY <1>2, <4>1, <4>2 DEF At
        <4>4. rows' = rows /\ stamp' = stamp BY <3>5 DEF Began
        <4>5. rows[r.t].stamp <= stamp BY <4>1, <4>3 DEF StampsTell, Live, NoRow
        <4> QED BY <4>2, <4>3, <4>4, <4>5
      <3> QED BY <3>3, <3>4, <3>5
    <2> QED BY <2>1, <2>2
  <1> QED BY <1>1, <1>2 DEF StampsTell

(* Only these two delete a booking together with its activity. *)
LEMMA Removers ==
    ASSUME TypeOK, BookedOnce, [Next]_vars, NEW t \in Tickets,
           rows[t].state \notin {"cleaned", "cascaded"},
           rows'[t].state \in {"cleaned", "cascaded"}
    PROVE  \/ \E d \in Deleters : CommitDelete(d)
           \/ \E c \in Cleaners, k \in Tickets : DeleteBooking(c, k)
  <1>1. ASSUME rows' = rows PROVE FALSE BY <1>1
  <1>2. CASE UNCHANGED vars BY <1>1, <1>2 DEF vars
  <1>3. ASSUME NEW h \in Handlers, Arrival(h) PROVE FALSE
    BY <1>1, <1>3 DEF Arrival, BeginSubmit, BeginStatus, BeginAmend, BeginPostpone, BeginCancel, db
  <1>4. ASSUME NEW h \in Handlers, Progress(h) PROVE FALSE
    <2>1. CASE WriteCancel(h)
      <3>1. rows'[t] = rows[t] \/ rows'[t] = SoftDelete(rows[t], "cancelled")
        BY <2>1 DEF WriteCancel, TypeOK
      <3>2. rows[t] \in Row \cup {NoRow} BY DEF TypeOK
      <3> QED BY <3>1, <3>2 DEF SoftDelete, Live, Row, NoRow
    <2>2. CASE Clone(h) \/ TellOwner(h) \/ TellTechnicians(h)
      BY <1>1, <2>2 DEF Clone, TellOwner, TellTechnicians, db
    <2>3. CASE WriteStatus(h) \/ \E op \in {"amend", "postpone"} : WriteAmend(h, op)
      <3>1. stamp' = stamp + 1 /\ stamp \in Nat BY <2>3 DEF WriteStatus, WriteAmend, Write, TypeOK
      <3>2. RowsChange BY RowsStep
      <3>3. \A ts \in SUBSET Tickets : ~Removed(ts) BY <3>1 DEF Removed
      <3>4. PICK k \in Tickets : Created(k) \/ Rewritten(k)
        BY <1>1, <3>2, <3>3 DEF RowsChange
      <3>5. PICK r : Live(r) /\ rows' = [rows EXCEPT ![k] = r]
        BY <3>4 DEF Created, Rewritten, NewRow, Live
      <3> QED BY <3>5 DEF TypeOK, Live
    <2>4. ASSUME NEW slot \in Slots, NewBooking(h, slot) PROVE FALSE
      <3>1. PICK r : Live(r) /\ rows' = [rows EXCEPT ![req[h].t] = r]
        BY <2>4 DEF NewBooking, NewRow, Live
      <3> QED BY <3>1 DEF TypeOK, Live
    <2> QED BY <1>4, <2>1, <2>2, <2>3, <2>4 DEF Progress
  <1>5. ASSUME Saves PROVE FALSE
    BY <1>1, <1>5 DEF Saves, SaveTemplate, SaveCopy
  <1>6. ASSUME NEW d \in Deleters, DeleteStep(d) \/ \E p \in Activities : BeginDelete(d, p)
        PROVE  CommitDelete(d)
    BY <1>1, <1>6 DEF DeleteStep, FindCopies, BeginDelete, db
  <1>7. ASSUME NEW c \in Cleaners, BeginClean(c) \/ CleanStep(c)
        PROVE  \E k \in Tickets : DeleteBooking(c, k)
    BY <1>1, <1>7 DEF CleanStep, BeginClean, FindPast, NextBatch, EndClean, DeleteFails, db
  <1>8. ASSUME Tick \/ Fail \/ Crash PROVE FALSE
    BY <1>1, <1>8 DEF Tick, Fail, Crash, db
  <1> QED BY <1>2, <1>3, <1>4, <1>5, <1>6, <1>7, <1>8 DEF Next, Saves

LEMMA ActivityGoesStep ==
    ASSUME IInv, [Next]_vars
    PROVE  ActivityGoesWithBooking'
  <1> SUFFICES ASSUME NEW t \in Tickets, rows'[t].state \in {"cleaned", "cascaded"}
               PROVE  ~ActLive(t)'
    BY DEF ActivityGoesWithBooking
  <1> USE DEF IInv
  <1>1. CASE rows[t].state \in {"cleaned", "cascaded"}
    <2>1. ~ActLive(t) BY <1>1 DEF ActivityGoesWithBooking
    <2>2. rows[t] # NoRow BY <1>1 DEF NoRow
    <2>3. acts[t] # NoAct BY <2>2 DEF BookedOnce
    <2> QED BY <2>1, <2>3, ActsOnlyGrow
  <1>2. CASE rows[t].state \notin {"cleaned", "cascaded"}
    <2>1. ASSUME NEW k \in Tickets, Created(k) \/ Rewritten(k) PROVE FALSE
      <3>1. PICK r : Live(r) /\ rows' = [rows EXCEPT ![k] = r]
        BY <2>1 DEF Created, Rewritten, NewRow, Live
      <3> QED BY <1>2, <3>1 DEF TypeOK, Live
    <2>2. PICK ts \in SUBSET Tickets : Removed(ts)
      BY <1>2, <2>1, RowsStep DEF RowsChange
    <2>3. (\E d \in Deleters : CommitDelete(d)) \/ (\E c \in Cleaners, k \in Tickets : DeleteBooking(c, k))
      BY <1>2, Removers
    <2>4. ASSUME NEW d \in Deleters, CommitDelete(d) PROVE ~ActLive(t)'
      <3>1. t \in del[d].kids BY <1>2, <2>4 DEF CommitDelete, DropRows
      <3>2. acts' = DropActs(del[d].kids \cup Unsaved(del[d].from, del[d].read))
        BY <2>4 DEF CommitDelete
      <3> QED BY <3>1, <3>2, DroppedActs
    <2>5. ASSUME NEW c \in Cleaners, NEW k \in Tickets, DeleteBooking(c, k) PROVE ~ActLive(t)'
      <3>1. t = k BY <1>2, <2>5 DEF DeleteBooking, DropRows
      <3>2. acts' = DropActs({t} \cap cln[c].temps) /\ cln[c] # Idle /\ t \in cln[c].batch
        BY <2>5, <3>1 DEF DeleteBooking
      <3>3. ActLive(t) => t \in cln[c].temps BY <3>2 DEF RemembersActs
      <3> QED BY <3>2, <3>3, DroppedActs
    <2> QED BY <2>3, <2>4, <2>5
  <1> QED BY <1>1, <1>2

-----------------------------------------------------------------------------
(* The theorems. *)

LEMMA StatusWriter ==
    ASSUME TypeOK, [Next]_vars, NEW h \in Handlers, req[h] \in StatusChange,
           At(h, "status", "write"), At(h, "status", "push")'
    PROVE  WriteStatus(h)
  <1>0. req'[h] # req[h] /\ req'[h] # Idle BY DEF At, Idle
  <1>f. req[h] # Idle BY DEF At, Idle
  <1>1. CASE UNCHANGED vars BY <1>0, <1>1 DEF vars
  <1>2. ASSUME NEW g \in Handlers, Arrival(g) PROVE FALSE
    <2>1. Began(g) BY <1>2, ArrivalBegins
    <2>2. g = h BY <1>0, <2>1 DEF Began, TypeOK
    <2> QED BY <1>f, <2>1, <2>2 DEF Began
  <1>3. ASSUME NEW g \in Handlers, Progress(g) PROVE WriteStatus(h)
    <2>1. g = h
      BY <1>0, <1>3 DEF Progress, Clone, NewBooking, WriteStatus, TellOwner, WriteAmend,
         WriteCancel, TellTechnicians, Goto, Begin, Finish, TypeOK
    <2> QED BY <1>3, <2>1 DEF Progress, Clone, NewBooking, WriteStatus, TellOwner, WriteAmend,
         WriteCancel, TellTechnicians, At, Subjects
  <1>4. ASSUME Saves PROVE FALSE
    BY <1>0, <1>4 DEF Saves, SaveTemplate, SaveCopy
  <1>5. ASSUME NEW d \in Deleters, DeleteStep(d) \/ \E p \in Activities : BeginDelete(d, p)
        PROVE  FALSE
    BY <1>0, <1>5 DEF DeleteStep, FindCopies, CommitDelete, BeginDelete
  <1>6. ASSUME NEW c \in Cleaners, BeginClean(c) \/ CleanStep(c) PROVE FALSE
    BY <1>0, <1>6 DEF CleanStep, BeginClean, FindPast, NextBatch, EndClean, DeleteFails, DeleteBooking
  <1>7. ASSUME Tick PROVE FALSE BY <1>0, <1>7 DEF Tick
  <1>8. ASSUME Fail PROVE FALSE BY <1>0, <1>8 DEF Fail, Finish, TypeOK
  <1>9. ASSUME Crash PROVE FALSE BY <1>0, <1>9 DEF Crash
  <1> QED BY <1>1, <1>2, <1>3, <1>4, <1>5, <1>6, <1>7, <1>8, <1>9 DEF Next, Saves

(* Only these two delete an activity. *)
LEMMA Pullers ==
    ASSUME TypeOK, [Next]_vars, acts' # acts, \A h \in Handlers : ~Clone(h),
           ~ \E t \in Tickets, some \in BOOLEAN : SaveCopy(t, some)
    PROVE  \/ \E d \in Deleters : CommitDelete(d)
           \/ \E c \in Cleaners, k \in Tickets : DeleteBooking(c, k)
  <1>1. CASE UNCHANGED vars BY <1>1 DEF vars
  <1>2. ASSUME NEW h \in Handlers, Arrival(h) PROVE FALSE
    BY <1>2 DEF Arrival, BeginSubmit, BeginStatus, BeginAmend, BeginPostpone, BeginCancel, db
  <1>3. ASSUME NEW h \in Handlers, Progress(h) PROVE FALSE
    BY <1>3 DEF Progress, NewBooking, WriteStatus, TellOwner, WriteAmend, WriteCancel,
                TellTechnicians, db
  <1>4. ASSUME Saves PROVE FALSE
    BY <1>4 DEF Saves, SaveTemplate
  <1>5. ASSUME NEW d \in Deleters, DeleteStep(d) \/ \E p \in Activities : BeginDelete(d, p)
        PROVE  CommitDelete(d)
    BY <1>5 DEF DeleteStep, FindCopies, BeginDelete, db
  <1>6. ASSUME NEW c \in Cleaners, BeginClean(c) \/ CleanStep(c)
        PROVE  \E k \in Tickets : DeleteBooking(c, k)
    BY <1>6 DEF CleanStep, BeginClean, FindPast, NextBatch, EndClean, DeleteFails, db
  <1>7. ASSUME Tick \/ Fail \/ Crash PROVE FALSE
    BY <1>7 DEF Tick, Fail, Crash, db
  <1> QED BY <1>1, <1>2, <1>3, <1>4, <1>5, <1>6, <1>7 DEF Next, Saves

LEMMA DroppedRow ==
    ASSUME TypeOK, NEW ts, NEW how \in Gone, rows' = DropRows(ts, how), NEW t \in Tickets, t \in ts
    PROVE  ~Live(rows'[t])
  <1>1. rows'[t] = SoftDelete(rows[t], how) BY DEF DropRows
  <1>2. rows[t] \in Row \cup {NoRow} BY DEF TypeOK
  <1> QED BY <1>1, <1>2 DEF SoftDelete, Live, Row, NoRow, Gone

LEMMA Initially == Init => IInv
  <1> SUFFICES ASSUME Init PROVE IInv OBVIOUS
  <1>1. TypeOK BY DEF Init, TypeOK
  <1>2. BookedOnce BY DEF Init, BookedOnce, Submitting, Idle
  <1>3. CancelledFirst BY DEF Init, CancelledFirst, At, Idle
  <1>4. RemembersActs BY DEF Init, RemembersActs
  <1>5. StampsTell BY DEF Init, StampsTell, At, Idle
  <1>6. ActivityGoesWithBooking BY DEF Init, ActivityGoesWithBooking, NoRow
  <1> QED BY <1>1, <1>2, <1>3, <1>4, <1>5, <1>6 DEF IInv

LEMMA Inductive == IInv /\ [Next]_vars => IInv'
  <1> SUFFICES ASSUME IInv, [Next]_vars PROVE IInv' OBVIOUS
  <1>1. TypeOK /\ BookedOnce /\ CancelledFirst /\ RemembersActs /\ StampsTell BY DEF IInv
  <1> QED BY <1>1, StepType, BookedOnceStep, CancelledFirstStep, RemembersActsStep,
             StampsTellStep, ActivityGoesStep DEF IInv

(* In every reachable state a ticket belongs to one submission, cancellations  *)
(* are announced late enough, and what requests remember can be relied on as   *)
(* far as the handlers do.                                                     *)
THEOREM Invariance == Spec => []IInv
  BY Initially, Inductive, PTL DEF Spec

(* A booking that was cleaned, or went with its template, left no temporary    *)
(* activity (Booking.Delete, handleActivityDelete).                            *)
THEOREM ActivityGoes == Spec => []ActivityGoesWithBooking
  <1>1. IInv => ActivityGoesWithBooking BY DEF IInv
  <1> QED BY <1>1, Invariance, PTL

(* No request in flight brings a booking back whose cancellation was announced *)
(* (handleBookCancel).                                                         *)
THEOREM CancelIsFinal == Spec => []CancelledIsGone
  <1>1. IInv => CancelledIsGone
    BY DEF IInv, CancelledFirst, CancelledIsGone, NoNote, Gone, Live
  <1> QED BY <1>1, Invariance, PTL

(* No statement of any handler writes a deleted booking.                       *)
THEOREM DeletedStays == Spec => DeletedIsFinal
  <1>1. IInv /\ [Next]_vars =>
          [\A t \in Tickets : rows[t].state \in Gone => rows'[t] = rows[t]]_vars
    BY RowsStep, RowsOnlyGrow DEF IInv
  <1> QED BY <1>1, Invariance, PTL DEF Spec, DeletedIsFinal

(* The status a technician sets lands on the booking as she saw it, or nowhere *)
(* (handleSetStatus).                                                          *)
THEOREM StatusSeen == Spec => StatusOnBookingSeen
  <1> DEFINE A == \A h \in Handlers : At(h, "status", "write") /\ At(h, "status", "push")' =>
                    LET r == req[h] IN rows'[r.t] # rows[r.t] => rows[r.t] = r.bk
  <1>1. IInv /\ [Next]_vars => A
    <2> SUFFICES ASSUME IInv, [Next]_vars, NEW h \in Handlers, At(h, "status", "write"),
                        At(h, "status", "push")', rows'[req[h].t] # rows[req[h].t]
                 PROVE  rows[req[h].t] = req[h].bk
      OBVIOUS
    <2>1. TypeOK /\ BookedOnce /\ StampsTell BY DEF IInv
    <2>2. req[h] \in StatusChange BY <2>1, RequestType, Kinds DEF At
    <2>3. WriteStatus(h) BY <2>1, <2>2, StatusWriter
    <2>4. req[h].t \in Tickets BY <2>2 DEF StatusChange
    <2>5. Matches(rows[req[h].t], req[h].bk)
      BY <2>1, <2>3, <2>4 DEF WriteStatus, UpdateStatus, TypeOK
    <2> QED BY <2>1, <2>5 DEF StampsTell
  <1>2. IInv /\ [Next]_vars => [A]_vars BY <1>1
  <1> QED BY <1>2, Invariance, PTL DEF Spec, StatusOnBookingSeen

(* The deletion of an activity's original and the cleaning of its booking take  *)
(* an activity away only with its booking; the deletion of that very activity   *)
(* may leave the booking, which handleActivityDelete does not look at; none of  *)
(* them leaves its equipment.                                                   *)
THEOREM ActivityStays == Spec => ActivityNotPulled
  <1> DEFINE A == \A t \in Tickets : ActLive(t) /\ ~ActLive(t)' =>
                    /\ t \notin gear'
                    /\ Live(rows[t])' =>
                          \E d \in Deleters : del[d] # Idle /\ del'[d] = Idle /\ del[d].from = t
  <1>1. IInv /\ [Next]_vars => A
    <2> SUFFICES ASSUME IInv, [Next]_vars, NEW t \in Tickets, ActLive(t), ~ActLive(t)'
                 PROVE  /\ t \notin gear'
                        /\ Live(rows'[t]) => \E d \in Deleters :
                              del[d] # Idle /\ del'[d] = Idle /\ del[d].from = t
      OBVIOUS
    <2>1. TypeOK /\ BookedOnce BY DEF IInv
    <2>2. ASSUME NEW h \in Handlers, Clone(h) PROVE FALSE
      <3>1. acts[req[h].t] = NoAct BY <2>1, <2>2 DEF Clone, At, BookedOnce, Submitting
      <3>2. t # req[h].t BY <3>1 DEF ActLive, NoAct
      <3> QED BY <2>1, <2>2, <3>2 DEF Clone, TypeOK, ActLive
    <2>3. ASSUME NEW k \in Tickets, NEW some \in BOOLEAN, SaveCopy(k, some) PROVE FALSE
      BY <2>1, <2>3, SavedCopy
    <2>4. \/ \E d \in Deleters : CommitDelete(d)
          \/ \E c \in Cleaners, k \in Tickets : DeleteBooking(c, k)
      BY <2>1, <2>2, <2>3, Pullers DEF ActLive
    <2>5. CASE \E d \in Deleters : CommitDelete(d)
      <3>1. PICK d \in Deleters : CommitDelete(d) BY <2>5
      <3> DEFINE own == Unsaved(del[d].from, del[d].read)
      <3>2. /\ acts' = DropActs(del[d].kids \cup own)
            /\ rows' = DropRows(del[d].kids, "cascaded")
            /\ gear' = gear \ (del[d].kids \cup {del[d].from})
            /\ del[d] # Idle
        BY <3>1 DEF CommitDelete
      <3>3. t \in del[d].kids \cup own BY <2>1, <3>2, DroppedActs DEF ActLive
      <3>4. CASE t \in del[d].kids
        BY <2>1, <3>2, <3>4, DroppedRow DEF Gone
      <3>5. CASE t \in own
        <4>1. t = del[d].from BY <3>5 DEF Unsaved
        <4>2. del'[d] = Idle BY <2>1, <3>1 DEF CommitDelete, TypeOK
        <4> QED BY <3>2, <4>1, <4>2
      <3> QED BY <3>3, <3>4, <3>5
    <2>6. CASE \E c \in Cleaners, k \in Tickets : DeleteBooking(c, k)
      <3>1. PICK c \in Cleaners, k \in Tickets : DeleteBooking(c, k) BY <2>6
      <3>2. /\ acts' = DropActs({k} \cap cln[c].temps)
            /\ rows' = DropRows({k}, "cleaned")
            /\ gear' = gear \ ({k} \cap cln[c].temps)
        BY <3>1 DEF DeleteBooking
      <3>3. t \in {k} \cap cln[c].temps BY <2>1, <3>2, DroppedActs DEF ActLive
      <3> QED BY <2>1, <3>2, <3>3, DroppedRow DEF Gone
    <2> QED BY <2>4, <2>5, <2>6
  <1>2. IInv /\ [Next]_vars => [A]_vars BY <1>1
  <1> QED BY <1>2, Invariance, PTL DEF Spec, ActivityNotPulled

-----------------------------------------------------------------------------
(* The refinement. *)

LEMMA ChangeIsLife ==
    ASSUME TypeOK, TypeOK', RowsChange
    PROVE  Life!Next \/ UNCHANGED Life!vars
  <1>0. \A t \in Tickets : rows[t] \in Row \cup {NoRow} /\ rows'[t] \in Row \cup {NoRow}
    BY DEF TypeOK
  <1>1. CASE rows' = rows
    BY <1>1 DEF Life!vars, statuses, owners
  <1>2. ASSUME NEW t \in Tickets, Created(t) PROVE Life!Next
    <2>1. PICK h \in Handlers, slot \in Slots :
            /\ req[h].user \in Users
            /\ rows' = [rows EXCEPT ![t] = NewRow(req[h].user, slot, stamp + 1)]
      BY <1>2 DEF Created
    <2>2. rows[t] = NoRow BY <1>2 DEF Created
    <2>3. statuses[t] = "none" BY <2>2 DEF statuses, StatusOf
    <2>4. StatusOf(rows'[t]) = "Pending" /\ OwnerOf(rows'[t]) = req[h].user
      BY <2>1 DEF TypeOK, StatusOf, OwnerOf, NewRow, NoRow, Live
    <2>5. \A k \in Tickets : k # t => rows'[k] = rows[k] BY <2>1 DEF TypeOK
    <2>6. statuses' = [statuses EXCEPT ![t] = "Pending"] BY <2>4, <2>5 DEF statuses
    <2>7. owners' = [owners EXCEPT ![t] = req[h].user] BY <2>4, <2>5 DEF owners
    <2> QED BY <2>1, <2>3, <2>6, <2>7 DEF Life!Next, Life!Book
  <1>3. ASSUME NEW t \in Tickets, Rewritten(t) PROVE Life!Next
    <2>1. PICK r \in Row : /\ Live(r) /\ r.owner = rows[t].owner
                           /\ rows' = [rows EXCEPT ![t] = r]
      BY <1>3 DEF Rewritten
    <2>2. Live(rows[t]) /\ rows[t] \in Row BY <1>0, <1>3 DEF Rewritten, Live, NoRow
    <2>3. rows[t] # NoRow /\ r # NoRow BY <2>1, <2>2 DEF Live, NoRow
    <2>4. statuses[t] \in Statuses BY <2>2, <2>3 DEF statuses, StatusOf, Row
    <2>5. \A k \in Tickets : k # t => rows'[k] = rows[k] BY <2>1 DEF TypeOK
    <2>6. rows'[t] = r BY <2>1 DEF TypeOK
    <2>7. StatusOf(r) = r.status /\ OwnerOf(r) = OwnerOf(rows[t])
      BY <2>1, <2>2, <2>3 DEF StatusOf, OwnerOf
    <2>8. statuses' = [statuses EXCEPT ![t] = r.status] BY <2>5, <2>6, <2>7 DEF statuses
    <2>9. owners' = owners BY <2>5, <2>6, <2>7 DEF owners
    <2>10. r.status \in Statuses BY <2>1 DEF Row
    <2> QED BY <2>4, <2>8, <2>9, <2>10 DEF Life!Next, Life!Mark, Life!Statuses, Statuses
  <1>4. ASSUME NEW us \in SUBSET Tickets, Removed(us) PROVE Life!Next
    <2>1. PICK how \in Gone : rows' = DropRows(us, how) BY <1>4 DEF Removed
    <2> DEFINE ts == {t \in us : Live(rows[t])}
    <2>2. ASSUME NEW t \in ts
          PROVE  statuses[t] \in Statuses /\ StatusOf(rows'[t]) = "gone"
                 /\ OwnerOf(rows'[t]) = OwnerOf(rows[t])
      <3>1. t \in Tickets /\ Live(rows[t]) /\ rows[t] \in Row /\ rows[t] # NoRow
        BY <1>0 DEF Live, NoRow
      <3>2. rows'[t] = [rows[t] EXCEPT !.state = how]
        BY <2>1, <3>1 DEF DropRows, SoftDelete
      <3>3. rows'[t].state = how /\ rows'[t].owner = rows[t].owner /\ how # "live" /\ how # "none"
        BY <3>1, <3>2 DEF Row, Gone
      <3> QED BY <3>1, <3>3 DEF statuses, StatusOf, OwnerOf, Row, Live, NoRow
    <2>3. ASSUME NEW t \in Tickets, t \notin ts PROVE rows'[t] = rows[t]
      BY <2>1, <2>3 DEF DropRows, SoftDelete
    <2>4. ts \in SUBSET Tickets OBVIOUS
    <2> HIDE DEF ts
    <2>5. statuses' = [t \in Tickets |-> IF t \in ts THEN "gone" ELSE statuses[t]]
      BY <2>2, <2>3 DEF statuses
    <2>6. owners' = owners BY <2>2, <2>3 DEF owners
    <2> QED BY <2>2, <2>4, <2>5, <2>6 DEF Life!Next, Life!Remove, Life!Statuses, Statuses
  <1> QED BY <1>1, <1>2, <1>3, <1>4 DEF RowsChange

(* The table of bookings, whatever requests, deletions, cleaning and crashes   *)
(* do, is the life BookingLife promises: a booking starts Pending, keeps its   *)
(* owner and, once gone, stays gone.                                           *)
THEOREM Refinement == Spec => ImplementsLife
  <1>1. Init => Life!Init
    BY DEF Init, Life!Init, statuses, owners, StatusOf, OwnerOf
  <1>2. IInv /\ IInv' /\ [Next]_vars => [Life!Next]_(Life!vars)
    BY ChangeIsLife, RowsStep DEF IInv
  <1> QED BY <1>1, <1>2, Invariance, PTL DEF Spec, ImplementsLife, Life!Spec

-----------------------------------------------------------------------------
(* Cleaning. *)

(* What a run of CleanBookings is about to delete was over when the run began, *)
(* or was written since the batch was read; and a last batch, of which no      *)
(* deletion failed, has all there was.                                         *)
CleanTells(c) ==
    /\ cln[c].mark <= stamp
    /\ cln[c].pc = "delete" =>
          \A t \in cln[c].batch :
              Live(rows[t]) => PastAt(rows[t], cln[c].cut) \/ rows[t].stamp > cln[c].mark
    /\ cln[c].pc = "delete" /\ ~cln[c].full /\ ~cln[c].errs =>
          \A t \in Past(cln[c].cut) : t \in cln[c].batch \/ rows[t].stamp > cln[c].mark

CleaningTells == \A c \in Cleaners : cln[c] # Idle => CleanTells(c)

(* A row is left as it is, deleted, or written after every mark. *)
LEMMA RowsAge ==
    ASSUME IInv, [Next]_vars, NEW t \in Tickets, Live(rows'[t]), NEW m \in Nat, m <= stamp
    PROVE  rows'[t] = rows[t] \/ rows'[t].stamp > m
  <1>1. rows'[t] = rows[t] \/ rows'[t].stamp = stamp + 1
    BY RowsStep, RowsOnlyGrow DEF IInv
  <1>2. stamp \in Nat BY DEF IInv, TypeOK
  <1> QED BY <1>1, <1>2

(* A cleaner that waits while others go on. *)
LEMMA OthersTell ==
    ASSUME IInv, [Next]_vars, NEW c \in Cleaners, cln[c] # Idle, cln'[c] = cln[c], CleanTells(c)
    PROVE  CleanTells(c)'
  <1>1. cln[c] \in Cleaning BY DEF IInv, TypeOK
  <1>2. cln[c].mark \in Nat /\ cln[c].batch \in SUBSET Tickets /\ cln[c].mark <= stamp
    BY <1>1 DEF Cleaning, CleanTells
  <1>3. stamp' \in {stamp, stamp + 1} /\ stamp \in Nat
    BY RowsStep DEF IInv, TypeOK, RowsChange, Created, Rewritten, Removed
  <1>4. \A t \in Tickets : Live(rows'[t]) => rows'[t] = rows[t] \/ rows'[t].stamp > cln[c].mark
    BY <1>2, RowsAge
  <1>5. cln[c].mark <= stamp' BY <1>2, <1>3
  <1>6. ASSUME NEW t \in cln[c].batch, cln[c].pc = "delete", Live(rows'[t])
        PROVE  PastAt(rows'[t], cln[c].cut) \/ rows'[t].stamp > cln[c].mark
    BY <1>2, <1>4, <1>6 DEF CleanTells
  <1>7. ASSUME NEW t \in Tickets, PastAt(rows'[t], cln[c].cut),
               cln[c].pc = "delete", ~cln[c].full, ~cln[c].errs
        PROVE  t \in cln[c].batch \/ rows'[t].stamp > cln[c].mark
    BY <1>4, <1>7 DEF CleanTells, Past, PastAt
  <1> QED BY <1>5, <1>6, <1>7 DEF CleanTells, Past

LEMMA CleanerTells ==
    ASSUME IInv, CleaningTells, NEW e \in Cleaners, BeginClean(e) \/ CleanStep(e),
           cln'[e] # Idle
    PROVE  CleanTells(e)'
  <1>0. TypeOK BY DEF IInv
  <1>1. CASE BeginClean(e)
    <2>1. cln'[e].pc = "find" /\ cln'[e].mark = stamp /\ stamp' = stamp
      BY <1>0, <1>1 DEF BeginClean, TypeOK
    <2> QED BY <1>0, <2>1 DEF CleanTells, TypeOK
  <1>2. CASE FindPast(e)
    <2>1. PICK b \in SUBSET Past(cln[e].cut) :
            /\ b = Past(cln[e].cut) \/ Cardinality(b) = Batch
            /\ cln' = [cln EXCEPT ![e].pc = "delete", ![e].batch = b, ![e].mark = stamp,
                          ![e].temps = {k \in b : ActLive(k)}, ![e].full = ~LastBatch(b)]
      BY <1>2 DEF FindPast
    <2>2. cln[e] \in Cleaning BY <1>0, <1>2 DEF FindPast, TypeOK
    <2>3. /\ cln'[e].batch = b /\ cln'[e].mark = stamp /\ cln'[e].cut = cln[e].cut
          /\ cln'[e].full = ~LastBatch(b)
      BY <1>0, <2>1, <2>2 DEF TypeOK, Cleaning
    <2>4. rows' = rows /\ stamp' = stamp /\ stamp \in Nat
      BY <1>0, <1>2 DEF FindPast, db, TypeOK
    <2>5. ASSUME ~cln'[e].full PROVE b = Past(cln[e].cut)
      <3>1. Cardinality(b) < Batch BY <2>3, <2>5 DEF LastBatch
      <3>2. b = Past(cln[e].cut) \/ Cardinality(b) = Batch BY <2>1
      <3>3. Batch \in Nat BY BookingsAssumption
      <3>4. Cardinality(b) # Batch BY <3>1, <3>3
      <3> QED BY <3>2, <3>4
    <2> QED BY <2>3, <2>4, <2>5 DEF CleanTells, Past
  <1>3. ASSUME NEW k \in Tickets, DeleteBooking(e, k) PROVE CleanTells(e)'
    <2>1. cln[e] # Idle /\ cln[e] \in Cleaning /\ cln[e].pc = "delete"
      BY <1>0, <1>3 DEF DeleteBooking, TypeOK
    <2>2. cln'[e] = [cln[e] EXCEPT !.batch = cln[e].batch \ {k}]
      BY <1>0, <1>3 DEF DeleteBooking, TypeOK
    <2>3. /\ cln'[e].batch = cln[e].batch \ {k} /\ cln'[e].mark = cln[e].mark
          /\ cln'[e].cut = cln[e].cut /\ cln'[e].full = cln[e].full /\ cln'[e].errs = cln[e].errs
      BY <2>1, <2>2 DEF Cleaning
    <2>4. /\ stamp' = stamp /\ CleanTells(e)
          /\ \A t \in Tickets : t # k => rows'[t] = rows[t]
      BY <1>3, <2>1 DEF DeleteBooking, DropRows, CleaningTells
    <2>5. ~Live(rows'[k])
      BY <1>0, <1>3 DEF DeleteBooking, DropRows, SoftDelete, Live, TypeOK, Row
    <2>6. cln[e].batch \in SUBSET Tickets BY <2>1 DEF Cleaning
    <2> QED BY <2>1, <2>3, <2>4, <2>5, <2>6 DEF CleanTells, Past, PastAt
  <1>4. ASSUME NEW k \in Tickets, DeleteFails(e, k) PROVE CleanTells(e)'
    <2>1. cln[e] # Idle /\ cln[e] \in Cleaning /\ cln[e].pc = "delete"
      BY <1>0, <1>4 DEF DeleteFails, TypeOK
    <2>2. cln'[e] = [cln[e] EXCEPT !.batch = cln[e].batch \ {k}, !.errs = TRUE]
      BY <1>0, <1>4 DEF DeleteFails, TypeOK
    <2>3. /\ cln'[e].batch \subseteq cln[e].batch /\ cln'[e].mark = cln[e].mark
          /\ cln'[e].cut = cln[e].cut /\ cln'[e].errs
      BY <2>1, <2>2 DEF Cleaning
    <2>4. rows' = rows /\ stamp' = stamp /\ CleanTells(e)
      BY <1>4, <2>1 DEF DeleteFails, db, CleaningTells
    <2> QED BY <2>1, <2>3, <2>4 DEF CleanTells
  <1>5. CASE NextBatch(e)
    <2>1. cln[e] # Idle /\ cln[e] \in Cleaning BY <1>0, <1>5 DEF NextBatch, TypeOK
    <2>2. cln'[e].pc = "find" /\ cln'[e].mark = cln[e].mark
      BY <1>0, <1>5, <2>1 DEF NextBatch, TypeOK, Cleaning
    <2>3. stamp' = stamp /\ CleanTells(e) BY <1>5, <2>1 DEF NextBatch, CleaningTells
    <2> QED BY <2>2, <2>3 DEF CleanTells
  <1>6. CASE EndClean(e)
    BY <1>0, <1>6 DEF EndClean, TypeOK
  <1> QED BY <1>1, <1>2, <1>3, <1>4, <1>5, <1>6 DEF CleanStep

LEMMA CleaningTellsStep ==
    ASSUME IInv, CleaningTells, [Next]_vars
    PROVE  CleaningTells'
  <1> SUFFICES ASSUME NEW c \in Cleaners, cln'[c] # Idle
               PROVE  CleanTells(c)'
    BY DEF CleaningTells
  <1>1. CASE cln'[c] = cln[c] BY <1>1, OthersTell DEF CleaningTells
  <1>2. CASE cln'[c] # cln[c]
    <2>1. PICK e \in Cleaners : BeginClean(e) \/ CleanStep(e)
      BY <1>2, CleaningsStep DEF IInv
    <2>2. e = c
      BY <1>2, <2>1 DEF IInv, TypeOK, BeginClean, CleanStep, FindPast, NextBatch, EndClean,
                        DeleteBooking, DeleteFails
    <2> QED BY <2>1, <2>2, CleanerTells
  <1> QED BY <1>1, <1>2

LEMMA CleaningAlways == Spec => [](IInv /\ CleaningTells)
  <1>1. Init => CleaningTells BY DEF Init, CleaningTells
  <1>2. IInv /\ CleaningTells /\ [Next]_vars => CleaningTells' BY CleaningTellsStep
  <1> QED BY <1>1, <1>2, Invariance, PTL DEF Spec

(* CleanBookings deletes what was over when the run began, or was written since *)
(* its batch was read, whatever runs beside it.                                 *)
THEOREM OnlyPastCleaned == Spec => CleansOnlyPast
  <1>1. IInv /\ CleaningTells /\ [Next]_vars =>
          [\A c \in Cleaners, t \in Tickets :
             cln[c] # Idle /\ Live(rows[t]) /\ rows'[t].state = "cleaned" /\ cln'[c] # cln[c] =>
                \/ rows[t].start < cln[c].cut /\ rows[t].end < cln[c].cut
                \/ rows[t].stamp > cln[c].mark]_vars
    <2> SUFFICES ASSUME IInv, CleaningTells, Next, NEW c \in Cleaners, NEW t \in Tickets,
                        cln[c] # Idle, Live(rows[t]), rows'[t].state = "cleaned", cln'[c] # cln[c]
                 PROVE  PastAt(rows[t], cln[c].cut) \/ rows[t].stamp > cln[c].mark
      BY DEF PastAt
    <2>1. \/ \E d \in Deleters : CommitDelete(d)
          \/ \E e \in Cleaners, k \in Tickets : DeleteBooking(e, k)
      BY Removers DEF IInv, Live
    <2>2. PICK e \in Cleaners, k \in Tickets : DeleteBooking(e, k)
      BY <2>1 DEF CommitDelete
    <2>3. e = c BY <2>2 DEF DeleteBooking, IInv, TypeOK
    <2>4. t = k BY <2>2 DEF DeleteBooking, DropRows, Live
    <2>5. t \in cln[c].batch /\ cln[c].pc = "delete" /\ CleanTells(c)
      BY <2>2, <2>3, <2>4 DEF DeleteBooking, CleaningTells
    <2> QED BY <2>5 DEF CleanTells
  <1> QED BY <1>1, CleaningAlways, PTL DEF Spec, CleansOnlyPast

LEMMA CleanEnder ==
    ASSUME IInv, Next, NEW c \in Cleaners, cln[c] # Idle, cln'[c] = Idle, faults' = faults
    PROVE  EndClean(c)
  <1>1. ASSUME cln' = cln PROVE FALSE BY <1>1
  <1>2. ASSUME NEW h \in Handlers, Arrival(h) PROVE FALSE
    BY <1>1, <1>2 DEF Arrival, BeginSubmit, BeginStatus, BeginAmend, BeginPostpone, BeginCancel
  <1>3. ASSUME NEW h \in Handlers, Progress(h) PROVE FALSE
    BY <1>1, <1>3 DEF Progress, Clone, NewBooking, WriteStatus, TellOwner, WriteAmend,
                      WriteCancel, TellTechnicians
  <1>4. ASSUME Saves PROVE FALSE BY <1>1, <1>4 DEF Saves, SaveTemplate, SaveCopy
  <1>5. ASSUME NEW d \in Deleters, DeleteStep(d) \/ \E p \in Activities : BeginDelete(d, p)
        PROVE  FALSE
    BY <1>1, <1>5 DEF DeleteStep, FindCopies, CommitDelete, BeginDelete
  <1>6. ASSUME Tick \/ Fail \/ Crash PROVE FALSE
    BY <1>1, <1>6 DEF Tick, Fail, Crash, IInv, TypeOK
  <1>7. ASSUME NEW e \in Cleaners, BeginClean(e) \/ CleanStep(e) PROVE EndClean(c)
    <2>1. cln \in [Cleaners -> {Idle} \cup Cleaning] BY DEF IInv, TypeOK
    <2>2. cln[e] # Idle => cln[e] \in Cleaning BY <2>1
    <2>3. ASSUME NEW r, r.op = "clean", cln' = [cln EXCEPT ![e] = r] PROVE FALSE
      <3>1. cln'[c] \in {r, cln[c]} BY <2>1, <2>3
      <3>2. cln'[c] = r BY <3>1
      <3> QED BY <2>3, <3>2 DEF Idle
    <2>4. CASE BeginClean(e)
      <3> DEFINE r == [op |-> "clean", pc |-> "find", cut |-> clock, batch |-> {},
                       temps |-> {}, full |-> FALSE, errs |-> FALSE, mark |-> stamp]
      <3>1. cln' = [cln EXCEPT ![e] = r] BY <2>4 DEF BeginClean
      <3>2. r.op = "clean" OBVIOUS
      <3> HIDE DEF r
      <3> QED BY <2>3, <3>1, <3>2
    <2>5. CASE FindPast(e)
      <3>1. PICK b \in SUBSET Past(cln[e].cut) :
              cln' = [cln EXCEPT ![e].pc = "delete", ![e].batch = b, ![e].mark = stamp,
                            ![e].temps = {k \in b : ActLive(k)}, ![e].full = ~LastBatch(b)]
        BY <2>5 DEF FindPast
      <3> DEFINE r == [cln[e] EXCEPT !.pc = "delete", !.batch = b, !.mark = stamp,
                            !.temps = {k \in b : ActLive(k)}, !.full = ~LastBatch(b)]
      <3>2. cln[e] \in Cleaning BY <2>2, <2>5 DEF FindPast
      <3>3. r.op = "clean" BY <3>2 DEF Cleaning
      <3>4. cln' = [cln EXCEPT ![e] = r] BY <2>1, <3>1
      <3> HIDE DEF r
      <3> QED BY <2>3, <3>3, <3>4
    <2>6. CASE NextBatch(e)
      <3> DEFINE r == [cln[e] EXCEPT !.pc = "find"]
      <3>1. cln[e] \in Cleaning BY <2>2, <2>6 DEF NextBatch
      <3>2. r.op = "clean" BY <3>1 DEF Cleaning
      <3>3. cln' = [cln EXCEPT ![e] = r] BY <2>1, <2>6 DEF NextBatch
      <3> HIDE DEF r
      <3> QED BY <2>3, <3>2, <3>3
    <2>7. CASE EndClean(e)
      <3>1. e = c BY <2>1, <2>7 DEF EndClean
      <3> QED BY <2>7, <3>1
    <2>8. ASSUME NEW k \in Tickets, DeleteBooking(e, k) PROVE EndClean(c)
      <3> DEFINE r == [cln[e] EXCEPT !.batch = @ \ {k}]
      <3>1. cln[e] \in Cleaning BY <2>2, <2>8 DEF DeleteBooking
      <3>2. r.op = "clean" BY <3>1 DEF Cleaning
      <3>3. cln' = [cln EXCEPT ![e] = r] BY <2>1, <2>8 DEF DeleteBooking
      <3> HIDE DEF r
      <3> QED BY <2>3, <3>2, <3>3
    <2>9. ASSUME NEW k \in Tickets, DeleteFails(e, k) PROVE EndClean(c)
      BY <2>9 DEF DeleteFails, IInv, TypeOK
    <2> QED BY <1>7, <2>4, <2>5, <2>6, <2>7, <2>8, <2>9 DEF CleanStep
  <1> QED BY <1>2, <1>3, <1>4, <1>5, <1>6, <1>7 DEF Next, Saves

(* A run that ends, and saw no deletion fail, leaves no booking that was over   *)
(* when it began, but those written since its last batch was read.              *)
THEOREM AllCleaned == Spec => CleanedAll
  <1>1. IInv /\ CleaningTells /\ [Next]_vars =>
          [\A c \in Cleaners : cln[c] # Idle /\ cln'[c] = Idle /\ faults' = faults =>
              \/ cln[c].errs
              \/ \A t \in Past(cln[c].cut) : rows[t].stamp > cln[c].mark]_vars
    <2> SUFFICES ASSUME IInv, CleaningTells, Next, NEW c \in Cleaners, cln[c] # Idle,
                        cln'[c] = Idle, faults' = faults, ~cln[c].errs
                 PROVE  \A t \in Past(cln[c].cut) : rows[t].stamp > cln[c].mark
      OBVIOUS
    <2>1. EndClean(c) BY CleanEnder
    <2> QED BY <2>1 DEF EndClean, CleaningTells, CleanTells
  <1> QED BY <1>1, CleaningAlways, PTL DEF Spec, CleanedAll
=============================================================================
