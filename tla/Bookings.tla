----------------------------- MODULE Bookings -----------------------------
(***************************************************************************)
(* The life of a booking: the submission that clones an activity and books *)
(* the clone, the technicians' status changes, the owner's amendment,      *)
(* postponement and cancellation, the deletion of the activity a booking   *)
(* was copied from, and the cleaning of past bookings during maintenance.  *)
(*                                                                         *)
(* Every request runs on a goroutine of its own and no handler but the     *)
(* deletion of an activity holds a transaction over more than one          *)
(* statement, so a request is a process that reads a booking in one step,  *)
(* writes it in a later one and sends its notifications in a third; what   *)
(* it remembers in between is the copy bk it read.                         *)
(*                                                                         *)
(* A ticket stands for one submission: the booking with that ticket number *)
(* and the temporary activity made for it.                                 *)
(***************************************************************************)
EXTENDS BookingRows, FiniteSets

CONSTANTS
    Tickets,     \* submissions
    Templates,   \* the permanent activities
    Handlers,    \* requests the server works on at once
    Deleters,    \* requests of /activity/[ID]/delete it works on at once
    Cleaners,    \* maintenance runs that may overlap
    Batch,       \* bookings per query of CleanBookings (10 in the code)
    Edited,      \* bound: the activities the edit form is used on
    MaxTime,     \* bound: last tick of the clock
    MaxStamp,    \* bound: no request begins after this many writes
    MaxFaults    \* bound: SQL errors and crashes

ASSUME BookingsAssumption ==
    /\ Batch \in Nat \ {0}
    /\ MaxTime \in Nat /\ MaxStamp \in Nat /\ MaxFaults \in Nat
    /\ IsFiniteSet(Tickets)
    /\ Tickets \cap Templates = {}

VARIABLES
    clock,   \* time.Now(), in hours
    stamp,   \* the timestamp of the last write to the database
    faults,  \* errors and crashes so far
    rows,    \* table bookings, by ticket
    acts,    \* temporary activities, by ticket
    gear,    \* the tickets whose temporary activity has live equipment sets
    tmpl,    \* permanent activities
    note,    \* the notification pushed last, to an owner or to the technicians
    req, del, cln  \* the requests, activity deletions and cleaners in flight

db == <<rows, acts, gear, tmpl>>
vars == <<clock, stamp, faults, rows, acts, gear, tmpl, note, req, del, cln>>

Subjects == {"submit", "amend", "postpone", "cancel"}

(* What Notifications.PushUser is given: to the owner a status, to every *)
(* technician what happened.                                              *)
Note == [to: {"owner"}, t: Tickets, says: Statuses]
        \cup [to: {"technicians"}, t: Tickets, says: Subjects]
NoNote == [to |-> "nobody"]

(* The handlers take the ID of any activity; a temporary one goes by its ticket. *)
Activities == Templates \cup Tickets

(* stamp is updated_at; that of its creation counts as zero. *)
Act == [state: {"live", "deleted"}, from: Activities, stamp: Nat]
NoAct == [state |-> "none"]

Idle == [op |-> "idle"]
Submission == [op: {"submit"}, pc: {"clone", "create", "push"}, t: Tickets,
               from: Activities, user: Users]
StatusChange == [op: {"status"}, pc: {"write", "push"}, t: Tickets, bk: Row,
                 to: Statuses, hit: BOOLEAN]
Amendment == [op: {"amend", "postpone"}, pc: {"write", "push"}, t: Tickets,
              bk: Row, adds: BOOLEAN, hit: BOOLEAN]
Cancellation == [op: {"cancel"}, pc: {"write", "push"}, t: Tickets]

Deletion == [op: {"delete"}, pc: {"find", "commit"}, from: Activities,
             read: Nat, kids: SUBSET Tickets]

Cleaning == [op: {"clean"}, pc: {"find", "delete"}, cut: Nat, batch: SUBSET Tickets,
             temps: SUBSET Tickets, full: BOOLEAN, errs: BOOLEAN, mark: Nat]

TypeOK ==
    /\ clock \in Nat /\ stamp \in Nat /\ faults \in Nat
    /\ rows \in [Tickets -> Row \cup {NoRow}]
    /\ acts \in [Tickets -> Act \cup {NoAct}]
    /\ gear \subseteq Tickets
    /\ tmpl \in [Templates -> [live: BOOLEAN, stamp: Nat]]
    /\ note \in Note \cup {NoNote}
    /\ req \in [Handlers -> {Idle} \cup Submission \cup StatusChange
                              \cup Amendment \cup Cancellation]
    /\ del \in [Deleters -> {Idle} \cup Deletion]
    /\ cln \in [Cleaners -> {Idle} \cup Cleaning]

Init ==
    /\ clock = 0 /\ stamp = 0 /\ faults = 0
    /\ rows = [t \in Tickets |-> NoRow]
    /\ acts = [t \in Tickets |-> NoAct]
    /\ gear = {}
    /\ tmpl = [p \in Templates |-> [live |-> TRUE, stamp |-> 0]]
    /\ note = NoNote
    /\ req = [h \in Handlers |-> Idle]
    /\ del = [d \in Deleters |-> Idle]
    /\ cln = [c \in Cleaners |-> Idle]

ActLive(t) == acts[t].state = "live"

(* GetActivity finds it, and what it was last saved at. *)
There(a) == IF a \in Tickets THEN ActLive(a) ELSE tmpl[a].live
SavedAt(a) == IF a \in Tickets THEN acts[a].stamp ELSE tmpl[a].stamp

At(h, op, pc) == req[h].op = op /\ req[h].pc = pc

Free(h) == req[h] = Idle /\ stamp < MaxStamp

Begin(h, r) == req' = [req EXCEPT ![h] = r]

Goto(h, pc) == req' = [req EXCEPT ![h].pc = pc]

Finish(h) == req' = [req EXCEPT ![h] = Idle]

Write == stamp' = stamp + 1

-----------------------------------------------------------------------------
(* handleBookSubmission *)

Unused(t) == acts[t] = NoAct /\ \A h \in Handlers : req[h] # Idle => req[h].t # t

BeginSubmit(h, t, p, u) ==
    /\ Free(h) /\ Unused(t) /\ There(p)
    /\ Begin(h, [op |-> "submit", pc |-> "clone", t |-> t, from |-> p, user |-> u])
    /\ UNCHANGED <<clock, stamp, faults, db, note, del, cln>>

(* Activity.Clone: the activity and its equipment sets, in one Create.  The *)
(* activity it copies is not looked at again.                               *)
Clone(h) ==
    /\ At(h, "submit", "clone")
    /\ acts' = [acts EXCEPT ![req[h].t] = [state |-> "live", from |-> req[h].from,
                                            stamp |-> 0]]
    /\ gear' = gear \cup {req[h].t}
    /\ Goto(h, "create")
    /\ UNCHANGED <<clock, stamp, faults, rows, tmpl, note, del, cln>>

NewBooking(h, slot) ==
    /\ At(h, "submit", "create")
    /\ rows' = [rows EXCEPT ![req[h].t] = NewRow(req[h].user, slot, stamp + 1)]
    /\ Write
    /\ Goto(h, "push")
    /\ UNCHANGED <<clock, faults, acts, gear, tmpl, note, del, cln>>

-----------------------------------------------------------------------------
(* handleSetStatus: the update is conditional on everything that was read; *)
(* hit is res.RowsAffected > 0, which the handler does not look at.        *)

BeginStatus(h, t, status) ==
    /\ Free(h) /\ Live(rows[t])
    /\ Begin(h, [op |-> "status", pc |-> "write", t |-> t, bk |-> rows[t],
                 to |-> status, hit |-> FALSE])
    /\ UNCHANGED <<clock, stamp, faults, db, note, del, cln>>

WriteStatus(h) ==
    /\ At(h, "status", "write")
    /\ LET r == req[h] IN
        /\ rows' = [rows EXCEPT ![r.t] = UpdateStatus(@, r.bk, r.to, stamp + 1)]
        /\ Begin(h, [r EXCEPT !.pc = "push", !.hit = Matches(rows[r.t], r.bk)])
    /\ Write
    /\ UNCHANGED <<clock, faults, acts, gear, tmpl, note, del, cln>>

(* bk.Status was set in memory whether or not a row was. *)
TellOwner(h) ==
    /\ At(h, "status", "push")
    /\ note' = [to |-> "owner", t |-> req[h].t, says |-> req[h].to]
    /\ Finish(h)
    /\ UNCHANGED <<clock, stamp, faults, db, del, cln>>

-----------------------------------------------------------------------------
(* handleBookDoingAmend and handleBookPostpone: bk is the booking as read,   *)
(* with the form's times put in.  adds says that the form has items the      *)
(* activity lacks: GORM inserts them as equipment sets of the activity read. *)

BeginAmend(h, u, t, slot, adds) ==
    /\ Free(h) /\ Live(rows[t]) /\ Permitted(u, rows[t])
    /\ adds => ActLive(t)
    /\ Begin(h, [op |-> "amend", pc |-> "write", t |-> t, adds |-> adds, hit |-> FALSE,
                 bk |-> [rows[t] EXCEPT !.start = slot.start, !.end = slot.end]])
    /\ UNCHANGED <<clock, stamp, faults, db, note, del, cln>>

BeginPostpone(h, u, t, slot) ==
    /\ Free(h) /\ Live(rows[t]) /\ Permitted(u, rows[t])
    /\ slot.start >= rows[t].start /\ slot.end >= rows[t].end
    /\ Begin(h, [op |-> "postpone", pc |-> "write", t |-> t, adds |-> FALSE, hit |-> FALSE,
                 bk |-> [rows[t] EXCEPT !.start = slot.start, !.end = slot.end,
                           !.status = IF @ = "Pending" THEN @ ELSE "Progress"]])
    /\ UNCHANGED <<clock, stamp, faults, db, note, del, cln>>

WriteAmend(h, op) ==
    /\ At(h, op, "write")
    /\ LET r == req[h] IN
        /\ rows' = [rows EXCEPT ![r.t] = Updates(@, r.bk, stamp + 1)]
        /\ gear' = IF r.adds THEN gear \cup {r.t} ELSE gear
        /\ Begin(h, [r EXCEPT !.pc = "push", !.hit = Live(rows[r.t])])
    /\ Write
    /\ UNCHANGED <<clock, faults, acts, tmpl, note, del, cln>>

-----------------------------------------------------------------------------
(* handleBookCancel: Database.Delete(&bk), the booking alone. *)

BeginCancel(h, u, t) ==
    /\ Free(h) /\ Live(rows[t]) /\ Permitted(u, rows[t])
    /\ Begin(h, [op |-> "cancel", pc |-> "write", t |-> t])
    /\ UNCHANGED <<clock, stamp, faults, db, note, del, cln>>

WriteCancel(h) ==
    /\ At(h, "cancel", "write")
    /\ rows' = [rows EXCEPT ![req[h].t] = SoftDelete(@, "cancelled")]
    /\ Goto(h, "push")
    /\ UNCHANGED <<clock, stamp, faults, acts, gear, tmpl, note, del, cln>>

-----------------------------------------------------------------------------
(* The last step of a submission, amendment, postponement or cancellation:  *)
(* a notification to every technician.                                      *)

TellTechnicians(h) ==
    /\ \E op \in Subjects :
        /\ At(h, op, "push")
        /\ note' = [to |-> "technicians", t |-> req[h].t, says |-> op]
    /\ Finish(h)
    /\ UNCHANGED <<clock, stamp, faults, db, del, cln>>

-----------------------------------------------------------------------------
(* handleActivityDelete.  Its transaction reads the activities copied from  *)
(* this one and deletes, all at its commit, their equipment, their bookings *)
(* and themselves; then the equipment of this one, whatever it is, and, if  *)
(* it still is what was read, the activity.  Nothing asks whether it is a   *)
(* temporary one: then its booking is left without it.                      *)

BeginDelete(d, p) ==
    /\ del[d] = Idle /\ There(p)
    /\ del' = [del EXCEPT ![d] = [op |-> "delete", pc |-> "find", from |-> p,
                                  read |-> SavedAt(p), kids |-> {}]]
    /\ UNCHANGED <<clock, stamp, faults, db, note, req, cln>>

Copies(p) == {t \in Tickets : ActLive(t) /\ acts[t].from = p}

FindCopies(d) ==
    /\ del[d] # Idle /\ del[d].pc = "find"
    /\ del' = [del EXCEPT ![d].pc = "commit", ![d].kids = Copies(del[d].from)]
    /\ UNCHANGED <<clock, stamp, faults, db, note, req, cln>>

(* A mutant: the copies themselves are forgotten. *)
ForgetActs(ts) == acts

DropActs(ts) == [t \in Tickets |-> IF t \in ts /\ acts[t] # NoAct
                                  THEN [acts[t] EXCEPT !.state = "deleted"] ELSE acts[t]]

(* A mutant: the bookings are forgotten. *)
ForgetRows(ts, how) == rows

DropRows(ts, how) == [t \in Tickets |-> IF t \in ts THEN SoftDelete(rows[t], how)
                                                    ELSE rows[t]]

(* What the conditional deletion of the activity finds. *)
Unsaved(a, read) == {t \in {a} \cap Tickets : acts[t].stamp = read}

CommitDelete(d) ==
    /\ del[d] # Idle /\ del[d].pc = "commit"
    /\ LET r == del[d] IN
        /\ rows' = DropRows(r.kids, "cascaded")
        /\ acts' = DropActs(r.kids \cup Unsaved(r.from, r.read))
        /\ gear' = gear \ (r.kids \cup {r.from})
        /\ tmpl' = [p \in Templates |->
                      [tmpl[p] EXCEPT !.live = @ /\ ~(p = r.from /\ tmpl[p].stamp = r.read)]]
    /\ del' = [del EXCEPT ![d] = Idle]
    /\ UNCHANGED <<clock, stamp, faults, note, req, cln>>

(* What handleActivityDoEdit does to the activity's own row: it is saved, and *)
(* is no longer the row another request has read.                             *)
SaveTemplate(p) ==
    /\ tmpl[p].live /\ stamp < MaxStamp
    /\ tmpl' = [tmpl EXCEPT ![p].stamp = stamp + 1]
    /\ Write
    /\ UNCHANGED <<clock, faults, rows, acts, gear, note, req, del, cln>>

(* The same of a temporary activity, and what the form makes of its sets: some *)
(* or none.                                                                    *)
SaveCopy(t, some) ==
    /\ ActLive(t) /\ stamp < MaxStamp
    /\ acts' = [acts EXCEPT ![t].stamp = stamp + 1]
    /\ gear' = IF some THEN gear \cup {t} ELSE gear \ {t}
    /\ Write
    /\ UNCHANGED <<clock, faults, rows, tmpl, note, req, del, cln>>

-----------------------------------------------------------------------------
(* CleanBookings: t is taken once; batches of at most Batch bookings that    *)
(* started and ended before t are read and deleted one transaction at a      *)
(* time, until a batch is short.  A booking that cannot be deleted is noted  *)
(* (errs) and passed over.                                                   *)

BeginClean(c) ==
    /\ cln[c] = Idle
    /\ cln' = [cln EXCEPT ![c] = [op |-> "clean", pc |-> "find", cut |-> clock,
                                  batch |-> {}, temps |-> {}, full |-> FALSE,
                                  errs |-> FALSE, mark |-> stamp]]
    /\ UNCHANGED <<clock, stamp, faults, db, note, req, del>>

Past(t) == {k \in Tickets : PastAt(rows[k], t)}

(* Mutants: a full batch is taken for the last one; the loop has no exit. *)
LastBatchOffByOne(b) == Cardinality(b) <= Batch
NoLastBatch(b) == FALSE

(* len(bk) < 10 *)
LastBatch(b) == Cardinality(b) < Batch

FindPast(c) ==
    /\ cln[c] # Idle /\ cln[c].pc = "find"
    /\ \E b \in SUBSET Past(cln[c].cut) :
        /\ Cardinality(b) <= Batch
        /\ b = Past(cln[c].cut) \/ Cardinality(b) = Batch
        /\ cln' = [cln EXCEPT ![c].pc = "delete", ![c].batch = b, ![c].mark = stamp,
                              ![c].temps = {t \in b : ActLive(t)},
                              ![c].full = ~LastBatch(b)]
    /\ UNCHANGED <<clock, stamp, faults, db, note, req, del>>

(* Booking.Delete, one transaction: the booking, and if the activity joined  *)
(* to it is temporary, the activity and its equipment sets.                  *)
DeleteBooking(c, t) ==
    /\ cln[c] # Idle /\ cln[c].pc = "delete" /\ t \in cln[c].batch
    /\ rows' = DropRows({t}, "cleaned")
    /\ acts' = DropActs({t} \cap cln[c].temps)
    /\ gear' = gear \ ({t} \cap cln[c].temps)
    /\ cln' = [cln EXCEPT ![c].batch = @ \ {t}]
    /\ UNCHANGED <<clock, stamp, faults, tmpl, note, req, del>>

DeleteFails(c, t) ==
    /\ cln[c] # Idle /\ cln[c].pc = "delete" /\ t \in cln[c].batch
    /\ faults < MaxFaults /\ faults' = faults + 1
    /\ cln' = [cln EXCEPT ![c].batch = @ \ {t}, ![c].errs = TRUE]
    /\ UNCHANGED <<clock, stamp, db, note, req, del>>

NextBatch(c) ==
    /\ cln[c] # Idle /\ cln[c].pc = "delete" /\ cln[c].batch = {} /\ cln[c].full
    /\ cln' = [cln EXCEPT ![c].pc = "find"]
    /\ UNCHANGED <<clock, stamp, faults, db, note, req, del>>

EndClean(c) ==
    /\ cln[c] # Idle /\ cln[c].pc = "delete" /\ cln[c].batch = {} /\ ~cln[c].full
    /\ cln' = [cln EXCEPT ![c] = Idle]
    /\ UNCHANGED <<clock, stamp, faults, db, note, req, del>>

-----------------------------------------------------------------------------
(* The environment. *)

Tick ==
    /\ clock < MaxTime /\ clock' = clock + 1
    /\ UNCHANGED <<stamp, faults, db, note, req, del, cln>>

(* A statement fails, internalError answers and the handler returns: the      *)
(* statement and its transaction have no effect.  At "push" it is the query   *)
(* for the technicians that fails.                                            *)
Fail ==
    /\ faults < MaxFaults /\ faults' = faults + 1
    /\ \/ \E h \in Handlers : /\ req[h] # Idle /\ ~At(h, "status", "push")
                             /\ Finish(h) /\ UNCHANGED <<del, cln>>
       \/ \E d \in Deleters : /\ del[d] # Idle
                             /\ del' = [del EXCEPT ![d] = Idle] /\ UNCHANGED <<req, cln>>
       \/ \E c \in Cleaners : /\ cln[c] # Idle /\ cln[c].pc = "find"
                             /\ cln' = [cln EXCEPT ![c] = Idle] /\ UNCHANGED <<req, del>>
    /\ UNCHANGED <<clock, stamp, db, note>>

(* The server dies and is started again: the database is all that is left. *)
Crash ==
    /\ faults < MaxFaults /\ faults' = faults + 1
    /\ req' = [h \in Handlers |-> Idle]
    /\ del' = [d \in Deleters |-> Idle]
    /\ cln' = [c \in Cleaners |-> Idle]
    /\ note' = NoNote
    /\ UNCHANGED <<clock, stamp, db>>

-----------------------------------------------------------------------------
Arrival(h) ==
    \E t \in Tickets :
        \/ \E p \in Activities, u \in Users : BeginSubmit(h, t, p, u)
        \/ \E status \in Statuses : BeginStatus(h, t, status)
        \/ \E u \in Users, slot \in Slots :
              \/ \E adds \in BOOLEAN : BeginAmend(h, u, t, slot, adds)
              \/ BeginPostpone(h, u, t, slot)
        \/ \E u \in Users : BeginCancel(h, u, t)

Progress(h) ==
    \/ Clone(h) \/ (\E slot \in Slots : NewBooking(h, slot))
    \/ WriteStatus(h) \/ TellOwner(h)
    \/ WriteAmend(h, "amend") \/ WriteAmend(h, "postpone")
    \/ WriteCancel(h) \/ TellTechnicians(h)

DeleteStep(d) == FindCopies(d) \/ CommitDelete(d)

CleanStep(c) ==
    \/ FindPast(c) \/ NextBatch(c) \/ EndClean(c)
    \/ \E t \in Tickets : DeleteBooking(c, t) \/ DeleteFails(c, t)

Next ==
    \/ \E h \in Handlers : Arrival(h) \/ Progress(h)
    \/ \E p \in Templates \cap Edited : SaveTemplate(p)
    \/ \E t \in Tickets \cap Edited, some \in BOOLEAN : SaveCopy(t, some)
    \/ \E d \in Deleters : DeleteStep(d) \/ \E p \in Activities : BeginDelete(d, p)
    \/ \E c \in Cleaners : BeginClean(c) \/ CleanStep(c)
    \/ Tick \/ Fail \/ Crash

Spec == Init /\ [][Next]_vars

(* A goroutine that has begun runs on; nothing makes a user send a request. *)
Fairness ==
    /\ \A h \in Handlers : WF_vars(Progress(h))
    /\ \A d \in Deleters : WF_vars(DeleteStep(d))
    /\ \A c \in Cleaners : WF_vars(CleanStep(c))

FairSpec == Spec /\ Fairness

-----------------------------------------------------------------------------
(* Safety. *)

(* A temporary activity outlives its booking only when the owner cancelled it: *)
(* cleaning and the deletion of its template take booking and activity          *)
(* together (Booking.Delete, handleActivityDelete), whatever ran in between.    *)
ActivityGoesWithBooking ==
    \A t \in Tickets : rows[t].state \in {"cleaned", "cascaded"} => ~ActLive(t)

(* Technicians who were told of a cancellation will not find the booking on     *)
(* their list: nothing a request still in flight writes brings it back.         *)
CancelledIsGone ==
    note.to = "technicians" /\ note.says = "cancel" => ~Live(rows[note.t])

(* Deleting the activity a booking was copied from, or cleaning, never takes    *)
(* the temporary activity away and leaves the booking: only the request to      *)
(* delete that very activity does, which handleActivityDelete does not refuse.  *)
(* And no deletion of an activity leaves its equipment requisitioned.           *)
ActivityNotPulled ==
    [][\A t \in Tickets : ActLive(t) /\ ~ActLive(t)' =>
          /\ t \notin gear'
          /\ Live(rows[t])' =>
                \E d \in Deleters : del[d] # Idle /\ del'[d] = Idle /\ del[d].from = t]_vars

(* A deleted booking is never written again, though requests that read it       *)
(* before it was deleted still hold a copy (amend or postpone against cancel).  *)
DeletedIsFinal ==
    [][\A t \in Tickets : rows[t].state \in Gone => rows'[t] = rows[t]]_vars

(* A technician's status change lands only on the booking she was looking at:   *)
(* between reading it and the update that hits nobody has written it.           *)
StatusOnBookingSeen ==
    [][\A h \in Handlers : At(h, "status", "write") /\ At(h, "status", "push")' =>
          LET r == req[h] IN rows'[r.t] # rows[r.t] => rows[r.t] = r.bk]_vars

(* CleanBookings deletes a booking only if it was over when the run began, or   *)
(* it was rewritten after its batch was read.                                   *)
CleansOnlyPast ==
    [][\A c \in Cleaners, t \in Tickets :
          cln[c] # Idle /\ Live(rows[t]) /\ rows'[t].state = "cleaned"
                       /\ cln'[c] # cln[c] =>
              \/ rows[t].start < cln[c].cut /\ rows[t].end < cln[c].cut
              \/ rows[t].stamp > cln[c].mark]_vars

(* When a run of CleanBookings ends and no deletion failed, no booking that was *)
(* over when it began is left, save those written since the last batch was read.*)
CleanedAll ==
    [][\A c \in Cleaners : cln[c] # Idle /\ cln'[c] = Idle /\ faults' = faults =>
          \/ cln[c].errs
          \/ \A t \in Past(cln[c].cut) : rows[t].stamp > cln[c].mark]_vars

(* Liveness: a run of CleanBookings ends, if SQL errors do not go on for ever.  *)
CleanEnds == \A c \in Cleaners : cln[c] # Idle ~> cln[c] = Idle

-----------------------------------------------------------------------------
(* What is promised of a booking, seen alone: BookingLife.                      *)

StatusOf(row) == IF row = NoRow THEN "none" ELSE IF Live(row) THEN row.status ELSE "gone"
OwnerOf(row) == IF row = NoRow THEN "nobody" ELSE row.owner

statuses == [t \in Tickets |-> StatusOf(rows[t])]
owners == [t \in Tickets |-> OwnerOf(rows[t])]

Life == INSTANCE BookingLife WITH status <- statuses, owner <- owners

(* The table implements it whatever requests, deletions, cleaning and crashes   *)
(* do to it: a booking starts Pending, keeps its owner, and once gone is gone.   *)
ImplementsLife == Life!Spec

-----------------------------------------------------------------------------
(* What the documentation says and the code does not do.                       *)

(* book.go:550-552: "Amendments may be submited up to the deadline or when they *)
(* are processed".  handleBookDoingAmend does not ask MayAmend.                 *)
AmendedInTime ==
    [][\A h \in Handlers : At(h, "amend", "write") /\ At(h, "amend", "push")' =>
          LET t == req[h].t IN Live(rows[t]) => MayAmend(rows[t], clock)]_vars

(* book.go:817: "It has been automatically re-marked as In Progress".  If the   *)
(* booking was Pending when it was read, a Ready one stays Ready.               *)
PostponedIsReopened ==
    [][\A h \in Handlers : At(h, "postpone", "write") /\ At(h, "postpone", "push")' =>
          ~(rows'[req[h].t].state = "live" /\ rows'[req[h].t].status = "Ready")]_vars
=============================================================================
