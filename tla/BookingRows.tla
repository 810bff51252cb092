---------------------------- MODULE BookingRows ----------------------------
(***************************************************************************)
(* The rows of the bookings table and the statements the server issues     *)
(* against one of them.  GORM decides what each statement really does:     *)
(*                                                                         *)
(*   Database.Updates(&bk)            writes the fields of bk that are not *)
(*                                    zero, to a row that is not deleted;  *)
(*   Model(&bk).Where(&bk).Update(..) takes every field read as the        *)
(*                                    condition, updated_at among them;    *)
(*   Database.Delete(&bk)             only sets deleted_at.                *)
(*                                                                         *)
(* A statement that matches no row is not an error: the callers look at    *)
(* res.Error alone, never at the number of rows affected.                  *)
(***************************************************************************)
EXTENDS Naturals

CONSTANTS
    Users,       \* user accounts (their IDs)
    AllBooking,  \* the accounts whose role grants CapAllBooking
    Slots        \* the times a form may ask for: records [start, end]

ASSUME BookingRowsAssumption ==
    /\ AllBooking \subseteq Users
    /\ Slots \subseteq [start: Nat, end: Nat]

Statuses == {"Pending", "Progress", "Ready", "Rejected"}

(* Which statement set deleted_at, a distinction the table does not keep:  *)
(* "cancelled" by the owner's Delete(&bk), "cleaned" by Booking.Delete,    *)
(* "cascaded" by the deletion of the activity it was copied from.          *)
Gone == {"cancelled", "cleaned", "cascaded"}

(* stamp is updated_at.  location and comments are not modelled: they are  *)
(* written and compared together with the times.                           *)
Row == [state: {"live"} \cup Gone, status: Statuses, start: Nat, end: Nat,
        owner: Users, stamp: Nat]

NoRow == [state |-> "none"]

Live(row) == row.state = "live"

(* A mutant: statuses counted from one, so that zero is none of them. *)
NewRowUnknown(u, slot, now) ==
    [state |-> "live", status |-> "Unknown", start |-> slot.start,
     end |-> slot.end, owner |-> u, stamp |-> now]

(* NewBooking: Status is left at its zero value. *)
NewRow(u, slot, now) ==
    [state |-> "live", status |-> "Pending", start |-> slot.start,
     end |-> slot.end, owner |-> u, stamp |-> now]

(* Mutants: Save instead of Updates, which writes deleted_at too; and Updates *)
(* without GORM's deleted_at IS NULL.                                        *)
SaveAll(row, bk, now) == [bk EXCEPT !.stamp = now]
UnscopedUpdates(row, bk, now) ==
    [row EXCEPT !.start = bk.start, !.end = bk.end, !.stamp = now,
                !.status = IF bk.status = "Pending" THEN @ ELSE bk.status]

(* Database.Updates(&bk): Pending is the zero status, so it is not written. *)
Updates(row, bk, now) ==
    IF Live(row)
    THEN [row EXCEPT !.start = bk.start, !.end = bk.end, !.stamp = now,
                     !.status = IF bk.status = "Pending" THEN @ ELSE bk.status]
    ELSE row

(* A mutant: the update names the booking by its ID alone. *)
MatchesId(row, bk) == Live(row)

(* Model(&bk).Where(&bk) matches the row only if nobody wrote it since bk   *)
(* was read.                                                                *)
Matches(row, bk) == Live(row) /\ row.stamp = bk.stamp

UpdateStatus(row, bk, status, now) ==
    IF Matches(row, bk) THEN [row EXCEPT !.status = status, !.stamp = now] ELSE row

SoftDelete(row, how) == IF Live(row) THEN [row EXCEPT !.state = how] ELSE row

(* A mutant: only the start is compared. *)
StartedAt(row, t) == Live(row) /\ row.start < t

(* The condition of CleanBookings. *)
PastAt(row, t) == Live(row) /\ row.start < t /\ row.end < t

(* Booking.MayAmend; one tick of the clock is the hour of the deadline. *)
MayAmend(row, now) ==
    row.status \in {"Pending", "Progress"} /\ row.start >= now + 1

(* The check of the three owner handlers before they write. *)
Permitted(u, bk) == bk.owner = u \/ u \in AllBooking
=============================================================================
