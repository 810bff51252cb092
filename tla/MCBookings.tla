---------------------------- MODULE MCBookings ----------------------------
(* Instances of Bookings for TLC. *)
EXTENDS Bookings, TLC

Slot(s, e) == [start |-> s, end |-> e]

(* Now and later; now, and an hour that begins now and lasts. *)
Now == {Slot(0, 0)}
NowOrLater == {Slot(0, 0), Slot(2, 2)}
ShortOrLong == {Slot(0, 0), Slot(0, 2)}

(* Handlers are interchangeable; used only where no liveness is checked. *)
AnyHandler == Permutations(Handlers)
============================================================================
