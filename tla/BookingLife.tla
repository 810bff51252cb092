---------------------------- MODULE BookingLife ----------------------------
(***************************************************************************)
(* What a booking promises the teacher who made it and the technicians who *)
(* prepare it: it starts unread, it keeps its ticket number and its owner, *)
(* its status moves while it lasts, and once it is gone it is gone.        *)
(***************************************************************************)
CONSTANTS Tickets, Users

VARIABLES status, owner

vars == <<status, owner>>

Statuses == {"Pending", "Progress", "Ready", "Rejected"}

Init ==
    /\ status = [t \in Tickets |-> "none"]
    /\ owner = [t \in Tickets |-> "nobody"]

Book(t, u) ==
    /\ status[t] = "none"
    /\ status' = [status EXCEPT ![t] = "Pending"]
    /\ owner' = [owner EXCEPT ![t] = u]

Mark(t, s) ==
    /\ status[t] \in Statuses
    /\ status' = [status EXCEPT ![t] = s]
    /\ UNCHANGED owner

(* Several bookings go at once when the activity they came from is deleted. *)
Remove(ts) ==
    /\ \A t \in ts : status[t] \in Statuses
    /\ status' = [t \in Tickets |-> IF t \in ts THEN "gone" ELSE status[t]]
    /\ UNCHANGED owner

Next ==
    \/ \E t \in Tickets : \/ \E u \in Users : Book(t, u)
                          \/ \E s \in Statuses : Mark(t, s)
    \/ \E ts \in SUBSET Tickets : Remove(ts)

Spec == Init /\ [][Next]_vars
=============================================================================
