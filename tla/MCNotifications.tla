-------------------------- MODULE MCNotifications --------------------------
(* An instance of Notifications for TLC: two pages of one user. *)
EXTENDS Notifications

CONSTANT technician

OnePerson == [w \in Tabs |-> technician]
=============================================================================
