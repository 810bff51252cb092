----------------------------- MODULE Delivery -----------------------------
(***************************************************************************)
(* What the notification store promises each user: the notifications       *)
(* pushed for him are numbered in the order of the pushes; those he is     *)
(* handed come in that order and none comes twice.  Some may never come.   *)
(***************************************************************************)
EXTENDS Naturals

CONSTANT Users

VARIABLES
    sent,  \* notifications pushed for each user
    last,  \* the number of the last one handed out
    handed \* how many were handed out

vars == <<sent, last, handed>>

Init ==
    /\ sent = [u \in Users |-> 0]
    /\ last = [u \in Users |-> 0]
    /\ handed = [u \in Users |-> 0]

Push(u) ==
    /\ sent' = [sent EXCEPT ![u] = @ + 1]
    /\ UNCHANGED <<last, handed>>

HandOut(u) ==
    /\ \E n \in (last[u] + 1) .. sent[u] : last' = [last EXCEPT ![u] = n]
    /\ handed' = [handed EXCEPT ![u] = @ + 1]
    /\ UNCHANGED sent

Next == \E u \in Users : Push(u) \/ HandOut(u)

Spec == Init /\ [][Next]_vars
============================================================================
