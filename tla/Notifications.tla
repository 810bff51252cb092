--------------------------- MODULE Notifications ---------------------------
(***************************************************************************)
(* Notifications on their way to a user: the store of bounded queues, the  *)
(* /api/dashboard handler that empties them and the page that polls it.    *)
(*                                                                         *)
(* PushUser and PopUser each hold the store's lock throughout, so each is  *)
(* one step; the handler pops one notification at a time, and other polls, *)
(* pushes and restarts come in between.  A notification is the number of   *)
(* its push, per user.                                                     *)
(***************************************************************************)
EXTENDS Naturals, Sequences, FiniteSets

CONSTANTS
    Users,
    Tabs,      \* open pages (dashboard.js)
    UserOf,    \* the user signed in on each
    Polls,     \* requests of /api/dashboard in flight
    MaxQueue,  \* maxQueueLength, 15
    MaxPops,   \* notifications per answer, 5
    MaxShown,  \* max_notifications, 5
    MaxSent,   \* bound: pushes per user
    MaxFaults  \* bound: lost answers and restarts

ASSUME NotificationsAssumption ==
    /\ UserOf \in [Tabs -> Users]
    /\ MaxQueue \in Nat \ {0} /\ MaxPops \in Nat \ {0} /\ MaxShown \in Nat \ {0}
    /\ MaxSent \in Nat /\ MaxFaults \in Nat

VARIABLES
    store,    \* the map from users to queues
    sent,     \* pushes for each user so far
    last,     \* the notification handed out last
    handed,   \* how many were handed out,
    dropped,  \* and how many were not taken by a full queue or died with the server
    poll,     \* the polls in flight
    shown,    \* the notifications on each page
    faults

vars == <<store, sent, last, handed, dropped, poll, shown, faults>>

NoQueue == [none |-> TRUE]

Queue == [q: {q \in Seq(Nat) : Len(q) <= MaxQueue}]

Polling == [tab: Tabs, pc: {"pop", "reply"}, got: SUBSET Nat]
Idle == [pc |-> "idle"]

TypeOK ==
    /\ store \in [Users -> Queue \cup {NoQueue}]
    /\ sent \in [Users -> Nat] /\ last \in [Users -> Nat]
    /\ handed \in [Users -> Nat] /\ dropped \in [Users -> Nat]
    /\ poll \in [Polls -> Polling \cup {Idle}]
    /\ shown \in [Tabs -> SUBSET Nat]
    /\ faults \in Nat

Init ==
    /\ store = [u \in Users |-> NoQueue]
    /\ sent = [u \in Users |-> 0] /\ last = [u \in Users |-> 0]
    /\ handed = [u \in Users |-> 0] /\ dropped = [u \in Users |-> 0]
    /\ poll = [p \in Polls |-> Idle]
    /\ shown = [w \in Tabs |-> {}]
    /\ faults = 0

Waiting(u) == IF store[u] = NoQueue THEN <<>> ELSE store[u].q

-----------------------------------------------------------------------------
(* The store. *)

(* Mutants: the bound is off by one; new entries go to the head. *)
EnqueueOneMore(q, n) == IF Len(q) > MaxQueue THEN q ELSE Append(q, n)
EnqueueFront(q, n) == IF Len(q) >= MaxQueue THEN q ELSE <<n>> \o q

(* notificationQueue.Push: a full queue stays as it is. *)
Enqueue(q, n) == IF Len(q) >= MaxQueue THEN q ELSE Append(q, n)

(* Mutants: the head is copied out and left in; every Pop clears the queue. *)
Keep(q) == q
ClearAlways(q) == <<>>

(* What Pop leaves: clear() when the last one is taken is the same empty queue. *)
Dequeue(q) == Tail(q)

PushUser(u) ==
    /\ sent[u] < MaxSent
    /\ LET n == sent[u] + 1
           q == Enqueue(Waiting(u), n) IN
        /\ store' = [store EXCEPT ![u] = [q |-> q]]
        /\ dropped' = [dropped EXCEPT ![u] = IF Len(Waiting(u)) >= MaxQueue THEN @ + 1 ELSE @]
        /\ sent' = [sent EXCEPT ![u] = n]
    /\ UNCHANGED <<last, handed, poll, shown, faults>>

-----------------------------------------------------------------------------
(* dashboard.js: the page asks again every minute unless it shows enough; an *)
(* earlier request still unanswered does not stop it.                        *)

(* A mutant: it stops one too early. *)
OneFewer(w) == Cardinality(shown[w]) < MaxShown - 1

ShowsFew(w) == Cardinality(shown[w]) < MaxShown

BeginPoll(p, w) ==
    /\ poll[p] = Idle /\ ShowsFew(w)
    /\ poll' = [poll EXCEPT ![p] = [tab |-> w, pc |-> "pop", got |-> {}]]
    /\ UNCHANGED <<store, sent, last, handed, dropped, shown, faults>>

(* handleAPIDashboard, one turn of its loop: PopUser. *)
PopUser(p) ==
    /\ poll[p].pc = "pop" /\ Cardinality(poll[p].got) < MaxPops
    /\ LET u == UserOf[poll[p].tab] IN
        /\ Waiting(u) # <<>>
        /\ store' = [store EXCEPT ![u].q = Dequeue(@)]
        /\ poll' = [poll EXCEPT ![p].got = @ \cup {Head(Waiting(u))}]
        /\ last' = [last EXCEPT ![u] = Head(Waiting(u))]
        /\ handed' = [handed EXCEPT ![u] = @ + 1]
    /\ UNCHANGED <<sent, dropped, shown, faults>>

(* ErrNoSuchUser or ErrEmptyQueue, or five are popped. *)
EndPops(p) ==
    /\ poll[p].pc = "pop"
    /\ Cardinality(poll[p].got) >= MaxPops \/ Waiting(UserOf[poll[p].tab]) = <<>>
    /\ poll' = [poll EXCEPT ![p].pc = "reply"]
    /\ UNCHANGED <<store, sent, last, handed, dropped, shown, faults>>

(* The answer arrives: every notification in it is put on the page. *)
Show(p) ==
    /\ poll[p].pc = "reply"
    /\ shown' = [shown EXCEPT ![poll[p].tab] = @ \cup poll[p].got]
    /\ poll' = [poll EXCEPT ![p] = Idle]
    /\ UNCHANGED <<store, sent, last, handed, dropped, faults>>

(* The answer does not arrive; what was popped for it is nowhere any more. *)
LoseReply(p) ==
    /\ poll[p] # Idle /\ faults < MaxFaults /\ faults' = faults + 1
    /\ poll' = [poll EXCEPT ![p] = Idle]
    /\ UNCHANGED <<store, sent, last, handed, dropped, shown>>

(* ondismissed, and the page loaded anew *)
Dismiss(w, n) ==
    /\ n \in shown[w]
    /\ shown' = [shown EXCEPT ![w] = @ \ {n}]
    /\ UNCHANGED <<store, sent, last, handed, dropped, poll, faults>>

Reload(w) ==
    /\ shown[w] # {}
    /\ shown' = [shown EXCEPT ![w] = {}]
    /\ UNCHANGED <<store, sent, last, handed, dropped, poll, faults>>

(* The store is memory of the server. *)
Restart ==
    /\ faults < MaxFaults /\ faults' = faults + 1
    /\ store' = [u \in Users |-> NoQueue]
    /\ dropped' = [u \in Users |-> dropped[u] + Len(Waiting(u))]
    /\ poll' = [p \in Polls |-> Idle]
    /\ UNCHANGED <<sent, last, handed, shown>>

-----------------------------------------------------------------------------
Answer(p) == PopUser(p) \/ EndPops(p) \/ Show(p)

Next ==
    \/ \E u \in Users : PushUser(u)
    \/ \E p \in Polls : Answer(p) \/ LoseReply(p) \/ \E w \in Tabs : BeginPoll(p, w)
    \/ \E w \in Tabs : Reload(w) \/ \E n \in shown[w] : Dismiss(w, n)
    \/ Restart

Spec == Init /\ [][Next]_vars

(* setInterval polls while the page is open, and a handler that has begun    *)
(* goes on; nobody has to dismiss a notification.                            *)
Fairness ==
    /\ \A p \in Polls : WF_vars(Answer(p))
    /\ \A w \in Tabs : WF_vars(\E p \in Polls : BeginPoll(p, w))

FairSpec == Spec /\ Fairness

-----------------------------------------------------------------------------
(* Every queue holds its notifications in the order of their pushes, and all  *)
(* of them were pushed after the last one handed out (PushUser and PopUser on *)
(* one queue from any number of requests).                                    *)
Ascending(q) == \A i, j \in DOMAIN q : i < j => q[i] < q[j]

QueueInOrder ==
    \A u \in Users :
        LET q == Waiting(u) IN
        /\ Ascending(q)
        /\ \A i \in DOMAIN q : last[u] < q[i] /\ q[i] <= sent[u]

(* Every push is accounted for: handed out, waiting, or refused by a full     *)
(* queue (PushUser drops it in silence).                                      *)
Accounted ==
    \A u \in Users : handed[u] + Len(Waiting(u)) + dropped[u] = sent[u]

(* Two pages of one user never get the same notification: not in two answers, *)
(* not on two pages, though their polls pop from the queue in turns.          *)
Pending(p, u) == IF poll[p] # Idle /\ UserOf[poll[p].tab] = u THEN poll[p].got ELSE {}

ShownOnce ==
    \A u \in Users :
        /\ \A p, r \in Polls : p # r => Pending(p, u) \cap Pending(r, u) = {}
        /\ \A v, w \in Tabs : UserOf[v] = u /\ UserOf[w] = u =>
              /\ v # w => shown[v] \cap shown[w] = {}
              /\ \A p \in Polls : Pending(p, u) \cap shown[w] = {}

(* The store implements ordered delivery, at most once.                       *)
Promise == INSTANCE Delivery

ImplementsDelivery == Promise!Spec

(* Liveness: notifications that wait for a user who has a page open are taken *)
(* by its polls, until none waits or some page of his shows enough of them.   *)
QueueDrains ==
    \A w \in Tabs :
        Waiting(UserOf[w]) # <<>> ~>
            \/ Waiting(UserOf[w]) = <<>>
            \/ Cardinality(shown[w]) >= MaxShown
============================================================================
