------------------------ MODULE NotificationsProofs ------------------------
(***************************************************************************)
(* Proofs about Notifications, for any number of users, pages and polls,   *)
(* and queues of any length.                                               *)
(***************************************************************************)
EXTENDS Notifications, TLAPS

Bounded == {q \in Seq(Nat) : Len(q) <= MaxQueue}

LEMMA WaitingType ==
    ASSUME TypeOK, NEW u \in Users
    PROVE  Waiting(u) \in Bounded
  <1>1. CASE store[u] = NoQueue
    BY <1>1, NotificationsAssumption DEF Waiting, Bounded
  <1>2. CASE store[u] # NoQueue
    BY <1>2 DEF TypeOK, Waiting, Queue, Bounded
  <1> QED BY <1>1, <1>2

(* What a push leaves in a queue. *)
LEMMA EnqueueFacts ==
    ASSUME NEW q \in Bounded, NEW n \in Nat
    PROVE  /\ Enqueue(q, n) \in Bounded
           /\ Len(q) >= MaxQueue => Enqueue(q, n) = q
           /\ Len(q) < MaxQueue => /\ Len(Enqueue(q, n)) = Len(q) + 1
                                   /\ Enqueue(q, n)[Len(q) + 1] = n
                                   /\ \A i \in 1 .. Len(q) : Enqueue(q, n)[i] = q[i]
  BY NotificationsAssumption DEF Bounded, Enqueue

(* What a pop takes and leaves. *)
LEMMA DequeueFacts ==
    ASSUME NEW q \in Bounded, q # <<>>
    PROVE  /\ Head(q) \in Nat /\ Head(q) = q[1] /\ 1 \in DOMAIN q
           /\ Dequeue(q) \in Bounded
           /\ Len(Dequeue(q)) + 1 = Len(q)
           /\ \A i \in 1 .. Len(Dequeue(q)) : Dequeue(q)[i] = q[i + 1]
  BY NotificationsAssumption DEF Bounded, Dequeue

(* The effect of the actions on one queue. *)
LEMMA PushEffect ==
    ASSUME TypeOK, NEW u \in Users, PushUser(u)
    PROVE  /\ Waiting(u)' = Enqueue(Waiting(u), sent[u] + 1)
           /\ \A v \in Users : v # u => Waiting(v)' = Waiting(v)
           /\ store' \in [Users -> Queue \cup {NoQueue}]
  <1> DEFINE q == Enqueue(Waiting(u), sent[u] + 1)
  <1>1. Waiting(u) \in Bounded /\ sent[u] + 1 \in Nat BY WaitingType DEF TypeOK
  <1>2. q \in Bounded BY <1>1, EnqueueFacts
  <1>3. store' = [store EXCEPT ![u] = [q |-> q]] BY DEF PushUser
  <1> HIDE DEF q
  <1>4. [q |-> q] \in Queue BY <1>2 DEF Queue, Bounded
  <1>5. [q |-> q] # NoQueue
    <2>1. "q" \in DOMAIN [q |-> q] /\ "q" \notin DOMAIN NoQueue BY DEF NoQueue
    <2> QED BY <2>1
  <1>6. Waiting(u)' = q BY <1>3, <1>5 DEF Waiting, TypeOK
  <1> QED BY <1>3, <1>4, <1>6 DEF Waiting, TypeOK, q

LEMMA PollerType ==
    ASSUME TypeOK, NEW p \in Polls, PopUser(p)
    PROVE  poll[p] \in Polling /\ UserOf[poll[p].tab] \in Users
  <1>1. poll[p] \in Polling BY DEF PopUser, TypeOK, Idle
  <1> QED BY <1>1, NotificationsAssumption DEF Polling

LEMMA PopEffect ==
    ASSUME TypeOK, NEW p \in Polls, PopUser(p),
           NEW u \in Users, u = UserOf[poll[p].tab]
    PROVE  /\ Waiting(u) \in Bounded /\ Waiting(u) # <<>>
           /\ Waiting(u)' = Dequeue(Waiting(u))
           /\ \A v \in Users : v # u => Waiting(v)' = Waiting(v)
           /\ store' \in [Users -> Queue \cup {NoQueue}]
  <1>1. Waiting(u) \in Bounded /\ Waiting(u) # <<>> BY WaitingType DEF PopUser
  <1>2. store' = [store EXCEPT ![u].q = Dequeue(@)] BY DEF PopUser
  <1>3. store[u] \in Queue /\ store[u] # NoQueue /\ Waiting(u) = store[u].q
    BY <1>1 DEF TypeOK, Waiting
  <1>4. Dequeue(Waiting(u)) \in Bounded BY <1>1, DequeueFacts
  <1>5. store'[u] = [q |-> Dequeue(Waiting(u))]
    BY <1>2, <1>3 DEF TypeOK, Queue
  <1>6. store'[u] \in Queue BY <1>4, <1>5 DEF Queue, Bounded
  <1>7. store'[u] # NoQueue
    <2>1. "q" \in DOMAIN store'[u] /\ "q" \notin DOMAIN NoQueue BY <1>5 DEF NoQueue
    <2> QED BY <2>1
  <1>8. Waiting(u)' = Dequeue(Waiting(u))
    <2>1. store'[u].q = Dequeue(Waiting(u)) BY <1>5
    <2> QED BY <1>7, <2>1 DEF Waiting
  <1>9. \A v \in Users : v # u => store'[v] = store[v] BY <1>2 DEF TypeOK
  <1>10. store' \in [Users -> Queue \cup {NoQueue}]
    BY <1>2, <1>6, <1>9 DEF TypeOK
  <1> QED BY <1>1, <1>8, <1>9, <1>10 DEF Waiting

LEMMA RestartEffect ==
    ASSUME TypeOK, Restart
    PROVE  /\ \A u \in Users : Waiting(u)' = <<>>
           /\ store' \in [Users -> Queue \cup {NoQueue}]
  BY DEF Restart, Waiting

(* Everything else leaves the queues and what is counted of them alone. *)
queues == <<store, sent, last, handed, dropped>>

LEMMA QueueSteps ==
    ASSUME [Next]_vars
    PROVE  \/ \E u \in Users : PushUser(u)
           \/ \E p \in Polls : PopUser(p)
           \/ Restart
           \/ UNCHANGED queues
  BY DEF Next, Answer, EndPops, Show, LoseReply, BeginPoll, Reload, Dismiss, vars, queues

-----------------------------------------------------------------------------
LEMMA InitType == Init => TypeOK
  BY DEF Init, TypeOK

LEMMA StepType == TypeOK /\ [Next]_vars => TypeOK'
  <1> SUFFICES ASSUME TypeOK, [Next]_vars PROVE TypeOK' OBVIOUS
  <1>1. CASE UNCHANGED vars BY <1>1 DEF vars, TypeOK
  <1>2. ASSUME NEW u \in Users, PushUser(u) PROVE TypeOK'
    <2>1. store' \in [Users -> Queue \cup {NoQueue}] BY <1>2, PushEffect
    <2>2. sent' \in [Users -> Nat] /\ dropped' \in [Users -> Nat] BY <1>2 DEF PushUser, TypeOK
    <2> QED BY <1>2, <2>1, <2>2 DEF PushUser, TypeOK
  <1>3. ASSUME NEW p \in Polls, PopUser(p) PROVE TypeOK'
    <2> DEFINE u == UserOf[poll[p].tab]
    <2>1. poll[p] \in Polling /\ u \in Users /\ Head(Waiting(u)) \in Nat
          /\ store' \in [Users -> Queue \cup {NoQueue}]
      BY <1>3, PollerType, PopEffect, DequeueFacts
    <2>2. poll' \in [Polls -> Polling \cup {Idle}]
      <3>1. [poll[p] EXCEPT !.got = poll[p].got \cup {Head(Waiting(u))}] \in Polling
        BY <2>1 DEF Polling
      <3>2. poll' = [poll EXCEPT ![p] = [poll[p] EXCEPT !.got = poll[p].got \cup {Head(Waiting(u))}]]
        BY <1>3 DEF PopUser, TypeOK
      <3> QED BY <3>1, <3>2 DEF TypeOK
    <2>3. last' \in [Users -> Nat] /\ handed' \in [Users -> Nat]
      BY <1>3, <2>1 DEF PopUser, TypeOK
    <2> QED BY <1>3, <2>1, <2>2, <2>3 DEF PopUser, TypeOK
  <1>4. ASSUME NEW p \in Polls, EndPops(p) PROVE TypeOK'
    <2>1. poll[p] \in Polling BY <1>4 DEF EndPops, TypeOK, Idle
    <2>2. [poll[p] EXCEPT !.pc = "reply"] \in Polling BY <2>1 DEF Polling
    <2>3. poll' = [poll EXCEPT ![p] = [poll[p] EXCEPT !.pc = "reply"]]
      BY <1>4 DEF EndPops, TypeOK
    <2> QED BY <1>4, <2>2, <2>3 DEF EndPops, TypeOK
  <1>5. ASSUME NEW p \in Polls, Show(p) PROVE TypeOK'
    <2>1. poll[p] \in Polling BY <1>5 DEF Show, TypeOK, Idle
    <2> QED BY <1>5, <2>1 DEF Show, TypeOK, Polling
  <1>6. ASSUME NEW p \in Polls, LoseReply(p) PROVE TypeOK'
    BY <1>6 DEF LoseReply, TypeOK
  <1>7. ASSUME NEW p \in Polls, NEW w \in Tabs, BeginPoll(p, w) PROVE TypeOK'
    BY <1>7 DEF BeginPoll, TypeOK, Polling
  <1>8. ASSUME NEW w \in Tabs, Reload(w) \/ \E n \in shown[w] : Dismiss(w, n) PROVE TypeOK'
    BY <1>8 DEF Reload, Dismiss, TypeOK
  <1>9. CASE Restart
    <2>1. \A u \in Users : Len(Waiting(u)) \in Nat BY WaitingType DEF Bounded
    <2>2. dropped' \in [Users -> Nat] BY <1>9, <2>1 DEF Restart, TypeOK
    <2> QED BY <1>9, <2>2, RestartEffect DEF Restart, TypeOK
  <1> QED BY <1>1, <1>2, <1>3, <1>4, <1>5, <1>6, <1>7, <1>8, <1>9 DEF Next, Answer

(* The users' queues and counters have their types, every notification handed  *)
(* out is a number, and no queue is longer than its bound.                     *)
THEOREM TypeCorrect == Spec => []TypeOK
  BY InitType, StepType, PTL DEF Spec

-----------------------------------------------------------------------------
(* The queues.  What QueueInOrder says of one of them.                         *)
InOrder(q, from, to) ==
    Ascending(q) /\ \A i \in DOMAIN q : from < q[i] /\ q[i] <= to

LEMMA EnqueueInOrder ==
    ASSUME NEW q \in Bounded, NEW from \in Nat, NEW to \in Nat, InOrder(q, from, to),
           from <= to
    PROVE  InOrder(Enqueue(q, to + 1), from, to + 1)
  <1> DEFINE r == Enqueue(q, to + 1)
  <1>1. r \in Bounded /\ q \in Seq(Nat) BY EnqueueFacts DEF Bounded
  <1>2. CASE Len(q) >= MaxQueue
    <2>1. r = q BY <1>2, EnqueueFacts
    <2>2. \A i \in DOMAIN q : q[i] \in Nat BY <1>1
    <2> QED BY <2>1, <2>2 DEF InOrder
  <1>3. CASE Len(q) < MaxQueue
    <2>1. Len(r) = Len(q) + 1 /\ r[Len(q) + 1] = to + 1 /\ \A i \in 1 .. Len(q) : r[i] = q[i]
      <3>1. to + 1 \in Nat OBVIOUS
      <3> QED BY <1>3, <3>1, EnqueueFacts
    <2>2. Len(q) \in Nat /\ DOMAIN q = 1 .. Len(q) /\ DOMAIN r = 1 .. (Len(q) + 1)
      BY <1>1, <2>1 DEF Bounded
    <2>3. \A i \in 1 .. Len(q) : q[i] \in Nat /\ from < q[i] /\ q[i] <= to
      BY <1>1, <2>2 DEF InOrder
    <2>4. \A i, j \in 1 .. Len(q) : i < j => q[i] < q[j] BY <2>2 DEF InOrder, Ascending
    <2> HIDE DEF r
    <2>5. Ascending(r)
      <3> SUFFICES ASSUME NEW i \in 1 .. (Len(q) + 1), NEW j \in 1 .. (Len(q) + 1), i < j
                   PROVE  r[i] < r[j]
        BY <2>2 DEF Ascending
      <3>1. i \in 1 .. Len(q) BY <2>2
      <3>2. CASE j = Len(q) + 1 BY <2>1, <2>3, <3>1, <3>2
      <3>3. CASE j # Len(q) + 1
        <4>1. j \in 1 .. Len(q) BY <2>2, <3>3
        <4> QED BY <2>1, <2>4, <3>1, <4>1
      <3> QED BY <3>2, <3>3
    <2>6. \A i \in DOMAIN r : from < r[i] /\ r[i] <= to + 1
      <3> SUFFICES ASSUME NEW i \in 1 .. (Len(q) + 1) PROVE from < r[i] /\ r[i] <= to + 1
        BY <2>2
      <3>1. CASE i = Len(q) + 1 BY <2>1, <3>1
      <3>2. CASE i # Len(q) + 1
        <4>1. i \in 1 .. Len(q) BY <2>2, <3>2
        <4> QED BY <2>1, <2>3, <4>1
      <3> QED BY <3>1, <3>2
    <2> QED BY <2>5, <2>6 DEF InOrder, r
  <1>4. Len(q) \in Nat BY <1>1
  <1> QED BY <1>2, <1>3, <1>4, NotificationsAssumption

LEMMA DequeueInOrder ==
    ASSUME NEW q \in Bounded, q # <<>>, NEW from \in Nat, NEW to \in Nat, InOrder(q, from, to)
    PROVE  /\ InOrder(Dequeue(q), Head(q), to)
           /\ from < Head(q) /\ Head(q) <= to
  <1> DEFINE r == Dequeue(q)
  <1>1. /\ r \in Seq(Nat) /\ q \in Seq(Nat) /\ Head(q) = q[1] /\ 1 \in DOMAIN q
        /\ Len(r) + 1 = Len(q) /\ \A i \in 1 .. Len(r) : r[i] = q[i + 1]
    BY DequeueFacts DEF Bounded
  <1> HIDE DEF r
  <1>2. Len(r) \in Nat /\ DOMAIN q = 1 .. (Len(r) + 1) /\ DOMAIN r = 1 .. Len(r) BY <1>1
  <1>3. \A i, j \in 1 .. (Len(r) + 1) : i < j => q[i] < q[j] BY <1>2 DEF InOrder, Ascending
  <1>4. \A i \in 1 .. Len(r) : i + 1 \in 1 .. (Len(r) + 1) /\ 1 < i + 1 BY <1>2
  <1>5. Ascending(r)
    <2> SUFFICES ASSUME NEW i \in 1 .. Len(r), NEW j \in 1 .. Len(r), i < j PROVE r[i] < r[j]
      BY <1>2 DEF Ascending
    <2>1. i + 1 < j + 1 OBVIOUS
    <2> QED BY <1>1, <1>3, <1>4, <2>1
  <1>6. \A i \in DOMAIN r : Head(q) < r[i] /\ r[i] <= to
    <2> SUFFICES ASSUME NEW i \in 1 .. Len(r) PROVE Head(q) < r[i] /\ r[i] <= to
      BY <1>2
    <2>1. 1 \in 1 .. (Len(r) + 1) BY <1>2
    <2> QED BY <1>1, <1>2, <1>3, <1>4, <2>1 DEF InOrder
  <1>7. from < Head(q) /\ Head(q) <= to BY <1>1 DEF InOrder
  <1> QED BY <1>5, <1>6, <1>7 DEF InOrder, r

(* Nothing is handed out before it was pushed. *)
LastSent == \A u \in Users : last[u] <= sent[u]

Queues == QueueInOrder /\ LastSent

LEMMA QueuesAre ==
    Queues <=> \A u \in Users : InOrder(Waiting(u), last[u], sent[u]) /\ last[u] <= sent[u]
  BY DEF Queues, LastSent, QueueInOrder, InOrder

LEMMA StepQueues == TypeOK /\ Queues /\ [Next]_vars => Queues'
  <1> SUFFICES ASSUME TypeOK, Queues, [Next]_vars, NEW v \in Users
               PROVE  InOrder(Waiting(v), last[v], sent[v])' /\ last'[v] <= sent'[v]
    BY DEF Queues, LastSent, QueueInOrder, InOrder
  <1> DEFINE Goal == InOrder(Waiting(v)', last'[v], sent'[v]) /\ last'[v] <= sent'[v]
  <1>0. InOrder(Waiting(v), last[v], sent[v]) /\ last[v] <= sent[v] BY QueuesAre
  <1>t. last[v] \in Nat /\ sent[v] \in Nat /\ Waiting(v) \in Bounded
    BY WaitingType DEF TypeOK
  <1>1. ASSUME NEW u \in Users, PushUser(u) PROVE Goal
    <2>1. last' = last /\ sent' = [sent EXCEPT ![u] = sent[u] + 1] BY <1>1 DEF PushUser
    <2>2. CASE u = v
      <3>1. Waiting(v)' = Enqueue(Waiting(v), sent[v] + 1) BY <1>1, <2>2, PushEffect
      <3>2. sent'[v] = sent[v] + 1 BY <2>1, <2>2 DEF TypeOK
      <3>3. InOrder(Enqueue(Waiting(v), sent[v] + 1), last[v], sent[v] + 1)
        BY <1>0, <1>t, EnqueueInOrder
      <3> QED BY <1>0, <1>t, <2>1, <3>1, <3>2, <3>3
    <2>3. CASE u # v
      <3>1. Waiting(v)' = Waiting(v) /\ sent'[v] = sent[v]
        BY <1>1, <2>1, <2>3, PushEffect DEF TypeOK
      <3> QED BY <1>0, <2>1, <3>1
    <2> QED BY <2>2, <2>3
  <1>2. ASSUME NEW p \in Polls, PopUser(p) PROVE Goal
    <2>1. PICK u \in Users : u = UserOf[poll[p].tab] BY <1>2, PollerType
    <2>2. sent' = sent /\ last' = [last EXCEPT ![u] = Head(Waiting(u))]
      BY <1>2, <2>1 DEF PopUser
    <2>3. CASE u = v
      <3>1. Waiting(v) # <<>> /\ Waiting(v)' = Dequeue(Waiting(v))
        BY <1>2, <2>1, <2>3, PopEffect
      <3>2. last'[v] = Head(Waiting(v)) BY <2>2, <2>3 DEF TypeOK
      <3>3. InOrder(Dequeue(Waiting(v)), Head(Waiting(v)), sent[v]) /\ Head(Waiting(v)) <= sent[v]
        BY <1>0, <1>t, <3>1, DequeueInOrder
      <3> QED BY <2>2, <3>1, <3>2, <3>3
    <2>4. CASE u # v
      <3>1. Waiting(v)' = Waiting(v) /\ last'[v] = last[v]
        BY <1>2, <2>1, <2>2, <2>4, PopEffect DEF TypeOK
      <3> QED BY <1>0, <2>2, <3>1
    <2> QED BY <2>3, <2>4
  <1>3. CASE Restart
    <2>1. Waiting(v)' = <<>> /\ last' = last /\ sent' = sent
      BY <1>3, RestartEffect DEF Restart
    <2>2. InOrder(<<>>, last[v], sent[v]) BY DEF InOrder, Ascending
    <2> QED BY <1>0, <2>1, <2>2
  <1>4. CASE UNCHANGED queues
    BY <1>0, <1>4 DEF queues, Waiting
  <1>5. Goal BY <1>1, <1>2, <1>3, <1>4, QueueSteps
  <1> QED BY <1>5 DEF InOrder, Ascending

LEMMA InitQueues == Init => Queues
  BY DEF Init, Queues, LastSent, QueueInOrder, Ascending, Waiting

(* Each queue is in the order of the pushes, and behind what was handed out.   *)
THEOREM QueuesInOrder == Spec => []QueueInOrder
  <1>1. Queues => QueueInOrder BY DEF Queues
  <1> QED BY <1>1, InitQueues, StepQueues, TypeCorrect, PTL DEF Spec

-----------------------------------------------------------------------------
(* Every push is handed out, waiting, or gone.                                 *)
LEMMA StepAccounted == TypeOK /\ Accounted /\ [Next]_vars => Accounted'
  <1> SUFFICES ASSUME TypeOK, Accounted, [Next]_vars, NEW v \in Users
               PROVE  handed'[v] + Len(Waiting(v)') + dropped'[v] = sent'[v]
    BY DEF Accounted
  <1> DEFINE Goal == handed'[v] + Len(Waiting(v)') + dropped'[v] = sent'[v]
  <1>0. handed[v] + Len(Waiting(v)) + dropped[v] = sent[v] BY DEF Accounted
  <1>t. /\ handed[v] \in Nat /\ dropped[v] \in Nat /\ sent[v] \in Nat
        /\ Waiting(v) \in Bounded /\ Len(Waiting(v)) \in Nat
    BY WaitingType DEF TypeOK, Bounded
  <1>1. ASSUME NEW u \in Users, PushUser(u) PROVE Goal
    <2>1. /\ handed' = handed /\ sent' = [sent EXCEPT ![u] = sent[u] + 1]
          /\ dropped' = [dropped EXCEPT ![u] =
                IF Len(Waiting(u)) >= MaxQueue THEN dropped[u] + 1 ELSE dropped[u]]
      BY <1>1 DEF PushUser
    <2>2. CASE u = v
      <3>1. Waiting(v)' = Enqueue(Waiting(v), sent[v] + 1) BY <1>1, <2>2, PushEffect
      <3>2. /\ sent'[v] = sent[v] + 1 /\ handed'[v] = handed[v]
            /\ dropped'[v] = IF Len(Waiting(v)) >= MaxQueue THEN dropped[v] + 1 ELSE dropped[v]
        BY <2>1, <2>2 DEF TypeOK
      <3>3. sent[v] + 1 \in Nat BY <1>t
      <3>4. CASE Len(Waiting(v)) >= MaxQueue
        <4>1. Waiting(v)' = Waiting(v) BY <1>t, <3>1, <3>3, <3>4, EnqueueFacts
        <4> QED BY <1>0, <1>t, <3>2, <3>4, <4>1
      <3>5. CASE ~(Len(Waiting(v)) >= MaxQueue)
        <4>1. Len(Waiting(v)) < MaxQueue BY <1>t, <3>5, NotificationsAssumption
        <4>2. Len(Waiting(v)') = Len(Waiting(v)) + 1 BY <1>t, <3>1, <3>3, <4>1, EnqueueFacts
        <4>3. dropped'[v] = dropped[v] BY <3>2, <3>5
        <4>4. PICK n \in Nat : n = Len(Waiting(v)) BY <1>t
        <4>5. handed[v] + n + dropped[v] = sent[v] BY <1>0, <4>4
        <4>6. handed[v] + (n + 1) + dropped[v] = sent[v] + 1
          <5>1. handed[v] \in Nat /\ dropped[v] \in Nat /\ sent[v] \in Nat BY <1>t
          <5> QED BY <4>5, <5>1
        <4> QED BY <3>2, <4>2, <4>3, <4>4, <4>6
      <3> QED BY <3>4, <3>5
    <2>3. CASE u # v
      BY <1>0, <1>1, <2>1, <2>3, PushEffect DEF TypeOK
    <2> QED BY <2>2, <2>3
  <1>2. ASSUME NEW p \in Polls, PopUser(p) PROVE Goal
    <2>1. PICK u \in Users : u = UserOf[poll[p].tab] BY <1>2, PollerType
    <2>2. sent' = sent /\ dropped' = dropped /\ handed' = [handed EXCEPT ![u] = handed[u] + 1]
      BY <1>2, <2>1 DEF PopUser
    <2>3. CASE u = v
      <3>1. Waiting(v) # <<>> /\ Waiting(v)' = Dequeue(Waiting(v))
        BY <1>2, <2>1, <2>3, PopEffect
      <3>2. Len(Waiting(v)') + 1 = Len(Waiting(v)) /\ Len(Waiting(v)') \in Nat
        BY <1>t, <3>1, DequeueFacts DEF Bounded
      <3>3. handed'[v] = handed[v] + 1 BY <2>2, <2>3 DEF TypeOK
      <3>4. PICK n \in Nat : n = Len(Waiting(v)') BY <3>2
      <3>5. Len(Waiting(v)) = n + 1 BY <3>2, <3>4
      <3>6. handed[v] + (n + 1) + dropped[v] = sent[v] BY <1>0, <3>5
      <3>7. handed[v] + 1 + n + dropped[v] = sent[v]
        <4>1. handed[v] \in Nat /\ dropped[v] \in Nat /\ sent[v] \in Nat BY <1>t
        <4> QED BY <3>6, <4>1
      <3> QED BY <2>2, <3>3, <3>4, <3>7
    <2>4. CASE u # v
      BY <1>0, <1>2, <2>1, <2>2, <2>4, PopEffect DEF TypeOK
    <2> QED BY <2>3, <2>4
  <1>3. CASE Restart
    <2>1. Len(Waiting(v)') = 0 BY <1>3, RestartEffect
    <2>2. handed' = handed /\ sent' = sent /\ dropped'[v] = dropped[v] + Len(Waiting(v))
      BY <1>3 DEF Restart
    <2> QED BY <1>0, <1>t, <2>1, <2>2
  <1>4. CASE UNCHANGED queues
    BY <1>0, <1>4 DEF queues, Waiting
  <1> QED BY <1>1, <1>2, <1>3, <1>4, QueueSteps

(* No notification vanishes but in a full queue, a lost answer or a restart.   *)
THEOREM AllAccounted == Spec => []Accounted
  <1>1. Init => Accounted BY DEF Init, Accounted, Waiting
  <1> QED BY <1>1, StepAccounted, TypeCorrect, PTL DEF Spec

-----------------------------------------------------------------------------
(* What was handed out is numbered up to last, so what a queue hands out next  *)
(* is on no page and in no answer.                                             *)
UpToLast ==
    \A u \in Users :
        /\ \A p \in Polls : \A n \in Pending(p, u) : n <= last[u]
        /\ \A w \in Tabs : UserOf[w] = u => \A n \in shown[w] : n <= last[u]

(* A step after which pages and answers hold no more than before.              *)
LEMMA Fewer ==
    ASSUME UpToLast, ShownOnce, last' = last,
           \A p \in Polls, u \in Users : Pending(p, u)' \subseteq Pending(p, u),
           \A w \in Tabs : shown'[w] \subseteq shown[w]
    PROVE  UpToLast' /\ ShownOnce'
  <1>1. UpToLast'
    <2> SUFFICES ASSUME NEW u \in Users
                 PROVE  /\ \A p \in Polls : \A n \in Pending(p, u)' : n <= last'[u]
                        /\ \A w \in Tabs : UserOf[w] = u => \A n \in shown'[w] : n <= last'[u]
      BY DEF UpToLast
    <2> QED BY DEF UpToLast
  <1>2. ShownOnce'
    <2> SUFFICES ASSUME NEW u \in Users
                 PROVE  /\ \A p, r \in Polls : p # r => Pending(p, u)' \cap Pending(r, u)' = {}
                        /\ \A v, w \in Tabs : UserOf[v] = u /\ UserOf[w] = u =>
                              /\ v # w => shown'[v] \cap shown'[w] = {}
                              /\ \A p \in Polls : Pending(p, u)' \cap shown'[w] = {}
      BY DEF ShownOnce
    <2>1. \A p, r \in Polls : p # r => Pending(p, u) \cap Pending(r, u) = {} BY DEF ShownOnce
    <2>2. \A v, w \in Tabs : UserOf[v] = u /\ UserOf[w] = u =>
              /\ v # w => shown[v] \cap shown[w] = {}
              /\ \A p \in Polls : Pending(p, u) \cap shown[w] = {}
      BY DEF ShownOnce
    <2> QED BY <2>1, <2>2
  <1> QED BY <1>1, <1>2

LEMMA StepShown == TypeOK /\ Queues /\ UpToLast /\ ShownOnce /\ [Next]_vars => UpToLast' /\ ShownOnce'
  <1> SUFFICES ASSUME TypeOK, Queues, UpToLast, ShownOnce, [Next]_vars
               PROVE  UpToLast' /\ ShownOnce'
    OBVIOUS
  <1>1. CASE UNCHANGED <<last, poll, shown>>
    BY <1>1, Fewer DEF Pending
  <1>2. ASSUME NEW p \in Polls, PopUser(p) PROVE UpToLast' /\ ShownOnce'
    <2>1. PICK u \in Users : u = UserOf[poll[p].tab] BY <1>2, PollerType
    <2> DEFINE h == Head(Waiting(u))
    <2>2. poll[p] \in Polling /\ poll[p] # Idle
      <3>1. poll[p].pc = "pop" BY <1>2 DEF PopUser
      <3>2. poll[p] # Idle BY <3>1 DEF Idle
      <3> QED BY <1>2, <3>2, PollerType
    <2>3. /\ poll' = [poll EXCEPT ![p].got = @ \cup {h}] /\ shown' = shown
          /\ last' = [last EXCEPT ![u] = h]
      BY <1>2, <2>1 DEF PopUser
    <2>4. h \in Nat /\ last[u] < h
      <3>1. Waiting(u) \in Bounded /\ Waiting(u) # <<>> BY <1>2, <2>1, PopEffect
      <3>2. last[u] \in Nat /\ sent[u] \in Nat BY DEF TypeOK
      <3> QED BY <3>1, <3>2, QueuesAre, DequeueInOrder, DequeueFacts
    <2> HIDE DEF h
    <2>5. last'[u] = h /\ \A v \in Users : v # u => last'[v] = last[v] BY <2>3 DEF TypeOK
    <2>6. \A r \in Polls : r # p => poll'[r] = poll[r] BY <2>3 DEF TypeOK
    <2>7. poll'[p] = [poll[p] EXCEPT !.got = poll[p].got \cup {h}] BY <2>3 DEF TypeOK
    <2>8. poll'[p].tab = poll[p].tab /\ poll'[p].got = poll[p].got \cup {h} /\ poll'[p] # Idle
      <3>1. /\ [poll[p] EXCEPT !.got = poll[p].got \cup {h}].tab = poll[p].tab
            /\ [poll[p] EXCEPT !.got = poll[p].got \cup {h}].got = poll[p].got \cup {h}
            /\ [poll[p] EXCEPT !.got = poll[p].got \cup {h}].pc = poll[p].pc
        BY <2>2 DEF Polling
      <3>2. poll[p].pc = "pop" BY <1>2 DEF PopUser
      <3> QED BY <2>7, <3>1, <3>2 DEF Idle
    <2>9. \A r \in Polls, v \in Users :
            Pending(r, v)' = IF r = p /\ v = u THEN Pending(r, v) \cup {h} ELSE Pending(r, v)
      BY <2>1, <2>2, <2>6, <2>8 DEF Pending
    <2>10. \A v \in Users : last[v] \in Nat BY DEF TypeOK
    <2>11. \A r \in Polls, v \in Users : \A n \in Pending(r, v) : n \in Nat
      BY DEF TypeOK, Pending, Polling
    <2>12. \A w \in Tabs : \A n \in shown[w] : n \in Nat BY DEF TypeOK
    <2>13. UpToLast'
      <3> SUFFICES ASSUME NEW v \in Users
                   PROVE  /\ \A r \in Polls : \A n \in Pending(r, v)' : n <= last'[v]
                          /\ \A w \in Tabs : UserOf[w] = v => \A n \in shown'[w] : n <= last'[v]
        BY DEF UpToLast
      <3>1. /\ \A r \in Polls : \A n \in Pending(r, v) : n <= last[v]
            /\ \A w \in Tabs : UserOf[w] = v => \A n \in shown[w] : n <= last[v]
        BY DEF UpToLast
      <3>2. CASE v = u
        BY <2>3, <2>4, <2>5, <2>9, <2>10, <2>11, <2>12, <3>1, <3>2
      <3>3. CASE v # u
        BY <2>3, <2>5, <2>9, <3>1, <3>3
      <3> QED BY <3>2, <3>3
    <2>14. \A r \in Polls : h \notin Pending(r, u) BY <2>4, <2>10, <2>11 DEF UpToLast
    <2>15. \A w \in Tabs : UserOf[w] = u => h \notin shown[w] BY <2>4, <2>10, <2>12 DEF UpToLast
    <2>16. ShownOnce'
      <3> SUFFICES ASSUME NEW v \in Users
                   PROVE  /\ \A q, r \in Polls : q # r => Pending(q, v)' \cap Pending(r, v)' = {}
                          /\ \A x, w \in Tabs : UserOf[x] = v /\ UserOf[w] = v =>
                                /\ x # w => shown'[x] \cap shown'[w] = {}
                                /\ \A q \in Polls : Pending(q, v)' \cap shown'[w] = {}
        BY DEF ShownOnce
      <3>1. /\ \A q, r \in Polls : q # r => Pending(q, v) \cap Pending(r, v) = {}
            /\ \A x, w \in Tabs : UserOf[x] = v /\ UserOf[w] = v =>
                                /\ x # w => shown[x] \cap shown[w] = {}
                                /\ \A q \in Polls : Pending(q, v) \cap shown[w] = {}
        BY DEF ShownOnce
      <3>2. CASE v # u BY <2>3, <2>9, <3>1, <3>2
      <3>3. CASE v = u
        <4>1. \A q, r \in Polls : q # r => Pending(q, v)' \cap Pending(r, v)' = {}
          BY <2>9, <2>14, <3>1, <3>3
        <4>2. \A w \in Tabs, q \in Polls : UserOf[w] = v => Pending(q, v)' \cap shown[w] = {}
          BY <2>9, <2>15, <3>1, <3>3
        <4> QED BY <2>3, <3>1, <4>1, <4>2
      <3> QED BY <3>2, <3>3
    <2> QED BY <2>13, <2>16
  <1>3. ASSUME NEW p \in Polls, Show(p) PROVE UpToLast' /\ ShownOnce'
    <2> DEFINE w0 == poll[p].tab
               u == UserOf[w0]
    <2>1. poll[p] \in Polling /\ poll[p] # Idle BY <1>3 DEF Show, TypeOK, Idle
    <2>2. w0 \in Tabs /\ u \in Users BY <2>1, NotificationsAssumption DEF Polling
    <2>3. /\ shown' = [shown EXCEPT ![w0] = shown[w0] \cup poll[p].got]
          /\ poll' = [poll EXCEPT ![p] = Idle] /\ last' = last
      BY <1>3 DEF Show
    <2>4. poll[p].got = Pending(p, u) BY <2>1 DEF Pending
    <2>5. PICK w \in Tabs : w = w0 BY <2>2
    <2>6. PICK v \in Users : v = u BY <2>2
    <2>7. UserOf[w] = v /\ shown' = [shown EXCEPT ![w] = shown[w] \cup Pending(p, v)]
      BY <2>3, <2>4, <2>5, <2>6
    <2> HIDE DEF w0, u
    <2>8. /\ shown'[w] = shown[w] \cup Pending(p, v)
          /\ \A x \in Tabs : x # w => shown'[x] = shown[x]
      BY <2>7 DEF TypeOK
    <2>9. \A k \in Users : Pending(p, k)' = {} BY <2>3 DEF Pending, TypeOK
    <2>10. \A r \in Polls, k \in Users : r # p => Pending(r, k)' = Pending(r, k)
      BY <2>3 DEF Pending, TypeOK
    <2>11. UpToLast'
      <3> SUFFICES ASSUME NEW k \in Users
                   PROVE  /\ \A r \in Polls : \A n \in Pending(r, k)' : n <= last'[k]
                          /\ \A x \in Tabs : UserOf[x] = k => \A n \in shown'[x] : n <= last'[k]
        BY DEF UpToLast
      <3>1. /\ \A r \in Polls : \A n \in Pending(r, k) : n <= last[k]
            /\ \A x \in Tabs : UserOf[x] = k => \A n \in shown[x] : n <= last[k]
        BY DEF UpToLast
      <3> QED BY <2>3, <2>7, <2>8, <2>9, <2>10, <3>1
    <2>12. ShownOnce'
      <3> SUFFICES ASSUME NEW k \in Users
                   PROVE  /\ \A q, r \in Polls : q # r => Pending(q, k)' \cap Pending(r, k)' = {}
                          /\ \A x, y \in Tabs : UserOf[x] = k /\ UserOf[y] = k =>
                                /\ x # y => shown'[x] \cap shown'[y] = {}
                                /\ \A q \in Polls : Pending(q, k)' \cap shown'[y] = {}
        BY DEF ShownOnce
      <3>1. \A q, r \in Polls : q # r => Pending(q, k) \cap Pending(r, k) = {} BY DEF ShownOnce
      <3>2. \A x, y \in Tabs : UserOf[x] = k /\ UserOf[y] = k =>
                                /\ x # y => shown[x] \cap shown[y] = {}
                                /\ \A q \in Polls : Pending(q, k) \cap shown[y] = {}
        BY DEF ShownOnce
      <3>3. \A q, r \in Polls : q # r => Pending(q, k)' \cap Pending(r, k)' = {}
        BY <2>9, <2>10, <3>1
      <3>4. \A x, y \in Tabs : UserOf[x] = k /\ UserOf[y] = k /\ x # y =>
                                    shown'[x] \cap shown'[y] = {}
        BY <2>7, <2>8, <3>2
      <3>5. \A y \in Tabs, q \in Polls : UserOf[y] = k => Pending(q, k)' \cap shown'[y] = {}
        BY <2>7, <2>8, <2>9, <2>10, <3>1, <3>2
      <3> QED BY <3>3, <3>4, <3>5
    <2> QED BY <2>11, <2>12
  <1>4. ASSUME NEW p \in Polls, EndPops(p) PROVE UpToLast' /\ ShownOnce'
    <2>1. poll[p] \in Polling /\ poll[p] # Idle BY <1>4 DEF EndPops, TypeOK, Idle
    <2>2. poll' = [poll EXCEPT ![p].pc = "reply"] /\ last' = last /\ shown' = shown
      BY <1>4 DEF EndPops
    <2>3. poll'[p].tab = poll[p].tab /\ poll'[p].got = poll[p].got
      BY <2>1, <2>2 DEF TypeOK, Polling
    <2>4. \A r \in Polls : r # p => poll'[r] = poll[r] BY <2>2 DEF TypeOK
    <2>5. \A r \in Polls, u \in Users : Pending(r, u)' \subseteq Pending(r, u)
      BY <2>1, <2>3, <2>4 DEF Pending
    <2> QED BY <2>2, <2>5, Fewer
  <1>5. ASSUME NEW p \in Polls, LoseReply(p) \/ \E w \in Tabs : BeginPoll(p, w)
        PROVE  UpToLast' /\ ShownOnce'
    <2>1. /\ last' = last /\ shown' = shown /\ \A r \in Polls : r # p => poll'[r] = poll[r]
          /\ poll'[p] = Idle \/ poll'[p].got = {}
      BY <1>5 DEF LoseReply, BeginPoll, TypeOK
    <2>2. \A r \in Polls, u \in Users : Pending(r, u)' \subseteq Pending(r, u)
      BY <2>1 DEF Pending
    <2> QED BY <2>1, <2>2, Fewer
  <1>6. ASSUME NEW w \in Tabs, Reload(w) \/ \E n \in shown[w] : Dismiss(w, n)
        PROVE  UpToLast' /\ ShownOnce'
    <2>1. last' = last /\ poll' = poll /\ \A x \in Tabs : shown'[x] \subseteq shown[x]
      BY <1>6 DEF Reload, Dismiss, TypeOK
    <2>2. \A r \in Polls, u \in Users : Pending(r, u)' \subseteq Pending(r, u)
      BY <2>1 DEF Pending
    <2> QED BY <2>1, <2>2, Fewer
  <1>7. CASE Restart
    <2>1. last' = last /\ shown' = shown /\ \A r \in Polls : poll'[r] = Idle
      BY <1>7 DEF Restart
    <2>2. \A r \in Polls, u \in Users : Pending(r, u)' \subseteq Pending(r, u)
      BY <2>1 DEF Pending
    <2> QED BY <2>1, <2>2, Fewer
  <1>8. ASSUME NEW u \in Users, PushUser(u) PROVE UNCHANGED <<last, poll, shown>>
    BY <1>8 DEF PushUser
  <1> QED BY <1>1, <1>2, <1>3, <1>4, <1>5, <1>6, <1>7, <1>8 DEF Next, Answer, vars

(* Two pages of one user never show the same notification.                     *)
THEOREM OnceShown == Spec => []ShownOnce
  <1>1. Init => UpToLast /\ ShownOnce BY DEF Init, UpToLast, ShownOnce, Pending, Idle
  <1> QED BY <1>1, InitQueues, StepQueues, StepShown, TypeCorrect, PTL DEF Spec

-----------------------------------------------------------------------------
(* Every step of the store is a push, a hand-out or a stutter of Delivery.     *)
LEMMA StepDelivery == TypeOK /\ Queues /\ [Next]_vars => [Promise!Next]_(Promise!vars)
  <1> SUFFICES ASSUME TypeOK, Queues, [Next]_vars PROVE [Promise!Next]_(Promise!vars)
    OBVIOUS
  <1>1. ASSUME NEW u \in Users, PushUser(u) PROVE Promise!Push(u)
    BY <1>1 DEF PushUser, Promise!Push
  <1>2. ASSUME NEW p \in Polls, PopUser(p) PROVE \E u \in Users : Promise!HandOut(u)
    <2>1. PICK u \in Users : u = UserOf[poll[p].tab] BY <1>2, PollerType
    <2> DEFINE h == Head(Waiting(u))
    <2>2. /\ last' = [last EXCEPT ![u] = h] /\ handed' = [handed EXCEPT ![u] = @ + 1]
          /\ sent' = sent
      BY <1>2, <2>1 DEF PopUser
    <2>3. Waiting(u) \in Bounded /\ Waiting(u) # <<>> BY <1>2, <2>1, PopEffect
    <2>4. last[u] \in Nat /\ sent[u] \in Nat BY DEF TypeOK
    <2>5. h \in Nat /\ last[u] < h /\ h <= sent[u]
      BY <2>3, <2>4, QueuesAre, DequeueInOrder, DequeueFacts
    <2> HIDE DEF h
    <2>6. h \in (last[u] + 1) .. sent[u] BY <2>4, <2>5
    <2> QED BY <2>2, <2>6 DEF Promise!HandOut
  <1>3. CASE Restart BY <1>3 DEF Restart, Promise!vars
  <1>4. CASE UNCHANGED queues BY <1>4 DEF queues, Promise!vars
  <1> QED BY <1>1, <1>2, <1>3, <1>4, QueueSteps DEF Promise!Next

(* The store implements ordered delivery at most once.                         *)
THEOREM Delivers == Spec => ImplementsDelivery
  <1>1. Init => Promise!Init BY DEF Init, Promise!Init
  <1> QED BY <1>1, StepDelivery, InitQueues, StepQueues, TypeCorrect, PTL
          DEF Spec, ImplementsDelivery, Promise!Spec
============================================================================
