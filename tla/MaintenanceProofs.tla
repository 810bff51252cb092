------------------------- MODULE MaintenanceProofs -------------------------
(***************************************************************************)
(* Proofs about Maintenance, for any number of requests at a time and any  *)
(* number of maintenance handlers.                                         *)
(***************************************************************************)
EXTENDS Maintenance, TLAPS

Thread == [pc: Places, left: 0 .. Work]

LEMMA SetThread ==
    ASSUME TypeOK, NEW g \in Threads, NEW th \in Thread, thread' = [thread EXCEPT ![g] = th]
    PROVE  /\ thread' \in [Threads -> Thread]
           /\ thread'[g] = th
           /\ \A k \in Threads : k # g => thread'[k] = thread[k]
  BY DEF TypeOK, Thread

LEMMA GotoThread ==
    ASSUME TypeOK, NEW g \in Threads, NEW pc \in Places, Goto(g, pc)
    PROVE  /\ thread' \in [Threads -> Thread]
           /\ thread'[g].pc = pc
           /\ \A k \in Threads : k # g => thread'[k] = thread[k]
  BY DEF TypeOK, Thread, Goto

LEMMA StepType == TypeOK /\ [Next]_vars => TypeOK'
  <1> SUFFICES ASSUME TypeOK, [Next]_vars PROVE TypeOK' OBVIOUS
  <1> USE MaintenanceAssumption DEF Thread
  <1>w. Work \in 0 .. Work /\ 0 \in 0 .. Work OBVIOUS
  <1>1. CASE UNCHANGED vars BY <1>1 DEF vars, TypeOK
  <1>2. ASSUME NEW g \in Threads, Do(g) PROVE TypeOK'
    <2>1. CASE EnterAndIgnore(g)
      <3>1. [pc |-> "work", left |-> Work] \in Thread BY <1>w DEF Places
      <3> QED BY <2>1, <3>1, SetThread DEF EnterAndIgnore, TypeOK
    <2>2. CASE CallHandler(g)
      <3>1. thread[g].left \in 0 .. Work /\ thread[g].left > 0
        BY <2>2 DEF CallHandler, More, TypeOK
      <3>2. [thread[g] EXCEPT !.left = thread[g].left - 1] \in Thread
        BY <3>1 DEF TypeOK
      <3>3. thread' = [thread EXCEPT ![g] = [thread[g] EXCEPT !.left = thread[g].left - 1]]
        BY <2>2 DEF CallHandler, TypeOK
      <3>4. thread' \in [Threads -> Thread] BY <3>2, <3>3, SetThread
      <3> QED BY <2>2, <3>4 DEF CallHandler, TypeOK
    <2>3. CASE EndWork(g)
      BY <2>3, GotoThread DEF EndWork, TypeOK, Places
    <2>4. CASE ExitOrPanic(g)
      <3>1. Back(g) \in Places BY DEF Back, Places
      <3>2. thread' \in [Threads -> Thread] BY <2>4, <3>1, GotoThread DEF ExitOrPanic
      <3> QED BY <2>4, <3>2 DEF ExitOrPanic, TypeOK, Is
    <2> QED BY <1>2, <2>1, <2>2, <2>3, <2>4 DEF Do
  <1>3. ASSUME NEW r \in Requests, ServePage(r) \/ CloseSite(r) \/ \E page \in Pages : Admit(r, page)
        PROVE  TypeOK'
    <2>0. r \in Threads BY DEF Threads
    <2>1. thread' \in [Threads -> Thread]
      BY <1>3, <2>0, GotoThread DEF ServePage, CloseSite, Admit, Places, Pages
    <2> QED BY <1>3, <2>1 DEF ServePage, CloseSite, Admit, TypeOK
  <1>4. CASE Receive \/ StopScheduler
    <2>0. Scheduler \in Threads BY DEF Threads
    <2>1. thread' \in [Threads -> Thread]
      BY <1>4, <2>0, GotoThread DEF Receive, StopScheduler, Places
    <2> QED BY <1>4, <2>1 DEF Receive, StopScheduler, TypeOK
  <1>5. CASE Fire \/ StopInterval \/ Cancel
    BY <1>5 DEF Fire, StopInterval, Cancel, TypeOK
  <1>6. CASE Restart
    BY <1>6, <1>w DEF Restart, Start, TypeOK, Places
  <1> QED BY <1>1, <1>2, <1>3, <1>4, <1>5, <1>6 DEF Next, Serve, Threads

LEMMA InitType == Init => TypeOK
  <1>1. 0 \in 0 .. Work BY MaintenanceAssumption
  <1>2. Start \in [Threads -> [pc: Places, left: 0 .. Work]] BY <1>1 DEF Start, Places
  <1> QED BY <1>2 DEF Init, TypeOK

(* Whoever leaves the last place of a run has opened the site; whoever entered *)
(* the mode for a run is at work.                                              *)
LEMMA StepNotLeft == TypeOK /\ NotLeftClosed /\ [Next]_vars => NotLeftClosed'
  <1> SUFFICES ASSUME TypeOK, NotLeftClosed, [Next]_vars, up', closed' = "run"
               PROVE  \E g \in Threads : thread'[g].pc \in {"work", "exit"}
    BY DEF NotLeftClosed
  <1> DEFINE Running(g) == thread[g].pc \in {"work", "exit"}
             Goal == \E g \in Threads : thread'[g].pc \in {"work", "exit"}
  <1> USE MaintenanceAssumption
  <1>1. CASE UNCHANGED vars BY <1>1 DEF vars, NotLeftClosed
  <1>2. ASSUME NEW g \in Threads, Do(g) PROVE Goal
    <2>1. CASE EnterAndIgnore(g)
      BY <2>1 DEF EnterAndIgnore, TypeOK
    <2>2. CASE CallHandler(g)
      BY <2>2 DEF CallHandler, TypeOK, At
    <2>3. CASE EndWork(g)
      BY <2>3, GotoThread DEF EndWork, Places
    <2>4. CASE ExitOrPanic(g)
      BY <2>4 DEF ExitOrPanic
    <2> QED BY <1>2, <2>1, <2>2, <2>3, <2>4 DEF Do
  <1>3. ASSUME NEW r \in Requests, ServePage(r) \/ CloseSite(r) \/ \E page \in Pages : Admit(r, page)
        PROVE  Goal
    <2>0. r \in Threads BY DEF Threads
    <2>1. ~Running(r) /\ up /\ closed = "run"
      BY <1>3 DEF ServePage, CloseSite, Admit, At, Open, Is
    <2>2. PICK g \in Threads : Running(g) BY <2>1 DEF NotLeftClosed
    <2>3. \A k \in Threads : k # r => thread'[k] = thread[k]
      BY <1>3, <2>0, GotoThread DEF ServePage, CloseSite, Admit, Places, Pages
    <2> QED BY <2>1, <2>2, <2>3
  <1>4. CASE Receive \/ StopScheduler
    <2>0. Scheduler \in Threads BY DEF Threads
    <2>1. ~Running(Scheduler) /\ up /\ closed = "run"
      BY <1>4 DEF Receive, StopScheduler, At
    <2>2. PICK g \in Threads : Running(g) BY <2>1 DEF NotLeftClosed
    <2>3. \A k \in Threads : k # Scheduler => thread'[k] = thread[k]
      BY <1>4, <2>0, GotoThread DEF Receive, StopScheduler, Places
    <2> QED BY <2>1, <2>2, <2>3
  <1>5. CASE Fire \/ StopInterval \/ Cancel
    BY <1>5 DEF Fire, StopInterval, Cancel, NotLeftClosed
  <1>6. CASE Restart BY <1>6 DEF Restart
  <1> QED BY <1>1, <1>2, <1>3, <1>4, <1>5, <1>6 DEF Next, Serve, Threads

(* Without an administrator's request, no request is in do() and nobody but    *)
(* the scheduler has touched the mode.                                         *)
Unattended ==
    ~manual =>
        /\ UnattendedIsExclusive
        /\ closed # "admin"
        /\ \A r \in Requests : thread[r].pc \in {"idle", "page"}

LEMMA StepUnattended == TypeOK /\ Unattended /\ [Next]_vars => Unattended'
  <1> SUFFICES ASSUME TypeOK, Unattended, [Next]_vars, ~manual' PROVE
        /\ up' /\ (closed' # "nobody" <=> thread'[Scheduler].pc \in {"work", "exit"})
        /\ closed' # "admin"
        /\ \A r \in Requests : thread'[r].pc \in {"idle", "page"}
    BY DEF Unattended, UnattendedIsExclusive, Is
  <1> DEFINE Goal ==
        /\ up' /\ (closed' # "nobody" <=> thread'[Scheduler].pc \in {"work", "exit"})
        /\ closed' # "admin"
        /\ \A r \in Requests : thread'[r].pc \in {"idle", "page"}
  <1> USE MaintenanceAssumption
  <1>0. Scheduler \in Threads /\ Requests \subseteq Threads BY DEF Threads
  <1>1. CASE UNCHANGED vars
    BY <1>1 DEF vars, Unattended, UnattendedIsExclusive, Is
  <1>2. CASE Restart
    BY <1>2 DEF Restart, Start, Threads
  <1>3. CASE ~Restart /\ ~UNCHANGED vars
    <2>1. ~manual
      BY <1>3 DEF Next, Serve, ServePage, CloseSite, Do, EnterAndIgnore, CallHandler, EndWork,
                  ExitOrPanic, Admit, Receive, StopScheduler, Fire, StopInterval, Cancel
    <2>2. /\ up /\ (closed # "nobody" <=> thread[Scheduler].pc \in {"work", "exit"})
          /\ closed # "admin"
          /\ \A r \in Requests : thread[r].pc \in {"idle", "page"}
      BY <2>1 DEF Unattended, UnattendedIsExclusive, Is
    <2>3. ASSUME NEW r \in Requests, Serve(r) \/ \E page \in Pages : Admit(r, page) PROVE Goal
      <3>1. ServePage(r) \/ Admit(r, "page")
        BY <2>1, <2>2, <2>3 DEF Serve, Do, EnterAndIgnore, CallHandler, EndWork, ExitOrPanic,
                CloseSite, Admit, At
      <3>2. thread'[r].pc \in {"idle", "page"} /\ \A k \in Threads : k # r => thread'[k] = thread[k]
        BY <1>0, <3>1, GotoThread DEF ServePage, Admit, Places, Pages
      <3>3. up' = up /\ closed' = closed BY <3>1 DEF ServePage, Admit
      <3> QED BY <1>0, <2>2, <3>2, <3>3
    <2>4. CASE Do(Scheduler)
      <3>1. \A k \in Threads : k # Scheduler => thread'[k] = thread[k]
        BY <1>0, <2>4 DEF Do, EnterAndIgnore, CallHandler, EndWork, ExitOrPanic, Goto, TypeOK
      <3>2. CASE EnterAndIgnore(Scheduler)
        <4>1. thread'[Scheduler].pc = "work" /\ closed' = "run" /\ up'
          BY <1>0, <2>2, <3>2 DEF EnterAndIgnore, TypeOK, At, Is
        <4> QED BY <1>0, <2>2, <3>1, <4>1
      <3>3. CASE CallHandler(Scheduler)
        <4>1. thread'[Scheduler].pc = "work" /\ closed' = closed /\ up' = up
          BY <1>0, <3>3 DEF CallHandler, TypeOK, At
        <4> QED BY <1>0, <2>2, <3>1, <3>3, <4>1 DEF CallHandler, At
      <3>4. CASE EndWork(Scheduler)
        <4>1. thread'[Scheduler].pc = "exit" /\ closed' = closed /\ up' = up
          BY <1>0, <3>4, GotoThread DEF EndWork, Places
        <4> QED BY <1>0, <2>2, <3>1, <3>4, <4>1 DEF EndWork, At
      <3>5. CASE ExitOrPanic(Scheduler)
        <4>1. thread'[Scheduler].pc = "select" /\ closed' = "nobody"
          BY <1>0, <3>5, GotoThread DEF ExitOrPanic, Places, Back
        <4>2. up' BY <2>2, <3>5 DEF ExitOrPanic, At, Is
        <4> QED BY <1>0, <2>2, <3>1, <4>1, <4>2
      <3> QED BY <2>4, <3>2, <3>3, <3>4, <3>5 DEF Do
    <2>5. CASE Receive \/ StopScheduler
      <3>1. /\ thread'[Scheduler].pc \in {"enter", "stopped"}
            /\ \A k \in Threads : k # Scheduler => thread'[k] = thread[k]
        BY <1>0, <2>5, GotoThread DEF Receive, StopScheduler, Places
      <3>2. up' = up /\ closed' = closed /\ thread[Scheduler].pc = "select"
        BY <2>5 DEF Receive, StopScheduler, At
      <3> QED BY <1>0, <2>2, <3>1, <3>2
    <2>6. CASE Fire \/ StopInterval \/ Cancel
      BY <2>2, <2>6 DEF Fire, StopInterval, Cancel
    <2> QED BY <1>3, <2>3, <2>4, <2>5, <2>6 DEF Next
  <1> QED BY <1>1, <1>2, <1>3

-----------------------------------------------------------------------------
THEOREM TypeCorrect == Spec => []TypeOK
  BY InitType, StepType, PTL DEF Spec

(* The site is never left closed by a maintenance run that is over, whatever   *)
(* other runs and administrators do meanwhile.                                 *)
THEOREM NeverLeftClosed == Spec => []NotLeftClosed
  <1>1. Init => NotLeftClosed BY DEF Init, NotLeftClosed
  <1> QED BY <1>1, StepNotLeft, TypeCorrect, PTL DEF Spec

(* If administrators leave maintenance alone, its mode is on exactly while the *)
(* scheduler runs the handlers, and the server does not die of Exit.           *)
THEOREM ExclusiveUnattended == Spec => []UnattendedIsExclusive
  <1>1. Init => Unattended
    BY MaintenanceAssumption
    DEF Init, Unattended, UnattendedIsExclusive, Start, Is, Threads
  <1>2. Unattended => UnattendedIsExclusive BY DEF Unattended, UnattendedIsExclusive
  <1> QED BY <1>1, <1>2, StepUnattended, TypeCorrect, PTL DEF Spec
=============================================================================
