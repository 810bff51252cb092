---------------------------- MODULE Maintenance ----------------------------
(***************************************************************************)
(* Maintenance mode: the Manager, the Scheduler that runs maintenance when *)
(* its Interval fires, the middleware that turns requests away, and the    *)
(* two administrators' handlers that close the site or run maintenance     *)
(* from a request.                                                         *)
(*                                                                         *)
(* Every method of the Manager holds its lock throughout and is one step.  *)
(* The scheduler is a goroutine; each request is one too.  A panic in a    *)
(* request is recovered by gin; in the scheduler's goroutine it ends the   *)
(* process.                                                                *)
(***************************************************************************)
EXTENDS Naturals

CONSTANTS
    Requests,   \* requests the server works on at once
    Scheduler,  \* the goroutine of Scheduler.Run
    Work        \* len(Scheduler.Handlers): cleanBookings and cleanDeleted

ASSUME MaintenanceAssumption ==
    /\ Work \in Nat
    /\ Scheduler \notin Requests

VARIABLES
    up,         \* the process runs
    closed,     \* who set Manager.is: "nobody", an "admin" or a "run"
    thread,     \* the goroutines: where they are, the handlers still to call
    interval,   \* the producer goroutine of the Interval
    cancelled,  \* the scheduler's context is done
    manual      \* an administrator's maintenance request passed the middleware

vars == <<up, closed, thread, interval, cancelled, manual>>

Threads == Requests \cup {Scheduler}

Pages == {"page", "close", "now"}

Places == {"idle", "select", "stopped", "enter", "work", "exit"} \cup Pages

TypeOK ==
    /\ up \in BOOLEAN /\ cancelled \in BOOLEAN /\ manual \in BOOLEAN
    /\ closed \in {"nobody", "admin", "run"}
    /\ thread \in [Threads -> [pc: Places, left: 0 .. Work]]
    /\ interval \in {"wait", "send", "dead"}

At(g, pc) == up /\ thread[g].pc = pc

Start == [g \in Threads |-> [pc |-> IF g = Scheduler THEN "select" ELSE "idle", left |-> 0]]

Init ==
    /\ up = TRUE /\ closed = "nobody" /\ thread = Start
    /\ interval = "wait" /\ cancelled = FALSE /\ manual = FALSE

Goto(g, pc) == thread' = [thread EXCEPT ![g].pc = pc]

(* Where a goroutine goes on after do(). *)
Back(g) == IF g = Scheduler THEN "select" ELSE "idle"

(* Manager.Is *)
Is == closed # "nobody"

-----------------------------------------------------------------------------
(* Scheduler.do *)

(* Mutants: do() gives up when Enter fails; Enter waits for the mode to end. *)
GiveUpIfClosed(g) ==
    /\ At(g, "enter")
    /\ IF Is THEN closed' = closed /\ Goto(g, Back(g))
             ELSE /\ closed' = "run"
                  /\ thread' = [thread EXCEPT ![g] = [pc |-> "work", left |-> Work]]
    /\ UNCHANGED <<up, interval, cancelled, manual>>

WaitIfClosed(g) ==
    /\ At(g, "enter") /\ ~Is
    /\ closed' = "run"
    /\ thread' = [thread EXCEPT ![g] = [pc |-> "work", left |-> Work]]
    /\ UNCHANGED <<up, interval, cancelled, manual>>

(* s.Manager.Enter(): its error is not looked at. *)
EnterAndIgnore(g) ==
    /\ At(g, "enter")
    /\ closed' = IF Is THEN closed ELSE "run"
    /\ thread' = [thread EXCEPT ![g] = [pc |-> "work", left |-> Work]]
    /\ UNCHANGED <<up, interval, cancelled, manual>>

(* A mutant: one call too many. *)
OneMore(left) == left >= 0

More(left) == left > 0

(* One of the handlers returns.  Their errors are collected, and never sent: *)
(* nothing is sent on Err unless something already waits in it.              *)
CallHandler(g) ==
    /\ At(g, "work") /\ More(thread[g].left)
    /\ thread' = [thread EXCEPT ![g].left = @ - 1]
    /\ UNCHANGED <<up, closed, interval, cancelled, manual>>

EndWork(g) ==
    /\ At(g, "work") /\ ~More(thread[g].left)
    /\ Goto(g, "exit")
    /\ UNCHANGED <<up, closed, interval, cancelled, manual>>

(* A mutant: do() returns without its deferred Exit. *)
SkipExit(g) ==
    /\ At(g, "exit")
    /\ Goto(g, Back(g))
    /\ UNCHANGED <<up, closed, interval, cancelled, manual>>

(* Manager.Exit panics if the mode is off. *)
ExitOrPanic(g) ==
    /\ At(g, "exit")
    /\ closed' = "nobody"
    /\ up' = (Is \/ g # Scheduler)
    /\ Goto(g, Back(g))
    /\ UNCHANGED <<interval, cancelled, manual>>

Do(g) == EnterAndIgnore(g) \/ CallHandler(g) \/ EndWork(g) \/ ExitOrPanic(g)

-----------------------------------------------------------------------------
(* Scheduler.Run and the Interval's producer, which hands over each firing on *)
(* an unbuffered channel and watches its context only while it waits.         *)

Fire ==
    /\ up /\ interval = "wait" /\ interval' = "send"
    /\ UNCHANGED <<up, closed, thread, cancelled, manual>>

Receive ==
    /\ At(Scheduler, "select") /\ interval = "send"
    /\ interval' = "wait"
    /\ Goto(Scheduler, "enter")
    /\ UNCHANGED <<up, closed, cancelled, manual>>

StopInterval ==
    /\ up /\ interval = "wait" /\ cancelled
    /\ interval' = "dead"
    /\ UNCHANGED <<up, closed, thread, cancelled, manual>>

(* A mutant: the loop receives only, and never looks at Ctx.Done(). *)
NeverDone == FALSE

Done == cancelled

StopScheduler ==
    /\ At(Scheduler, "select") /\ Done
    /\ Goto(Scheduler, "stopped")
    /\ UNCHANGED <<up, closed, interval, cancelled, manual>>

Cancel ==
    /\ up /\ ~cancelled /\ cancelled' = TRUE
    /\ UNCHANGED <<up, closed, thread, interval, manual>>

-----------------------------------------------------------------------------
(* Requests.  The middleware asks Is() once; what it let through runs on,     *)
(* whatever happens to the mode afterwards.                                   *)

Open == ~Is

Admit(r, page) ==
    /\ At(r, "idle") /\ Open
    /\ Goto(r, IF page = "now" THEN "enter" ELSE page)
    /\ manual' = (manual \/ page # "page")
    /\ UNCHANGED <<up, closed, interval, cancelled>>

ServePage(r) ==
    /\ At(r, "page")
    /\ Goto(r, "idle")
    /\ UNCHANGED <<up, closed, interval, cancelled, manual>>

(* handleAdminMaintenance: Enter, or a panic if the site is closed already.   *)
(* Nothing in the handler, or in any other, opens it again.                   *)
CloseSite(r) ==
    /\ At(r, "close")
    /\ closed' = IF Is THEN closed ELSE "admin"
    /\ Goto(r, "idle")
    /\ UNCHANGED <<up, interval, cancelled, manual>>

Restart ==
    /\ ~up
    /\ up' = TRUE /\ closed' = "nobody" /\ thread' = Start
    /\ interval' = "wait" /\ cancelled' = FALSE /\ manual' = FALSE

-----------------------------------------------------------------------------
Serve(r) == ServePage(r) \/ CloseSite(r) \/ Do(r)

Next ==
    \/ \E r \in Requests : Serve(r) \/ \E page \in Pages : Admit(r, page)
    \/ Do(Scheduler) \/ Receive \/ StopScheduler
    \/ Fire \/ StopInterval \/ Cancel \/ Restart

Spec == Init /\ [][Next]_vars

(* Goroutines that can go on do; the handlers of maintenance return (for      *)
(* CleanBookings, CleanEnds of Bookings); three o'clock comes every night.    *)
(* select chooses at random among the cases that are ready, so one that is    *)
(* ready again and again is chosen: strong fairness.                          *)
Fairness ==
    /\ \A r \in Requests : WF_vars(Serve(r))
    /\ WF_vars(Do(Scheduler)) /\ WF_vars(Receive) /\ SF_vars(StopScheduler)
    /\ WF_vars(Fire)

FairSpec == Spec /\ Fairness

-----------------------------------------------------------------------------
(* A maintenance run never leaves the site closed behind it: while the mode   *)
(* one of them entered lasts, one of them is still at work (do, with Exit     *)
(* deferred, from the scheduler and /admin/runnow at once).                   *)
NotLeftClosed ==
    up /\ closed = "run" => \E g \in Threads : thread[g].pc \in {"work", "exit"}

(* As long as no administrator steps in, the mode is on exactly while the     *)
(* scheduler runs its handlers, and Exit never panics.                        *)
UnattendedIsExclusive ==
    ~manual => up /\ (Is <=> thread[Scheduler].pc \in {"work", "exit"})

(* Liveness: the site opens again, also when an administrator closed it: the  *)
(* next scheduled run ignores that Enter failed, and its Exit opens the site. *)
SiteReopens == up /\ Is ~> ~up \/ ~Is \/ cancelled

(* Liveness: a firing of the interval is taken, if the scheduler lives.       *)
FiringTaken == up /\ interval = "send" ~> ~up \/ cancelled \/ interval # "send"

(* Liveness: when its context is done, Run returns.                           *)
RunReturns == up /\ cancelled ~> ~up \/ thread[Scheduler].pc = "stopped"

(* sched.go:80: Now "is thread safe".  A run from a request beside a scheduled *)
(* one makes the second Exit panic, and in the scheduler that ends the server. *)
NowIsSafe == up
=============================================================================
