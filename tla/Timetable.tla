----------------------------- MODULE Timetable -----------------------------
(***************************************************************************)
(* The lookup of the period of the day an instant lies in: /api/period,    *)
(* asked by a page when the mouse rests on a time, and the binary search   *)
(* of the configured layout it runs, one call of bsearch a step.           *)
(*                                                                         *)
(* A slice of the layout, stack, is the interval lo .. hi of its indices.  *)
(* Times are ticks: only their order matters to the search.                *)
(***************************************************************************)
EXTENDS Integers, Sequences

CONSTANTS
    Nil,         \* the nil *Period
    Layouts,     \* the layouts a configuration may hold
    Times        \* the times of day a page may ask for

Period == [start: Nat, end: Nat]

(* "Periods must be configured in time order"; they may touch. *)
InTimeOrder(l) ==
    /\ l \in Seq(Period)
    /\ \A i \in DOMAIN l : l[i].start <= l[i].end
    /\ \A i, j \in DOMAIN l : i < j => l[i].end <= l[j].start

(* NewConfig puts the nil period where no layout is configured. *)
DefaultLayout == <<Nil>>

Legal(l) == l = DefaultLayout \/ InTimeOrder(l)

ASSUME TimetableAssumption ==
    /\ Nil \notin Period
    /\ Times \subseteq Nat
    /\ \A l \in Layouts : Legal(l)

VARIABLES
    layout,  \* Config.TimetableLayout, read once at start
    pc,      \* where the request of /api/period is
    needle,  \* the time parsed
    bad,     \* the time was missing or malformed
    lo, hi,  \* the slice of layout still to be searched
    found,   \* index of the period bsearch returned, 0 for none
    status   \* of the answer: the first c.JSON of the handler sets it

vars == <<layout, pc, needle, bad, lo, hi, found, status>>

(* Within: the ends belong to the period. *)
Within(p, t) == p = Nil \/ (p.start <= t /\ t <= p.end)

Compare(p, t) == IF Within(p, t) THEN 0 ELSE IF t < p.start THEN -1 ELSE 1

TypeOK ==
    /\ Legal(layout)
    /\ pc \in {"idle", "search"}
    /\ needle \in Nat /\ bad \in BOOLEAN
    /\ lo \in 1 .. Len(layout) + 1 /\ hi \in 0 .. Len(layout) /\ lo <= hi + 1
    /\ found \in 0 .. Len(layout)
    /\ status \in {0, 200, 400, 403, 404}

Init ==
    /\ layout \in Layouts
    /\ pc = "idle" /\ needle = 0 /\ bad = FALSE
    /\ lo = 1 /\ hi = 0 /\ found = 0 /\ status = 0

-----------------------------------------------------------------------------
(* handleAPIPeriod *)

Refused ==
    /\ pc = "idle"
    /\ status' = 403
    /\ UNCHANGED <<layout, pc, needle, bad, lo, hi, found>>

(* A mutant: the status is that of what was found. *)
FirstFound(b, f) == IF f = 0 \/ layout[f] = Nil THEN 404 ELSE 200

(* The handler goes on after a complaint, so a request without a time     *)
(* searches for midnight, but its status stays that of the complaint.     *)
FirstStatus(b, f) ==
    IF b THEN 400 ELSE IF f = 0 \/ layout[f] = Nil THEN 404 ELSE 200

(* t is the zero time if it could not be parsed. *)
Asked(t, b) ==
    /\ pc = "idle"
    /\ b => t = 0
    /\ pc' = "search" /\ needle' = t /\ bad' = b
    /\ lo' = 1 /\ hi' = Len(layout) /\ found' = 0 /\ status' = 0
    /\ UNCHANGED layout

Return(f) ==
    /\ found' = f /\ status' = FirstStatus(bad, f) /\ pc' = "idle"
    /\ UNCHANGED <<layout, needle, bad, lo, hi>>

-----------------------------------------------------------------------------
(* bsearch *)

Middle == lo + (hi - lo + 1) \div 2

(* Mutants: stack[:i+1], stack[:i-1] and stack[i+2:]. *)
UpTo(i) == i
BelowLess(i) == i - 2
SkipOne(i) == i + 2

(* stack[:i] and stack[i+1:] *)
EndBelow(i) == i - 1
StartAbove(i) == i + 1

Exhausted == pc = "search" /\ lo > hi /\ Return(0)

Hit ==
    /\ pc = "search" /\ lo <= hi /\ Compare(layout[Middle], needle) = 0
    /\ Return(Middle)

TakeUpper ==
    /\ pc = "search" /\ lo <= hi /\ Compare(layout[Middle], needle) = 1
    /\ lo' = StartAbove(Middle)
    /\ UNCHANGED <<layout, pc, needle, bad, hi, found, status>>

TakeLower ==
    /\ pc = "search" /\ lo <= hi /\ Compare(layout[Middle], needle) = -1
    /\ hi' = EndBelow(Middle)
    /\ UNCHANGED <<layout, pc, needle, bad, lo, found, status>>

Next ==
    \/ Refused
    \/ \E t \in Times : Asked(t, FALSE)
    \/ Asked(0, TRUE)
    \/ Exhausted \/ Hit \/ TakeUpper \/ TakeLower

Spec == Init /\ [][Next]_vars

-----------------------------------------------------------------------------
(* Properties *)

Contains(l, t) == \E i \in DOMAIN l : Within(l[i], t)

(* bsearch never drops a part of the layout that holds the time, and what  *)
(* it returns holds it: none is found only where the layout has a gap.     *)
FindsThePeriod ==
    /\ pc = "search" =>
        \A i \in DOMAIN layout : Within(layout[i], needle) => i \in lo .. hi
    /\ pc = "idle" /\ status \notin {0, 403} =>
        /\ found # 0 => Within(layout[found], needle)
        /\ found = 0 => ~Contains(layout, needle)

(* Of a layout that was configured, the page shows a period's name exactly *)
(* for a well-formed time that lies in a period: never for a time it did   *)
(* not send, although the handler goes on to look for midnight.  Nothing   *)
(* is asserted of the nil period of an empty configuration: the search     *)
(* finds it, but handleAPIPeriod takes it for none and answers 404.        *)
ShownIfConfigured ==
    pc = "idle" /\ status \notin {0, 403} /\ layout # DefaultLayout =>
        (status = 200 <=> ~bad /\ Contains(layout, needle))

(* Every call of bsearch halves the slice it is given: "take care on very  *)
(* large timetables" is about a depth that grows with their logarithm, and *)
(* the recursion ends.                                                     *)
CallsHalve ==
    [][pc = "search" /\ pc' = "search"
        => hi' - lo' + 1 <= (hi - lo + 1) \div 2]_vars
=============================================================================
