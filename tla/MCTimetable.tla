---------------------------- MODULE MCTimetable ----------------------------
(* Instances of Timetable for TLC. *)
EXTENDS Timetable

CONSTANTS
    MaxTime,    \* bound: the last tick of the day
    MaxPeriods  \* bound: periods in a layout

(* Every layout in time order, with gaps and with periods that touch: its  *)
(* bounds s1 <= e1 <= s2 <= e2 ... chosen from the ticks.                  *)
Bounds(n) == {b \in [1 .. 2 * n -> 0 .. MaxTime] :
                \A i \in 1 .. 2 * n - 1 : b[i] <= b[i + 1]}
Layout(n, b) == [i \in 1 .. n |-> [start |-> b[2 * i - 1], end |-> b[2 * i]]]

SmallLayouts == {DefaultLayout}
    \cup UNION {{Layout(n, b) : b \in Bounds(n)} : n \in 0 .. MaxPeriods}
SmallTimes == 0 .. MaxTime
============================================================================
