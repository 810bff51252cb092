-------------------------- MODULE TimetableProofs --------------------------
(***************************************************************************)
(* The search of the timetable is right for every layout in time order and *)
(* every instant.  The invariant is the loop's: what was cut off does not  *)
(* hold the instant.  A cut is justified by two facts about layouts, that  *)
(* whatever lies left of a period that is over before the instant is over  *)
(* too, and what lies right of one that is yet to begin has not begun.     *)
(***************************************************************************)
EXTENDS Timetable, TLAPS

(* A period that does not hold the instant is one with times. *)
LEMMA OrderedUnlessNil ==
    ASSUME NEW l, NEW t, Legal(l), NEW i \in DOMAIN l, ~Within(l[i], t)
    PROVE  InTimeOrder(l)
  BY DEF Legal, DefaultLayout, Within

(* The periods up to one that ended before t do not hold t. *)
LEMMA NoneBelow ==
    ASSUME NEW l, NEW t \in Nat, InTimeOrder(l), NEW m \in DOMAIN l,
           ~Within(l[m], t), ~(t < l[m].start),
           NEW i \in DOMAIN l, i <= m
    PROVE  ~Within(l[i], t)
<1>1. l[m] \in Period /\ l[i] \in Period
  BY DEF InTimeOrder
<1>2. i = m \/ i < m
  BY DEF InTimeOrder
<1>3. CASE i = m
  BY <1>3
<1>4. CASE i < m
  <2>1. l[i].end <= l[m].start /\ l[m].start <= l[m].end
    BY <1>4 DEF InTimeOrder
  <2> QED
    BY <1>1, <2>1, TimetableAssumption DEF Within, Period
<1> QED
  BY <1>2, <1>3, <1>4

(* The periods from one that begins after t on do not hold t. *)
LEMMA NoneAbove ==
    ASSUME NEW l, NEW t \in Nat, InTimeOrder(l), NEW m \in DOMAIN l,
           t < l[m].start, NEW i \in DOMAIN l, m <= i
    PROVE  ~Within(l[i], t)
<1>1. l[m] \in Period /\ l[i] \in Period
  BY DEF InTimeOrder
<1>2. i = m \/ m < i
  BY DEF InTimeOrder
<1>3. CASE i = m
  BY <1>1, <1>3, TimetableAssumption DEF Within, Period
<1>4. CASE m < i
  <2>1. l[m].end <= l[i].start /\ l[m].start <= l[m].end
    BY <1>4 DEF InTimeOrder
  <2> QED
    BY <1>1, <2>1, TimetableAssumption DEF Within, Period
<1> QED
  BY <1>2, <1>3, <1>4

LEMMA MiddleInSlice ==
    ASSUME TypeOK, lo <= hi
    PROVE  Middle \in lo .. hi /\ Middle \in DOMAIN layout
<1>1. layout \in Seq(Period) \/ layout = <<Nil>>
  BY DEF TypeOK, Legal, InTimeOrder, DefaultLayout
<1>2. Len(layout) \in Nat /\ DOMAIN layout = 1 .. Len(layout)
  BY <1>1
<1> QED
  BY <1>2 DEF TypeOK, Middle

LEMMA LayoutLength ==
    ASSUME Legal(layout)
    PROVE  Len(layout) \in Nat /\ DOMAIN layout = 1 .. Len(layout)
<1>1. layout \in Seq(Period) \/ layout = <<Nil>>
  BY DEF Legal, InTimeOrder, DefaultLayout
<1> QED
  BY <1>1

-----------------------------------------------------------------------------
(* Types *)

LEMMA TypeInit == Init => TypeOK
<1> SUFFICES ASSUME Init PROVE TypeOK
  OBVIOUS
<1>1. Legal(layout)
  BY TimetableAssumption DEF Init
<1>2. Len(layout) \in Nat
  BY <1>1, LayoutLength
<1>3. /\ lo \in 1 .. Len(layout) + 1 /\ hi \in 0 .. Len(layout) /\ lo <= hi + 1
      /\ found \in 0 .. Len(layout) /\ needle \in Nat
  BY <1>2 DEF Init
<1>4. bad \in BOOLEAN /\ pc \in {"idle", "search"} /\ status \in {0, 200, 400, 403, 404}
  BY Zenon DEF Init
<1> QED
  BY <1>1, <1>3, <1>4, Zenon DEF TypeOK

LEMMA TypeStep == TypeOK /\ [Next]_vars => TypeOK'
<1> SUFFICES ASSUME TypeOK, [Next]_vars PROVE TypeOK'
  OBVIOUS
<1>0. Len(layout) \in Nat /\ DOMAIN layout = 1 .. Len(layout)
  BY LayoutLength DEF TypeOK
<1>1. CASE Refused
  BY <1>1 DEF Refused, TypeOK
<1>2. ASSUME NEW t \in Times, NEW b \in BOOLEAN, Asked(t, b) PROVE TypeOK'
  BY <1>0, <1>2, TimetableAssumption DEF Asked, TypeOK
<1>3. CASE Asked(0, TRUE)
  BY <1>0, <1>3 DEF Asked, TypeOK
<1>4. CASE Exhausted
  BY <1>0, <1>4 DEF Exhausted, Return, FirstStatus, TypeOK
<1>5. CASE Hit
  BY <1>0, <1>5, MiddleInSlice DEF Hit, Return, FirstStatus, TypeOK
<1>6. CASE TakeUpper
  BY <1>0, <1>6, MiddleInSlice DEF TakeUpper, StartAbove, TypeOK
<1>7. CASE TakeLower
  BY <1>0, <1>7, MiddleInSlice DEF TakeLower, EndBelow, TypeOK
<1>8. CASE UNCHANGED vars
  BY <1>8 DEF vars, TypeOK
<1> QED
  BY <1>1, <1>2, <1>3, <1>4, <1>5, <1>6, <1>7, <1>8 DEF Next

(* The variables stay in their types, the slice inside the layout. *)
THEOREM TypeCorrect == Spec => []TypeOK
  BY TypeInit, TypeStep, PTL DEF Spec

-----------------------------------------------------------------------------
(* The search *)

(* The loop invariant, and what Return leaves. *)
NothingCutOff ==
    pc = "search" => \A i \in DOMAIN layout : Within(layout[i], needle) => i \in lo .. hi
Answered ==
    pc = "idle" /\ status \notin {0, 403} =>
        /\ found \in DOMAIN layout \cup {0}
        /\ found # 0 => Within(layout[found], needle)
        /\ found = 0 => ~Contains(layout, needle)
        /\ status = FirstStatus(bad, found)
IInv == TypeOK /\ NothingCutOff /\ Answered

LEMMA InvInit == Init => IInv
  BY TypeInit DEF Init, IInv, NothingCutOff, Answered

LEMMA InvStep == IInv /\ [Next]_vars => IInv'
<1> SUFFICES ASSUME IInv, [Next]_vars PROVE IInv'
  OBVIOUS
<1> USE DEF IInv
<1>0. Len(layout) \in Nat /\ DOMAIN layout = 1 .. Len(layout)
  BY LayoutLength DEF TypeOK
<1>T. TypeOK'
  BY TypeStep
<1>1. CASE Refused
  BY <1>1, <1>T DEF Refused, NothingCutOff, Answered
<1>2. ASSUME NEW t, NEW b, Asked(t, b) PROVE IInv'
  BY <1>0, <1>2, <1>T DEF Asked, NothingCutOff, Answered
<1>3. CASE Exhausted
  <2>1. ~Contains(layout, needle)
    BY <1>0, <1>3 DEF Exhausted, NothingCutOff, Contains, TypeOK
  <2> QED
    BY <1>3, <2>1, <1>T DEF Exhausted, Return, FirstStatus, NothingCutOff, Answered, Contains
<1>4. CASE Hit
  <2>1. Middle \in DOMAIN layout /\ Middle # 0
    BY <1>0, <1>4, MiddleInSlice DEF Hit, TypeOK
  <2>2. Within(layout[Middle], needle)
    BY <1>4 DEF Hit, Compare
  <2> QED
    BY <1>4, <2>1, <2>2, <1>T DEF Hit, Return, FirstStatus, NothingCutOff, Answered, Contains
<1>5. CASE TakeUpper
  <2>1. Middle \in DOMAIN layout /\ Middle \in lo .. hi
    BY <1>5, MiddleInSlice DEF TakeUpper
  <2>2. ~Within(layout[Middle], needle) /\ ~(needle < layout[Middle].start)
    BY <1>5 DEF TakeUpper, Compare
  <2>3. InTimeOrder(layout)
    BY <2>1, <2>2, OrderedUnlessNil DEF TypeOK
  <2>4. \A i \in DOMAIN layout : i <= Middle => ~Within(layout[i], needle)
    BY <2>1, <2>2, <2>3, NoneBelow DEF TypeOK
  <2>5. NothingCutOff'
    BY <1>0, <1>5, <2>1, <2>4 DEF TakeUpper, StartAbove, NothingCutOff, TypeOK
  <2> QED
    BY <1>5, <2>5, <1>T DEF TakeUpper, Answered
<1>6. CASE TakeLower
  <2>1. Middle \in DOMAIN layout /\ Middle \in lo .. hi
    BY <1>6, MiddleInSlice DEF TakeLower
  <2>2. ~Within(layout[Middle], needle) /\ needle < layout[Middle].start
    BY <1>6 DEF TakeLower, Compare
  <2>3. InTimeOrder(layout)
    BY <2>1, <2>2, OrderedUnlessNil DEF TypeOK
  <2>4. \A i \in DOMAIN layout : Middle <= i => ~Within(layout[i], needle)
    BY <2>1, <2>2, <2>3, NoneAbove DEF TypeOK
  <2>5. NothingCutOff'
    BY <1>0, <1>6, <2>1, <2>4 DEF TakeLower, EndBelow, NothingCutOff, TypeOK
  <2> QED
    BY <1>6, <2>5, <1>T DEF TakeLower, Answered
<1>7. CASE UNCHANGED vars
  BY <1>7, <1>T DEF vars, NothingCutOff, Answered, Contains, FirstStatus
<1> QED
  BY <1>1, <1>2, <1>3, <1>4, <1>5, <1>6, <1>7 DEF Next

LEMMA InvAlways == Spec => []IInv
  BY InvInit, InvStep, PTL DEF Spec

(* The search cuts off no part of the layout that holds the instant, and   *)
(* its result is a period that holds it, if there is any.                  *)
THEOREM SearchCorrect == Spec => []FindsThePeriod
<1>1. IInv => FindsThePeriod
  BY DEF IInv, NothingCutOff, Answered, FindsThePeriod
<1> QED
  BY <1>1, InvAlways, PTL

(* In a configured layout, a name is shown exactly for a well-formed time  *)
(* that lies in one of its periods.                                        *)
THEOREM ShownCorrect == Spec => []ShownIfConfigured
<1>1. IInv => ShownIfConfigured
  <2> SUFFICES ASSUME IInv, pc = "idle", status \notin {0, 403}, layout # DefaultLayout
               PROVE  status = 200 <=> ~bad /\ Contains(layout, needle)
    BY DEF ShownIfConfigured
  <2>0. Len(layout) \in Nat /\ DOMAIN layout = 1 .. Len(layout)
    BY LayoutLength DEF IInv, TypeOK
  <2>1. InTimeOrder(layout)
    BY DEF IInv, TypeOK, Legal
  <2>2. \A i \in DOMAIN layout : layout[i] \in Period /\ layout[i] # Nil
    BY <2>1, TimetableAssumption DEF InTimeOrder
  <2>3. /\ found \in DOMAIN layout \cup {0}
        /\ found # 0 => Within(layout[found], needle)
        /\ found = 0 => ~Contains(layout, needle)
        /\ status = FirstStatus(bad, found)
    BY DEF IInv, Answered
  <2>4. found = 0 <=> ~Contains(layout, needle)
    BY <2>0, <2>3 DEF Contains
  <2>5. found # 0 => layout[found] # Nil
    BY <2>0, <2>2, <2>3
  <2>6. CASE bad
    <3>1. FirstStatus(bad, found) = 400
      BY <2>6, Zenon DEF FirstStatus
    <3>2. status # 200
      BY <2>3, <3>1
    <3> QED
      BY <2>6, <3>2, Zenon
  <2>7. CASE ~bad
    <3>1. FirstStatus(bad, found) = IF found = 0 THEN 404 ELSE 200
      BY <2>5, <2>7, Zenon DEF FirstStatus
    <3>2. status = 200 <=> found # 0
      BY <2>3, <3>1
    <3> QED
      BY <2>4, <2>7, <3>2, Zenon
  <2> QED
    BY <2>6, <2>7
<1> QED
  BY <1>1, InvAlways, PTL

(* The slice is at least halved by every call. *)
THEOREM DepthBounded == Spec => CallsHalve
<1>1. TypeOK /\ [Next]_vars
        => [pc = "search" /\ pc' = "search"
              => hi' - lo' + 1 <= (hi - lo + 1) \div 2]_vars
  <2> SUFFICES ASSUME TypeOK, Next, pc = "search", pc' = "search"
               PROVE  hi' - lo' + 1 <= (hi - lo + 1) \div 2
    BY DEF vars
  <2>0. Len(layout) \in Nat
    BY LayoutLength DEF TypeOK
  <2>1. TakeUpper \/ TakeLower
    BY DEF Next, Refused, Asked, Exhausted, Hit, Return
  <2> QED
    BY <2>0, <2>1 DEF TakeUpper, TakeLower, StartAbove, EndBelow, Middle, TypeOK
<1> QED
  BY <1>1, TypeCorrect, PTL DEF Spec, CallsHalve
=============================================================================
