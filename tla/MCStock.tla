------------------------------ MODULE MCStock ------------------------------
(* Instances of Stock for TLC. *)
EXTENDS Stock, TLC

CONSTANTS a, b   \* two items

(* Slots: the first two touch, the third lies within the second, the last ends *)
(* before it starts.                                                           *)
SmallSlots == {[start |-> 0, end |-> 1], [start |-> 1, end |-> 3], [start |-> 2, end |-> 2],
               [start |-> 3, end |-> 2]}

(* Forms: of a's own and of extras, with no extra of b; an edit that posts *)
(* none of a.                                                              *)
SmallForms == {Core(a) :> 2, Core(a) :> 1 @@ Extra(a) :> 1, Core(a) :> 1 @@ Core(b) :> 1,
               Extra(a) :> 2 @@ Extra(b) :> 0}
SmallEdits == {[key \in {} |-> 0], Core(a) :> 0 @@ Core(b) :> 1, Core(a) :> 2 @@ Core(b) :> 1}
============================================================================
