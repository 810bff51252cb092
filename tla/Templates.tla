----------------------------- MODULE Templates -----------------------------
(***************************************************************************)
(* The equipment sets of one permanent activity, and what a submitted form *)
(* makes of them.                                                          *)
(*                                                                         *)
(* A form gives a quantity, perhaps zero, to some keys [item, important].  *)
(* Important tells an activity's own equipment from the extras of one      *)
(* booking, which a permanent activity does not have.                      *)
(***************************************************************************)
EXTENDS Inventory

CONSTANT SetIds     \* IDs of equipment sets, given out in order: 1 .. n

ASSUME TemplatesAssumption == IsFiniteSet(SetIds) /\ SetIds = 1 .. Cardinality(SetIds)

VARIABLE sets       \* table equipment_sets, the rows of the activity

Key == [item: Items, important: BOOLEAN]
Form == UNION {[keys -> 0 .. MaxQty] : keys \in SUBSET Key}
Asked(form, key) == IF key \in DOMAIN form THEN form[key] ELSE 0
Core(i) == [item |-> i, important |-> TRUE]
Extra(i) == [item |-> i, important |-> FALSE]

NoSet == [live |-> FALSE]
EquipmentSet == {NoSet} \cup [live: BOOLEAN, key: Key, qty: 0 .. MaxQty, stamp: Nat]

Equipment == {k \in SetIds : sets[k].live}

-----------------------------------------------------------------------------
(* ItemInformation.Copy(&act), the sets of act being those with the IDs    *)
(* ids: the first with a key gets the quantity of the form, and a key that *)
(* has none gets a new set, be its quantity zero.                          *)

With(key, ids) == {k \in ids : sets[k].key = key}
FirstWith(k, ids) == \A j \in With(sets[k].key, ids) : k <= j

CopiesTo(k, ids, form) == sets[k].key \in DOMAIN form /\ FirstWith(k, ids)

Lacking(ids, form) == {key \in DOMAIN form : With(key, ids) = {}}

-----------------------------------------------------------------------------
(* The statements of handleActivityDoEdit.  mine is what the handler knows *)
(* of the sets it works on: the quantity to write, and updated_at as read  *)
(* (stamp counts the writes of a row); Done where it has nothing to do.    *)

(* Mutants: the quantities read are not set to zero before Copy, or Copy   *)
(* adds to them.                                                           *)
NotZeroed(k, ids, form) == IF CopiesTo(k, ids, form) THEN form[sets[k].key] ELSE sets[k].qty
AddedTo(k, ids, form) == sets[k].qty + (IF CopiesTo(k, ids, form) THEN form[sets[k].key] ELSE 0)

Posted(k, ids, form) == IF CopiesTo(k, ids, form) THEN form[sets[k].key] ELSE 0

Done == [qty |-> 0]
Work == [SetIds -> {Done} \cup [qty: 0 .. MaxQty, stamp: Nat]]
Left(mine) == {k \in SetIds : mine[k] # Done}

Mine(form) ==
    [k \in SetIds |-> IF k \notin Equipment THEN Done
        ELSE [qty |-> Posted(k, Equipment, form), stamp |-> sets[k].stamp]]

(* Database.Updates(&act) inserts the new sets, one after the other in an  *)
(* order of no account, and leaves those there are.                        *)
NextIds(n) ==
    LET used == Cardinality({k \in SetIds : sets[k] # NoSet}) IN used + 1 .. used + n

Inserted(keys, form) ==
    {[k \in SetIds |-> IF k \in DOMAIN of
        THEN [live |-> TRUE, key |-> of[k], qty |-> form[of[k]], stamp |-> 0] ELSE sets[k]] :
     of \in {f \in [NextIds(Cardinality(keys)) -> keys] :
                \A key \in keys : \E k \in DOMAIN f : f[k] = key}}

(* A quantity of zero: deleted if it still is the row that was read.       *)
(* Otherwise updated, if it still is there.                                *)
Saved(k, m) ==
    IF ~sets[k].live THEN sets[k]
    ELSE IF m.qty > 0 THEN [sets[k] EXCEPT !.qty = m.qty, !.stamp = @ + 1]
    ELSE [sets[k] EXCEPT !.live = (@ /\ sets[k].stamp # m.stamp)]
=============================================================================
