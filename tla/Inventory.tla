----------------------------- MODULE Inventory -----------------------------
(***************************************************************************)
(* The inventory, the bookings that draw on it, and what the server says   *)
(* of an item between two times: who has booked it, how many are asked     *)
(* for, how many are left.                                                 *)
(*                                                                         *)
(* Of a booking only its times and, for every item, the number of its      *)
(* equipment sets with the item and their total quantity are kept.         *)
(***************************************************************************)
EXTENDS Integers, FiniteSets

CONSTANTS
    Items,     \* inventory items (their IDs)
    Slots,     \* the times a form may ask for: records [start, end]
    Tickets,   \* bookings
    MaxQty     \* bound: the largest quantity

ASSUME InventoryAssumption ==
    /\ Slots \subseteq [start: Nat, end: Nat] /\ MaxQty \in Nat \ {0}
    /\ IsFiniteSet(Tickets) /\ IsFiniteSet(Items)

VARIABLES
    items,    \* table equipment_items
    booked    \* table bookings, with the sets of their activities

stock == <<items, booked>>

Item == [state: {"none", "live", "deleted"}, qty: 0 .. MaxQty, available: BOOLEAN]
Wants == [Items -> [sets: Nat, total: Nat]]
Booking == [slot: Slots, wants: Wants]
NoBooking == [wants |-> [i \in Items |-> [sets |-> 0, total |-> 0]]]

InventoryTypeOK ==
    /\ items \in [Items -> Item]
    /\ booked \in [Tickets -> {NoBooking} \cup Booking]

Live(t) == booked[t] # NoBooking
Stocked(i) == items[i].state = "live"

-----------------------------------------------------------------------------
(* EquipmentItem.Bookings, Usage and NetQuantity *)

(* A mutant: the comparisons are strict. *)
InRegionStrictly(b, s) ==
    \/ b.start < s.start /\ b.end > s.start
    \/ b.start > s.start /\ b.start < s.end

(* The two disjuncts of the query. *)
InRegion(b, s) ==
    \/ b.start <= s.start /\ b.end >= s.start
    \/ b.start >= s.start /\ b.start <= s.end

Bookings(i, s) ==
    {t \in Tickets : Live(t) /\ InRegion(booked[t].slot, s) /\ booked[t].wants[i].sets > 0}

(* The sum of the values of f, counted unit by unit: no recursion, so that *)
(* sums can be compared by comparing sets.                                 *)
Units(f) == UNION {{t} \X (1 .. f[t]) : t \in DOMAIN f}
SumOf(f) == Cardinality(Units(f))

(* A booking is listed once for each of its sets with the item, and its    *)
(* whole quantity is added for every time it is listed.                    *)
Usage(i, s) ==
    SumOf([t \in Bookings(i, s) |-> booked[t].wants[i].sets * booked[t].wants[i].total])

(* Of what there is, available or not. *)
NetQuantity(i, qty, s) == qty - Usage(i, s)

-----------------------------------------------------------------------------
(* Single statements on one row *)

Enter(t, slot, wants) == booked' = [booked EXCEPT ![t] = [slot |-> slot, wants |-> wants]]

(* The owner cancels, or the booking is cleaned. *)
Cancel(t) ==
    /\ Live(t)
    /\ booked' = [booked EXCEPT ![t] = NoBooking]
    /\ UNCHANGED items

(* handleAPICreateItem *)
CreateItem(i, qty, available) ==
    /\ items[i].state = "none"
    /\ items' = [items EXCEPT ![i] = [state |-> "live", qty |-> qty, available |-> available]]
    /\ UNCHANGED booked

(* handleAPIEditItem: the form's fields replace those read; Updates writes *)
(* them but for zero fields, a quantity of zero and a FALSE, which it      *)
(* takes for not given.  The last of five more statements writes the       *)
(* availability, whatever it is, unless one before it failed.  (A body     *)
(* with a deleted_at does what handleItemDelete does.)                     *)
EditItem(i, qty, available) ==
    /\ Stocked(i)
    /\ \E failed \in BOOLEAN :
        items' = [items EXCEPT ![i].qty = IF qty = 0 THEN @ ELSE qty,
                               ![i].available = IF failed THEN @ \/ available ELSE available]
    /\ UNCHANGED booked

(* handleItemDelete *)
DeleteItem(i) ==
    /\ Stocked(i)
    /\ items' = [items EXCEPT ![i].state = "deleted"]
    /\ UNCHANGED booked

-----------------------------------------------------------------------------
(* Properties *)

Within(b, n) == b.start <= n /\ n <= b.end

(* The number of i that the bookings in S ask for, and all those that last *)
(* at the instant n.                                                       *)
Demand(i, S) == SumOf([t \in S |-> booked[t].wants[i].total])
DemandAt(i, n) == Demand(i, {t \in Tickets : Live(t) /\ Within(booked[t].slot, n)})

(* No form is checked for an end before its start. *)
Forward(b) == b.start <= b.end

(* Usage counts exactly the bookings that share an instant with the times  *)
(* asked about, whatever way they overlap, as long as no booking lists the *)
(* item both among its own equipment and among the extras, and none ends   *)
(* before it starts.                                                       *)
UsageExact ==
    \A i \in Items, s \in {b \in Slots : Forward(b)} :
        (\A t \in Tickets : /\ booked[t].wants[i].sets <= 1
                            /\ Live(t) => Forward(booked[t].slot)) =>
            Usage(i, s) = Demand(i, {t \in Tickets : Live(t) /\
                    \E n \in s.start .. s.end : Within(booked[t].slot, n)})
=============================================================================
