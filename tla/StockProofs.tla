---------------------------- MODULE StockProofs ----------------------------
(***************************************************************************)
(* Proofs about Stock, for every number of items, bookings, equipment sets *)
(* and requests: what the server says of an item's usage, what a booking   *)
(* page is advised, and what an edit of an activity's equipment leaves.    *)
(***************************************************************************)
EXTENDS Stock, FiniteSetTheorems, TLAPS

-----------------------------------------------------------------------------
(* Sums *)

Summable(f) == IsFiniteSet(DOMAIN f) /\ \A t \in DOMAIN f : f[t] \in Nat

LEMMA UnitsFinite ==
    ASSUME NEW f, Summable(f)
    PROVE  IsFiniteSet(Units(f))
  <1> DEFINE Of(t) == {t} \X (1 .. f[t])
             All == {Of(t) : t \in DOMAIN f}
             g == [t \in DOMAIN f |-> Of(t)]
  <1>1. g \in Surjection(DOMAIN f, All) BY DEF Surjection
  <1>2. IsFiniteSet(All)
    <2> HIDE DEF g, All
    <2> QED BY <1>1, FS_Surjection DEF Summable
  <1>3. ASSUME NEW t \in DOMAIN f PROVE IsFiniteSet(Of(t))
    <2>1. IsFiniteSet({t}) BY FS_Singleton
    <2>2. IsFiniteSet(1 .. f[t]) BY FS_Interval DEF Summable
    <2> QED BY <2>1, <2>2, FS_Product
  <1>4. \A T \in All : IsFiniteSet(T) BY <1>3
  <1>5. IsFiniteSet(UNION All)
    <2> HIDE DEF All
    <2> QED BY <1>2, <1>4, FS_UNION
  <1> QED BY <1>5 DEF Units

LEMMA SumType ==
    ASSUME NEW f, Summable(f)
    PROVE  SumOf(f) \in Nat
  BY UnitsFinite, FS_CardinalityType DEF SumOf

(* A sum grows with its terms; terms of zero do not count. *)
LEMMA SumGrows ==
    ASSUME NEW f, NEW g, Summable(f), Summable(g),
           \A t \in DOMAIN f : f[t] > 0 => t \in DOMAIN g /\ f[t] <= g[t]
    PROVE  SumOf(f) <= SumOf(g)
  <1>1. ASSUME NEW t \in DOMAIN f, NEW n \in 1 .. f[t] PROVE t \in DOMAIN g /\ n \in 1 .. g[t]
    BY DEF Summable
  <1>2. Units(f) \subseteq Units(g) BY <1>1 DEF Units
  <1> QED BY <1>2, UnitsFinite, FS_Subset DEF SumOf

LEMMA SumOfNothing ==
    ASSUME NEW f, Summable(f), \A t \in DOMAIN f : f[t] = 0
    PROVE  SumOf(f) = 0
  <1>1. Units(f) = {} BY DEF Units
  <1> QED BY <1>1, FS_EmptySet DEF SumOf

-----------------------------------------------------------------------------
(* The invariant *)

(* Who has no set of an item asks for none of it. *)
NoneAsked ==
    \A t \in Tickets, i \in Items : booked[t].wants[i].sets = 0 => booked[t].wants[i].total = 0

(* Pages. *)

Both(form, i) == Core(i) \in DOMAIN form /\ Extra(i) \in DOMAIN form

(* Nobody has booked the item then, or there is enough left of it. *)
Fitting(r, i) ==
    \/ Bookings(i, r.slot) = {}
    \/ \E key \in {Core(i), Extra(i)} :
          key \in DOMAIN r.form /\ r.form[key] <= NetQuantity(i, items[i].qty, r.slot)

(* The items the advice has not looked at yet, or not to the end. *)
Unsettled(r) == IF r.pc \in {"net", "list"} THEN r.todo \cup {r.i} ELSE r.todo

PageOK(r) ==
    /\ r.todo \subseteq Wanted(r.form)
    /\ r.pc = "form" => r.todo = Wanted(r.form)
    /\ r.pc \in {"net", "list"} => r.i \in Wanted(r.form)
    /\ r.pc \in {"submit", "book"} => r.todo = {}
    /\ r.pc = "net" /\ r.clean => r.qty = items[r.i].qty
    /\ r.clean /\ ~r.shown => \A i \in Wanted(r.form) \ Unsettled(r) : Fitting(r, i)
    /\ r.pc = "book" => \A i \in Items :
          /\ r.wants[i].sets = 0 => r.wants[i].total = 0
          /\ r.wants[i].sets = 1 => ~Both(r.form, i)

Pages == \A h \in Handlers : req[h].op = "book" => PageOK(req[h])

(* Edits. *)

(* The IDs given out are the first ones. *)
Used == {k \in SetIds : sets[k] # NoSet}
FirstUsed == \E n \in Nat : Used = 1 .. n

(* What the quantity of a set will be when the edit is done. *)
Coming(mine, k) == IF k \in Left(mine) THEN mine[k].qty ELSE sets[k].qty

(* Each key of the form has one set that will have its quantity; the others *)
(* are still to be deleted.                                                 *)
Settled(form, mine) ==
    /\ \A key \in Key : Asked(form, key) > 0 =>
          \E k \in Equipment : sets[k].key = key /\ Coming(mine, k) > 0
    /\ \A k \in Equipment : Coming(mine, k) > 0 =>
          /\ Coming(mine, k) = Asked(form, sets[k].key)
          /\ \A j \in Equipment : Coming(mine, j) > 0 /\ sets[j].key = sets[k].key => j = k
    /\ \A k \in Equipment \ Left(mine) : sets[k].qty > 0

(* The sets still to be saved are as they were read; all is settled once the *)
(* new sets are there.                                                       *)
EditOK(r) ==
    /\ \A k \in Left(r.mine) : sets[k].live /\ r.mine[k].stamp = sets[k].stamp
    /\ r.pc = "insert" => r.mine = Mine(r.form)
    /\ r.pc = "sets" => Settled(r.form, r.mine)

Edits ==
    \A h \in Handlers : req[h].op = "edit" =>
        /\ req[h].pc = "sets" => Left(req[h].mine) # {}
        /\ req[h].clean => EditOK(req[h])

IInv == TypeOK /\ NoneAsked /\ Pages /\ FirstUsed /\ Edits

-----------------------------------------------------------------------------
(* Usage *)

LEMMA WantsType ==
    ASSUME InventoryTypeOK, NEW t \in Tickets, NEW i \in Items
    PROVE  /\ booked[t].wants[i] \in [sets: Nat, total: Nat]
           /\ Live(t) => booked[t] \in Booking /\ booked[t].slot \in [start: Nat, end: Nat]
  BY InventoryAssumption DEF InventoryTypeOK, NoBooking, Booking, Wants, Live

LEMMA Countable ==
    ASSUME InventoryTypeOK, NEW S \in SUBSET Tickets, NEW i \in Items
    PROVE  /\ Summable([t \in S |-> booked[t].wants[i].total])
           /\ Summable([t \in S |-> booked[t].wants[i].sets * booked[t].wants[i].total])
  <1>1. IsFiniteSet(S) BY InventoryAssumption, FS_Subset
  <1>2. \A t \in S : booked[t].wants[i].total \in Nat /\ booked[t].wants[i].sets \in Nat
    BY WantsType
  <1>3. \A m, n \in Nat : m * n \in Nat OBVIOUS
  <1> QED BY <1>1, <1>2, <1>3 DEF Summable

LEMMA UsageType ==
    ASSUME InventoryTypeOK, NEW i \in Items, NEW s
    PROVE  Usage(i, s) \in Nat
  <1>1. Bookings(i, s) \in SUBSET Tickets BY DEF Bookings
  <1> QED BY <1>1, Countable, SumType DEF Usage

LEMMA DemandType ==
    ASSUME InventoryTypeOK, NEW i \in Items, NEW n
    PROVE  DemandAt(i, n) \in Nat
  <1>1. {t \in Tickets : Live(t) /\ Within(booked[t].slot, n)} \in SUBSET Tickets OBVIOUS
  <1> QED BY <1>1, Countable, SumType DEF DemandAt, Demand

(* The two disjuncts of the query say that the times overlap. *)
LEMMA RegionIsOverlap ==
    ASSUME NEW b \in [start: Nat, end: Nat], NEW s \in [start: Nat, end: Nat]
    PROVE  /\ \A n \in s.start .. s.end : Within(b, n) => InRegion(b, s)
           /\ Forward(b) /\ Forward(s) /\ InRegion(b, s) =>
                \E n \in s.start .. s.end : Within(b, n)
  <1>1. ASSUME NEW n \in s.start .. s.end, Within(b, n) PROVE InRegion(b, s)
    BY <1>1 DEF Within, InRegion
  <1>2. ASSUME Forward(b), Forward(s), InRegion(b, s)
        PROVE  \E n \in s.start .. s.end : Within(b, n)
    <2>1. CASE b.start <= s.start
      <3>1. s.start \in s.start .. s.end /\ Within(b, s.start)
        BY <1>2, <2>1 DEF Forward, InRegion, Within
      <3> QED BY <3>1
    <2>2. CASE b.start >= s.start
      <3>1. CASE b.start <= s.end
        <4>1. b.start \in s.start .. s.end /\ Within(b, b.start)
          BY <1>2, <2>2, <3>1 DEF Forward, Within
        <4> QED BY <4>1
      <3>2. CASE b.start > s.end
        <4>1. s.start \in s.start .. s.end /\ Within(b, s.start)
          BY <1>2, <2>2, <3>2 DEF Forward, InRegion, Within
        <4> QED BY <4>1
      <3> QED BY <3>1, <3>2
    <2> QED BY <2>1, <2>2
  <1> QED BY <1>1, <1>2

(* Whoever asks for an item at an instant is counted for all times around it. *)
LEMMA UsageCoversDemand ==
    ASSUME InventoryTypeOK, NoneAsked, NEW i \in Items, NEW s \in Slots,
           NEW n \in s.start .. s.end
    PROVE  /\ DemandAt(i, n) <= Usage(i, s)
           /\ Bookings(i, s) = {} => DemandAt(i, n) = 0
  <1> DEFINE At_n == {t \in Tickets : Live(t) /\ Within(booked[t].slot, n)}
             f == [t \in At_n |-> booked[t].wants[i].total]
             g == [t \in Bookings(i, s) |-> booked[t].wants[i].sets * booked[t].wants[i].total]
  <1>1. At_n \in SUBSET Tickets /\ Bookings(i, s) \in SUBSET Tickets BY DEF Bookings
  <1>2. Summable(f) /\ Summable(g) BY <1>1, Countable
  <1>3. ASSUME NEW t \in At_n, booked[t].wants[i].total > 0
        PROVE  /\ t \in Bookings(i, s)
               /\ booked[t].wants[i].total <= booked[t].wants[i].sets * booked[t].wants[i].total
    <2>1. /\ booked[t].wants[i].sets \in Nat /\ booked[t].wants[i].total \in Nat
          /\ booked[t].slot \in [start: Nat, end: Nat]
      BY WantsType
    <2>2. booked[t].wants[i].sets > 0 BY <1>3, <2>1 DEF NoneAsked
    <2>3. InRegion(booked[t].slot, s) BY <2>1, RegionIsOverlap, InventoryAssumption
    <2>4. \A m, k \in Nat : m > 0 => k <= m * k OBVIOUS
    <2> QED BY <2>1, <2>2, <2>3, <2>4 DEF Bookings
  <1>4. SumOf(f) <= SumOf(g)
    <2>1. \A t \in DOMAIN f : f[t] > 0 => t \in DOMAIN g /\ f[t] <= g[t] BY <1>3
    <2> HIDE DEF f, g
    <2> QED BY <1>2, <2>1, SumGrows
  <1>5. ASSUME Bookings(i, s) = {} PROVE SumOf(f) = 0
    <2>1. \A t \in DOMAIN f : f[t] = 0 BY <1>3, <1>5, WantsType
    <2> HIDE DEF f
    <2> QED BY <1>2, <2>1, SumOfNothing
  <1> QED BY <1>4, <1>5 DEF DemandAt, Demand, Usage

LEMMA UsageIsDemand == TypeOK /\ NoneAsked => UsageExact
  <1> SUFFICES ASSUME InventoryTypeOK, NoneAsked, NEW i \in Items, NEW s \in Slots, Forward(s),
                      \A t \in Tickets : /\ booked[t].wants[i].sets <= 1
                                         /\ Live(t) => Forward(booked[t].slot)
               PROVE  Usage(i, s) = Demand(i, {t \in Tickets : Live(t) /\
                          \E n \in s.start .. s.end : Within(booked[t].slot, n)})
    BY DEF UsageExact, TypeOK
  <1> DEFINE S == {t \in Tickets : Live(t) /\
                     \E n \in s.start .. s.end : Within(booked[t].slot, n)}
             f == [t \in S |-> booked[t].wants[i].total]
             g == [t \in Bookings(i, s) |-> booked[t].wants[i].sets * booked[t].wants[i].total]
  <1>1. S \in SUBSET Tickets /\ Bookings(i, s) \in SUBSET Tickets BY DEF Bookings
  <1>2. Summable(f) /\ Summable(g) BY <1>1, Countable
  <1>3. ASSUME NEW t \in S, booked[t].wants[i].total > 0
        PROVE  /\ t \in Bookings(i, s)
               /\ booked[t].wants[i].total = booked[t].wants[i].sets * booked[t].wants[i].total
    <2>1. /\ booked[t].wants[i].sets \in Nat /\ booked[t].wants[i].total \in Nat
          /\ booked[t].slot \in [start: Nat, end: Nat]
      BY WantsType
    <2>2. booked[t].wants[i].sets = 1 BY <1>3, <2>1 DEF NoneAsked
    <2>3. InRegion(booked[t].slot, s) BY <2>1, RegionIsOverlap, InventoryAssumption
    <2> QED BY <2>1, <2>2, <2>3 DEF Bookings
  <1>4. ASSUME NEW t \in Bookings(i, s)
        PROVE  /\ t \in S
               /\ booked[t].wants[i].sets * booked[t].wants[i].total = booked[t].wants[i].total
    <2>1. /\ booked[t].wants[i].sets \in Nat /\ booked[t].wants[i].total \in Nat
          /\ booked[t].slot \in [start: Nat, end: Nat] /\ Live(t)
      BY WantsType DEF Bookings
    <2>2. booked[t].wants[i].sets = 1 BY <2>1 DEF Bookings
    <2>3. \E n \in s.start .. s.end : Within(booked[t].slot, n)
      BY <2>1, RegionIsOverlap, InventoryAssumption DEF Bookings
    <2> QED BY <1>1, <2>1, <2>2, <2>3
  <1>5. SumOf(f) \in Nat /\ SumOf(g) \in Nat BY <1>2, SumType
  <1>6. SumOf(f) <= SumOf(g)
    <2>1. \A t \in DOMAIN f : f[t] > 0 => t \in DOMAIN g /\ f[t] <= g[t] BY <1>3, <1>1, WantsType
    <2> HIDE DEF f, g
    <2> QED BY <1>2, <2>1, SumGrows
  <1>7. SumOf(g) <= SumOf(f)
    <2>1. \A t \in DOMAIN g : g[t] > 0 => t \in DOMAIN f /\ g[t] <= f[t] BY <1>4, <1>1, WantsType
    <2> HIDE DEF f, g
    <2> QED BY <1>2, <2>1, SumGrows
  <1> QED BY <1>5, <1>6, <1>7 DEF Usage, Demand

-----------------------------------------------------------------------------
(* Types *)

Request == {Idle} \cup Page \cup Edit \cup New

LEMMA SetType ==
    ASSUME TypeOK, NEW k \in SetIds
    PROVE  /\ sets[k] \in EquipmentSet /\ sets[k].live \in BOOLEAN
           /\ sets[k] # NoSet =>
                sets[k] \in [live: BOOLEAN, key: Key, qty: 0 .. MaxQty, stamp: Nat]
           /\ sets[k].live => sets[k] # NoSet
  <1>1. sets[k] \in EquipmentSet BY DEF TypeOK
  <1>2. NoSet.live = FALSE BY DEF NoSet
  <1>3. sets[k] # NoSet =>
          sets[k] \in [live: BOOLEAN, key: Key, qty: 0 .. MaxQty, stamp: Nat]
    BY <1>1 DEF EquipmentSet
  <1>4. sets[k].live \in BOOLEAN
    <2>1. CASE sets[k] = NoSet BY <2>1, <1>2
    <2>2. CASE sets[k] # NoSet BY <2>2, <1>3
    <2> QED BY <2>1, <2>2
  <1>5. sets[k].live => sets[k] # NoSet BY <1>2
  <1> QED BY <1>1, <1>3, <1>4, <1>5

LEMMA KeyFinite == IsFiniteSet(Key)
  <1> DEFINE f == [p \in Items \X BOOLEAN |-> [item |-> p[1], important |-> p[2]]]
  <1>1. IsFiniteSet(BOOLEAN)
    <2>1. IsFiniteSet({TRUE}) /\ IsFiniteSet({FALSE}) BY FS_Singleton
    <2>2. IsFiniteSet({TRUE} \cup {FALSE}) BY <2>1, FS_Union
    <2>3. BOOLEAN = {TRUE} \cup {FALSE} OBVIOUS
    <2> QED BY <2>2, <2>3
  <1>2. IsFiniteSet(Items \X BOOLEAN) BY <1>1, FS_Product, InventoryAssumption
  <1>3. f \in Surjection(Items \X BOOLEAN, Key)
    <2>1. f \in [Items \X BOOLEAN -> Key] BY DEF Key
    <2>2. ASSUME NEW key \in Key PROVE \E p \in Items \X BOOLEAN : f[p] = key
      <3>1. <<key.item, key.important>> \in Items \X BOOLEAN BY DEF Key
      <3>2. f[<<key.item, key.important>>] = key BY <3>1 DEF Key
      <3> QED BY <3>1, <3>2
    <2> HIDE DEF f
    <2> QED BY <2>1, <2>2 DEF Surjection
  <1> QED
    <2> HIDE DEF f
    <2> QED BY <1>2, <1>3, FS_Surjection

LEMMA KeysOf ==
    ASSUME NEW i \in Items
    PROVE  /\ Core(i) \in Key /\ Extra(i) \in Key /\ Core(i) # Extra(i)
           /\ Core(i).item = i /\ Extra(i).item = i
  BY DEF Core, Extra, Key

LEMMA FormType ==
    ASSUME NEW form \in Form
    PROVE  /\ DOMAIN form \subseteq Key
           /\ \A key \in DOMAIN form : form[key] \in 0 .. MaxQty
  <1>1. PICK keys \in SUBSET Key : form \in [keys -> 0 .. MaxQty] BY DEF Form
  <1> QED BY <1>1

LEMMA AskedType ==
    ASSUME NEW form \in Form, NEW key
    PROVE  /\ Asked(form, key) \in 0 .. MaxQty /\ Asked(form, key) \in Nat
           /\ Asked(form, key) > 0 => key \in DOMAIN form /\ Asked(form, key) = form[key]
  <1>1. CASE key \in DOMAIN form BY <1>1, FormType, InventoryAssumption DEF Asked
  <1>2. CASE key \notin DOMAIN form
    <2>1. Asked(form, key) = 0 BY <1>2 DEF Asked
    <2> QED BY <2>1, InventoryAssumption
  <1> QED BY <1>1, <1>2

LEMMA OneOrTwo ==
    ASSUME NEW S, IsFiniteSet(S)
    PROVE  /\ Cardinality(S) \in Nat
           /\ Cardinality(S) = 0 => S = {}
           /\ \A x, y \in S : x # y => Cardinality(S) > 1
  <1>1. Cardinality(S) \in Nat BY FS_CardinalityType
  <1>2. Cardinality(S) = 0 => S = {} BY FS_EmptySet
  <1>3. Cardinality(S) = 1 => \E x : S = {x} BY FS_Singleton
  <1> QED BY <1>1, <1>2, <1>3

(* What a submission's clone holds of an item: if only one set of it, then it *)
(* is not asked for both as own and as extra equipment.                       *)
LEMMA CopiedType ==
    ASSUME TypeOK, NEW i \in Items, NEW form \in Form
    PROVE  /\ Copied(i, form) \in [sets: Nat, total: Nat]
           /\ Copied(i, form).sets = 0 => Copied(i, form).total = 0
           /\ Copied(i, form).sets = 1 => ~Both(form, i)
  <1> DEFINE own == {k \in Equipment : sets[k].key.item = i}
             added == {key \in Lacking(Equipment, form) : key.item = i}
             f == [k \in own |-> IF CopiesTo(k, Equipment, form)
                                 THEN form[sets[k].key] ELSE sets[k].qty]
             g == [key \in added |-> form[key]]
  <1>1. IsFiniteSet(own) BY TemplatesAssumption, FS_Subset DEF Equipment
  <1>2. IsFiniteSet(added)
    <2>1. added \subseteq Key BY FormType DEF Lacking
    <2> HIDE DEF added
    <2> QED BY <2>1, KeyFinite, FS_Subset
  <1>3. Summable(f)
    <2>1. ASSUME NEW k \in own PROVE f[k] \in Nat
      <3>1. sets[k].key \in Key /\ sets[k].qty \in Nat
        BY SetType, InventoryAssumption DEF Equipment
      <3>2. CopiesTo(k, Equipment, form) => form[sets[k].key] \in Nat
        BY FormType, InventoryAssumption DEF CopiesTo
      <3> QED BY <3>1, <3>2
    <2> QED BY <1>1, <2>1 DEF Summable
  <1>4. Summable(g)
    <2>1. \A key \in added : form[key] \in Nat BY FormType, InventoryAssumption DEF Lacking
    <2> QED BY <1>2, <2>1 DEF Summable
  <1>5. Copied(i, form) = [sets |-> Cardinality(own) + Cardinality(added),
                           total |-> SumOf(f) + SumOf(g)]
    BY DEF Copied
  <1>6. /\ Cardinality(own) \in Nat /\ Cardinality(added) \in Nat
        /\ SumOf(f) \in Nat /\ SumOf(g) \in Nat
    <2> HIDE DEF own, added, f, g
    <2> QED BY <1>1, <1>2, <1>3, <1>4, SumType, FS_CardinalityType
  <1>7. Copied(i, form) \in [sets: Nat, total: Nat]
    <2> HIDE DEF own, added, f, g
    <2> QED BY <1>5, <1>6
  <1>8. ASSUME Cardinality(own) + Cardinality(added) = 0 PROVE SumOf(f) + SumOf(g) = 0
    <2>1. own = {} /\ added = {}
      <3> HIDE DEF own, added
      <3> QED BY <1>1, <1>2, <1>6, <1>8, OneOrTwo
    <2>2. (\A k \in DOMAIN f : f[k] = 0) /\ (\A key \in DOMAIN g : g[key] = 0) BY <2>1
    <2> HIDE DEF f, g
    <2> QED BY <2>2, <1>3, <1>4, SumOfNothing
  <1>9. ASSUME Both(form, i) PROVE Cardinality(own) + Cardinality(added) > 1
    <2>1. /\ Core(i) \in Key /\ Extra(i) \in Key /\ Core(i) # Extra(i)
          /\ Core(i).item = i /\ Extra(i).item = i
      BY DEF Core, Extra, Key
    <2>2. ASSUME NEW key \in {Core(i), Extra(i)}
          PROVE  key \in added \/ \E k \in own : sets[k].key = key
      BY <1>9, <2>1, <2>2 DEF Both, Lacking, With
    <2>3. CASE Core(i) \in added /\ Extra(i) \in added
      <3> HIDE DEF own, added
      <3> QED BY <2>1, <2>3, <1>2, <1>6, OneOrTwo
    <2>4. CASE \E k \in own, j \in own : sets[k].key = Core(i) /\ sets[j].key = Extra(i)
      <3>1. \E k, j \in own : k # j BY <2>1, <2>4
      <3> HIDE DEF own, added
      <3> QED BY <3>1, <1>1, <1>6, OneOrTwo
    <2>5. CASE own # {} /\ added # {}
      <3> HIDE DEF own, added
      <3>1. Cardinality(own) # 0 /\ Cardinality(added) # 0 BY <2>5, <1>1, <1>2, OneOrTwo
      <3> QED BY <3>1, <1>6
    <2> QED BY <2>2, <2>3, <2>4, <2>5
  <1> HIDE DEF own, added, f, g
  <1> QED BY <1>5, <1>6, <1>7, <1>8, <1>9

-----------------------------------------------------------------------------
(* Equipment sets *)

LEMMA Smallest ==
    ASSUME NEW S \in SUBSET Nat, S # {}
    PROVE  \E m \in S : \A k \in S : m <= k
  <1> DEFINE Less == {p \in Nat \X Nat : p[1] < p[2]}
  <1>1. IsWellFoundedOn(Less, Nat) BY NatLessThanWellFounded DEF OpToRel
  <1>2. PICK m \in S : \A k \in S : <<k, m>> \notin Less
    <2> HIDE DEF Less
    <2> QED BY <1>1, WFMin
  <1>3. \A k \in S : ~ (k < m) BY <1>2
  <1> QED BY <1>3

LEMMA SetIdsType == SetIds \subseteq Nat /\ IsFiniteSet(SetIds) /\ Cardinality(SetIds) \in Nat
  <1>1. Cardinality(SetIds) \in Nat BY TemplatesAssumption, FS_CardinalityType
  <1> QED BY <1>1, TemplatesAssumption

LEMMA NotDone == \A q, s : [qty |-> q, stamp |-> s] # Done
  <1> SUFFICES ASSUME NEW q, NEW s, [qty |-> q, stamp |-> s] = [qty |-> 0] PROVE FALSE
    BY DEF Done
  <1>1. "stamp" \in DOMAIN [qty |-> q, stamp |-> s] /\ "stamp" \notin DOMAIN [qty |-> 0] OBVIOUS
  <1> QED BY <1>1

LEMMA WorkType ==
    ASSUME NEW mine \in Work, NEW k \in SetIds
    PROVE  /\ mine[k].qty \in 0 .. MaxQty
           /\ k \in Left(mine) => mine[k] \in [qty: 0 .. MaxQty, stamp: Nat]
           /\ [mine EXCEPT ![k] = Done] \in Work
           /\ Left([mine EXCEPT ![k] = Done]) = Left(mine) \ {k}
  <1>1. Done.qty = 0 /\ 0 \in 0 .. MaxQty BY InventoryAssumption DEF Done
  <1>2. mine[k] \in {Done} \cup [qty: 0 .. MaxQty, stamp: Nat] BY DEF Work
  <1>3. [mine EXCEPT ![k] = Done] \in Work BY DEF Work
  <1>4. Left([mine EXCEPT ![k] = Done]) = Left(mine) \ {k} BY DEF Work, Left
  <1> QED BY <1>1, <1>2, <1>3, <1>4 DEF Left

LEMMA PostedType ==
    ASSUME TypeOK, NEW form \in Form, NEW k \in Equipment
    PROVE  /\ sets[k].key \in Key
           /\ Posted(k, Equipment, form) \in 0 .. MaxQty
  <1>1. sets[k].key \in Key BY SetType DEF Equipment
  <1>2. CopiesTo(k, Equipment, form) => form[sets[k].key] \in 0 .. MaxQty
    BY FormType DEF CopiesTo
  <1>3. 0 \in 0 .. MaxQty BY InventoryAssumption
  <1> QED BY <1>1, <1>2, <1>3 DEF Posted

(* An edit starts with all the sets to save. *)
LEMMA MineType ==
    ASSUME TypeOK, NEW form \in Form
    PROVE  /\ Mine(form) \in Work
           /\ Left(Mine(form)) = Equipment
           /\ \A k \in Equipment : /\ Mine(form)[k].qty = Posted(k, Equipment, form)
                                   /\ Mine(form)[k].stamp = sets[k].stamp
  <1>1. ASSUME NEW k \in Equipment
        PROVE  [qty |-> Posted(k, Equipment, form), stamp |-> sets[k].stamp]
                 \in [qty: 0 .. MaxQty, stamp: Nat]
    BY PostedType, SetType DEF Equipment
  <1>2. Mine(form) \in Work BY <1>1 DEF Mine, Work
  <1>3. Left(Mine(form)) = Equipment BY NotDone DEF Mine, Left, Equipment
  <1> QED BY <1>2, <1>3 DEF Mine, Equipment

(* The IDs of new sets follow the ones used so far. *)
LEMMA FreshIds ==
    ASSUME FirstUsed, NEW c \in Nat, NextIds(c) \subseteq SetIds
    PROVE  /\ NextIds(c) \cap Used = {}
           /\ IsFiniteSet(NextIds(c)) /\ Cardinality(NextIds(c)) = c
           /\ \E n \in Nat : Used \cup NextIds(c) = 1 .. n
  <1>1. PICK n \in Nat : Used = 1 .. n BY DEF FirstUsed
  <1>2. Cardinality(Used) = n BY <1>1, FS_Interval
  <1>3. NextIds(c) = n + 1 .. n + c BY <1>2 DEF NextIds, Used
  <1>4. IsFiniteSet(NextIds(c)) /\ Cardinality(NextIds(c)) = c BY <1>3, FS_Interval
  <1>5. Used \cup NextIds(c) = 1 .. n + c BY <1>1, <1>3
  <1>6. NextIds(c) \cap Used = {} BY <1>1, <1>3
  <1> QED BY <1>4, <1>5, <1>6

(* The rows there are stay; each of the keys gets one new row. *)
LEMMA InsertedSets ==
    ASSUME TypeOK, NEW form \in Form, NEW keys \in SUBSET DOMAIN form, FirstUsed,
           NextIds(Cardinality(keys)) \subseteq SetIds,
           NEW s \in Inserted(keys, form)
    PROVE  /\ s \in [SetIds -> EquipmentSet]
           /\ \A k \in SetIds \ NextIds(Cardinality(keys)) : s[k] = sets[k]
           /\ \A k \in NextIds(Cardinality(keys)) :
                /\ s[k].live /\ s[k].key \in keys /\ s[k].stamp = 0
                /\ s[k].qty = form[s[k].key] /\ s[k].qty \in 0 .. MaxQty
                /\ s[k] # NoSet
           /\ \A key \in keys : \E k \in NextIds(Cardinality(keys)) : s[k].key = key
           /\ \A j, k \in NextIds(Cardinality(keys)) : s[j].key = s[k].key => j = k
  <1> DEFINE ids == NextIds(Cardinality(keys))
  <1>1. PICK of \in [ids -> keys] :
          /\ \A key \in keys : \E k \in DOMAIN of : of[k] = key
          /\ s = [k \in SetIds |->
               IF k \in DOMAIN of
               THEN [live |-> TRUE, key |-> of[k], qty |-> form[of[k]], stamp |-> 0] ELSE sets[k]]
    BY DEF Inserted
  <1>2. DOMAIN of = ids OBVIOUS
  <1>3. ASSUME NEW k \in ids
        PROVE  /\ s[k] = [live |-> TRUE, key |-> of[k], qty |-> form[of[k]], stamp |-> 0]
               /\ s[k] \in [live: BOOLEAN, key: Key, qty: 0 .. MaxQty, stamp: Nat]
               /\ s[k].live /\ s[k].key = of[k] /\ s[k].stamp = 0 /\ of[k] \in keys
               /\ s[k].qty = form[of[k]] /\ form[of[k]] \in 0 .. MaxQty
    <2>1. of[k] \in keys /\ of[k] \in Key /\ form[of[k]] \in 0 .. MaxQty BY <1>1, FormType
    <2>2. s[k] = [live |-> TRUE, key |-> of[k], qty |-> form[of[k]], stamp |-> 0]
      BY <1>1, <1>2
    <2> QED BY <2>1, <2>2
  <1>4. \A k \in SetIds \ ids : s[k] = sets[k] BY <1>1, <1>2
  <1>5. s \in [SetIds -> EquipmentSet]
    <2>1. ASSUME NEW k \in SetIds PROVE s[k] \in EquipmentSet
      <3>1. CASE k \in ids BY <3>1, <1>3 DEF EquipmentSet
      <3>2. CASE k \notin ids BY <3>2, <1>4 DEF TypeOK
      <3> QED BY <3>1, <3>2
    <2>2. s = [k \in SetIds |-> s[k]] BY <1>1
    <2> QED BY <2>1, <2>2
  <1>6. Cardinality(keys) \in Nat /\ IsFiniteSet(keys)
    <2>1. keys \subseteq Key BY FormType
    <2> QED BY <2>1, KeyFinite, FS_Subset, FS_CardinalityType
  <1>7. IsFiniteSet(ids) /\ Cardinality(ids) = Cardinality(keys) BY <1>6, FreshIds
  <1>8. of \in Surjection(ids, keys) BY <1>1, <1>2 DEF Surjection
  <1>9. of \in Injection(ids, keys)
    <2> HIDE DEF ids
    <2> QED BY <1>7, <1>8, FS_SurjSameCardinalityImpliesInj
  <1>10. \A j, k \in ids : s[j].key = s[k].key => j = k
    <2>1. \A j, k \in ids : of[j] = of[k] => j = k BY <1>2, <1>9 DEF Injection, IsInjective
    <2>2. ASSUME NEW k \in ids PROVE s[k].key = of[k] BY <1>3
    <2> HIDE DEF ids
    <2> QED BY <2>1, <2>2
  <1>11. \A k \in ids : s[k] # NoSet
    <2>1. NoSet = [live |-> FALSE] BY DEF NoSet
    <2>2. NoSet.live = FALSE BY <2>1
    <2> QED BY <1>3, <2>2
  <1>12. \A key \in keys : \E k \in ids : s[k].key = key BY <1>1, <1>2, <1>3
  <1>13. \A k \in ids : /\ s[k].live /\ s[k].key \in keys /\ s[k].stamp = 0
                         /\ s[k].qty = form[s[k].key] /\ s[k].qty \in 0 .. MaxQty
    BY <1>3
  <1> QED BY <1>4, <1>5, <1>10, <1>11, <1>12, <1>13

(* What a statement makes of a set. *)
LEMMA SavedType ==
    ASSUME TypeOK, NEW k \in SetIds, NEW m \in [qty: 0 .. MaxQty, stamp: Nat]
    PROVE  /\ Saved(k, m) \in EquipmentSet
           /\ Saved(k, m) = NoSet <=> sets[k] = NoSet
           /\ Saved(k, m).live => sets[k].live /\ Saved(k, m).key = sets[k].key
           /\ sets[k].live /\ m.qty > 0 => Saved(k, m).live /\ Saved(k, m).qty = m.qty
           /\ m.qty = 0 /\ m.stamp = sets[k].stamp => ~Saved(k, m).live
  <1>1. CASE ~sets[k].live
    <2>1. Saved(k, m) = sets[k] BY <1>1 DEF Saved
    <2> QED BY <1>1, <2>1, SetType
  <1>2. CASE sets[k].live
    <2>1. sets[k] \in [live: BOOLEAN, key: Key, qty: 0 .. MaxQty, stamp: Nat] /\ sets[k] # NoSet
      BY <1>2, SetType
    <2>2. CASE m.qty > 0
      <3>1. Saved(k, m) = [sets[k] EXCEPT !.qty = m.qty, !.stamp = @ + 1]
        BY <1>2, <2>2 DEF Saved
      <3>2. /\ Saved(k, m) \in [live: BOOLEAN, key: Key, qty: 0 .. MaxQty, stamp: Nat]
            /\ Saved(k, m).live = sets[k].live /\ Saved(k, m).key = sets[k].key
            /\ Saved(k, m).qty = m.qty
        <4>1. m.qty \in 0 .. MaxQty /\ sets[k].stamp + 1 \in Nat BY <2>1
        <4>2. Saved(k, m) = [[sets[k] EXCEPT !.qty = m.qty] EXCEPT !.stamp = sets[k].stamp + 1]
          BY <3>1, <2>1
        <4> DEFINE r == [sets[k] EXCEPT !.qty = m.qty]
        <4>3. /\ r \in [live: BOOLEAN, key: Key, qty: 0 .. MaxQty, stamp: Nat]
              /\ r.live = sets[k].live /\ r.key = sets[k].key /\ r.qty = m.qty
          BY <2>1, <4>1
        <4> HIDE DEF r
        <4>4. Saved(k, m) = [r EXCEPT !.stamp = sets[k].stamp + 1] BY <4>2 DEF r
        <4> QED BY <4>1, <4>3, <4>4
      <3>3. Saved(k, m) # NoSet
        <4>1. NoSet.live = FALSE BY DEF NoSet
        <4> QED BY <1>2, <3>2, <4>1
      <3> QED BY <1>2, <2>1, <2>2, <3>2, <3>3 DEF EquipmentSet
    <2>3. CASE m.qty = 0
      <3>1. Saved(k, m) = [sets[k] EXCEPT !.live = (@ /\ sets[k].stamp # m.stamp)]
        BY <1>2, <2>3 DEF Saved
      <3>2. /\ Saved(k, m) \in [live: BOOLEAN, key: Key, qty: 0 .. MaxQty, stamp: Nat]
            /\ Saved(k, m).live = (sets[k].stamp # m.stamp) /\ Saved(k, m).key = sets[k].key
        BY <1>2, <2>1, <3>1
      <3>3. "key" \in DOMAIN Saved(k, m) /\ "key" \notin DOMAIN NoSet BY <3>2 DEF NoSet
      <3> QED BY <1>2, <2>1, <2>3, <3>2, <3>3 DEF EquipmentSet
    <2> QED BY <2>2, <2>3
  <1> QED BY <1>1, <1>2, SetType

-----------------------------------------------------------------------------
(* Requests *)

LEMMA RequestType ==
    ASSUME NEW r \in Request
    PROVE  /\ r.op = "book" <=> r \in Page
           /\ r.op = "edit" <=> r \in Edit
           /\ r.op = "new" <=> r \in New
           /\ r.op = "idle" <=> r = Idle
           /\ r.op \in {"idle", "book", "edit", "new"}
  <1>1. Idle.op = "idle" BY DEF Idle
  <1>2. \A p \in Page : p.op = "book" BY DEF Page
  <1>3. \A p \in Edit : p.op = "edit" BY DEF Edit
  <1>4. \A p \in New : p.op = "new" BY DEF New
  <1>5. r = Idle \/ r \in Page \/ r \in Edit \/ r \in New BY DEF Request
  <1> QED BY <1>1, <1>2, <1>3, <1>4, <1>5

(* Who is disturbed keeps everything but its history. *)
LEMMA DirtyType ==
    ASSUME NEW r \in Request, NEW op \in {"book", "edit"}
    PROVE  /\ Dirty(r, op) \in Request
           /\ Dirty(r, op).op = r.op
           /\ r.op = op => ~Dirty(r, op).clean
           /\ r.op # op => Dirty(r, op) = r
           /\ r \in Page /\ op = "book" =>
                /\ Dirty(r, op).pc = r.pc /\ Dirty(r, op).form = r.form
                /\ Dirty(r, op).todo = r.todo /\ Dirty(r, op).i = r.i
                /\ Dirty(r, op).wants = r.wants
           /\ r \in Edit /\ op = "edit" =>
                /\ Dirty(r, op).pc = r.pc /\ Dirty(r, op).mine = r.mine
  <1>1. CASE r.op # op BY <1>1, RequestType DEF Dirty
  <1>2. CASE r.op = op
    <2>1. Dirty(r, op) = [r EXCEPT !.clean = FALSE] BY <1>2 DEF Dirty
    <2>2. r \in Page \/ r \in Edit BY <1>2, RequestType
    <2>3. r \in Page => [r EXCEPT !.clean = FALSE] \in Page BY DEF Page
    <2>4. r \in Edit => [r EXCEPT !.clean = FALSE] \in Edit BY DEF Edit
    <2>5. /\ Dirty(r, op).op = r.op /\ ~Dirty(r, op).clean
          /\ r \in Page => /\ Dirty(r, op).pc = r.pc /\ Dirty(r, op).form = r.form
                           /\ Dirty(r, op).todo = r.todo /\ Dirty(r, op).i = r.i
                           /\ Dirty(r, op).wants = r.wants
          /\ r \in Edit => Dirty(r, op).pc = r.pc /\ Dirty(r, op).mine = r.mine
      BY <2>1, <2>2 DEF Page, Edit
    <2> QED BY <1>2, <2>1, <2>2, <2>3, <2>4, <2>5 DEF Request
  <1> QED BY <1>1, <1>2

LEMMA ReqType == TypeOK <=> /\ InventoryTypeOK /\ sets \in [SetIds -> EquipmentSet]
                            /\ titled \in Nat /\ begun \in 0 .. MaxBegun
                            /\ req \in [Handlers -> Request]
  BY DEF TypeOK, Request

LEMMA MovesType ==
    ASSUME TypeOK, NEW h \in Handlers, NEW r \in Request, NEW op \in {"book", "edit"},
           Moves(h, r, op)
    PROVE  /\ req' \in [Handlers -> Request]
           /\ req'[h] = r
           /\ \A g \in Handlers \ {h} : req'[g] = Dirty(req[g], op)
  <1>1. \A g \in Handlers : req[g] \in Request BY ReqType
  <1> QED BY <1>1, DirtyType DEF Moves

LEMMA GoesType ==
    ASSUME TypeOK, NEW h \in Handlers, NEW r \in Request, Goes(h, r)
    PROVE  /\ req' \in [Handlers -> Request]
           /\ req'[h] = r
           /\ \A g \in Handlers \ {h} : req'[g] = req[g]
  BY ReqType DEF Goes

LEMMA PageAt ==
    ASSUME TypeOK, NEW h \in Handlers
    PROVE  /\ req[h] \in Request
           /\ req[h].op = "book" => req[h] \in Page /\ req[h].form \in Form
           /\ req[h].op = "edit" => req[h] \in Edit /\ req[h].form \in Form
                                    /\ req[h].mine \in Work
  <1>1. req[h] \in Request BY ReqType
  <1>2. \A r \in Page : r.form \in Form BY StockAssumption DEF Page
  <1>3. \A r \in Edit : r.form \in Form /\ r.mine \in Work BY StockAssumption DEF Edit
  <1> QED BY <1>1, <1>2, <1>3, RequestType

(* The pages the advice goes through. *)
LEMMA ToList ==
    ASSUME NEW r \in Page, NEW p, p = [r EXCEPT !.pc = "list"]
    PROVE  /\ p \in Page
           /\ p.op = "book" /\ p.pc = "list" /\ p.form = r.form /\ p.slot = r.slot
           /\ p.i = r.i /\ p.qty = r.qty /\ p.todo = r.todo
           /\ p.clean = r.clean /\ p.shown = r.shown /\ p.wants = r.wants
  <1>1. p \in Page BY DEF Page
  <1> QED BY <1>1 DEF Page

LEMMA ToRest ==
    ASSUME NEW h \in Handlers, req[h] \in Page, NEW shown \in BOOLEAN,
           NEW p, p = Rest(h, shown)
    PROVE  /\ p \in Page
           /\ p.op = "book" /\ p.pc = (IF req[h].todo = {} THEN "submit" ELSE "item")
           /\ p.form = req[h].form /\ p.slot = req[h].slot
           /\ p.i = req[h].i /\ p.qty = req[h].qty /\ p.todo = req[h].todo
           /\ p.clean = req[h].clean /\ p.shown = shown /\ p.wants = req[h].wants
  <1> DEFINE pc == IF req[h].todo = {} THEN "submit" ELSE "item"
  <1>1. pc \in {"submit", "item"} OBVIOUS
  <1>2. p = [req[h] EXCEPT !.shown = shown, !.pc = pc] BY DEF Rest
  <1> HIDE DEF pc
  <1>3. p \in Page BY <1>1, <1>2 DEF Page
  <1>4. /\ p.op = "book" /\ p.pc = pc
        /\ p.form = req[h].form /\ p.slot = req[h].slot
        /\ p.i = req[h].i /\ p.qty = req[h].qty /\ p.todo = req[h].todo
        /\ p.clean = req[h].clean /\ p.shown = shown /\ p.wants = req[h].wants
    BY <1>1, <1>2 DEF Page
  <1> QED BY <1>3, <1>4 DEF pc

(* An edit that goes on with the sets of mine, or ends. *)
LEMMA SavingType ==
    ASSUME NEW h \in Handlers, req[h] \in Edit, NEW mine \in Work
    PROVE  /\ Saving(h, mine) \in Request
           /\ Saving(h, mine) = Idle <=> Left(mine) = {}
           /\ Left(mine) # {} =>
                /\ Saving(h, mine).op = "edit" /\ Saving(h, mine).pc = "sets"
                /\ Saving(h, mine).form = req[h].form /\ Saving(h, mine).mine = mine
                /\ Saving(h, mine).clean = req[h].clean
  <1>1. CASE Left(mine) = {} BY <1>1 DEF Saving, Request
  <1>2. CASE Left(mine) # {}
    <2> DEFINE p == [req[h] EXCEPT !.pc = "sets", !.mine = mine]
    <2>1. Saving(h, mine) = p BY <1>2 DEF Saving
    <2>2. p \in Edit BY DEF Edit
    <2>3. /\ p.op = "edit" /\ p.pc = "sets" /\ p.form = req[h].form /\ p.mine = mine
          /\ p.clean = req[h].clean
      BY DEF Edit
    <2>4. Idle.op = "idle" BY DEF Idle
    <2> HIDE DEF p
    <2> QED BY <1>2, <2>1, <2>2, <2>3, <2>4 DEF Request
  <1> QED BY <1>1, <1>2

-----------------------------------------------------------------------------
(* The steps of an edit *)

(* The keys a form is to add, the IDs they get, and the sets to save then. *)
Adding(r) == Lacking(Left(r.mine), r.form)
NewIds(r) == NextIds(Cardinality(Adding(r)))
Grown(r) == [k \in SetIds |-> IF k \in NewIds(r) THEN [qty |-> sets'[k].qty, stamp |-> 0]
                              ELSE r.mine[k]]

LEMMA InsertDoes ==
    ASSUME TypeOK, FirstUsed, NEW h \in Handlers, Insert(h)
    PROVE  /\ req[h].op = "edit" /\ req[h].pc = "insert"
           /\ NewIds(req[h]) \subseteq SetIds
           /\ Adding(req[h]) \in SUBSET DOMAIN req[h].form /\ Adding(req[h]) \in SUBSET Key
           /\ sets' \in Inserted(Adding(req[h]), req[h].form)
           /\ sets' \in [SetIds -> EquipmentSet]
           /\ Grown(req[h]) \in Work
           /\ Left(Grown(req[h])) = Left(req[h].mine) \cup NewIds(req[h])
           /\ Moves(h, Saving(h, Grown(req[h])), "edit")
           /\ UNCHANGED <<items, booked, titled, begun>>
  <1> DEFINE r == req[h]
  <1>1. /\ r.op = "edit" /\ r.pc = "insert" /\ NewIds(r) \subseteq SetIds
        /\ sets' \in Inserted(Adding(r), r.form)
        /\ Moves(h, Saving(h, Grown(r)), "edit")
        /\ UNCHANGED <<items, booked, titled, begun>>
    BY DEF Insert, At, stock, Adding, NewIds, Grown
  <1>2. r.form \in Form /\ r.mine \in Work BY <1>1, PageAt
  <1>3. Adding(r) \in SUBSET DOMAIN r.form /\ Adding(r) \in SUBSET Key
    BY <1>2, FormType DEF Adding, Lacking
  <1>4. /\ sets' \in [SetIds -> EquipmentSet]
        /\ \A k \in NewIds(r) : sets'[k].qty \in 0 .. MaxQty
    BY <1>1, <1>2, <1>3, InsertedSets DEF NewIds
  <1>5. ASSUME NEW k \in SetIds
        PROVE  /\ Grown(r)[k] \in {Done} \cup [qty: 0 .. MaxQty, stamp: Nat]
               /\ Grown(r)[k] # Done <=> k \in Left(r.mine) \cup NewIds(r)
    <2>1. CASE k \in NewIds(r)
      <3>1. Grown(r)[k] = [qty |-> sets'[k].qty, stamp |-> 0] BY <2>1 DEF Grown
      <3> QED BY <2>1, <3>1, <1>4, NotDone
    <2>2. CASE k \notin NewIds(r)
      <3>1. Grown(r)[k] = r.mine[k] BY <2>2 DEF Grown
      <3> QED BY <2>2, <3>1, <1>2 DEF Work, Left
    <2> QED BY <2>1, <2>2
  <1>6. Grown(r) = [k \in SetIds |-> Grown(r)[k]] BY DEF Grown
  <1>7. Grown(r) \in Work BY <1>5, <1>6 DEF Work
  <1>8. Left(Grown(r)) = Left(r.mine) \cup NewIds(r) BY <1>1, <1>5 DEF Left
  <1> QED BY <1>1, <1>3, <1>4, <1>7, <1>8

LEMMA SaveSetDoes ==
    ASSUME TypeOK, NEW h \in Handlers, SaveSet(h), Left(req[h].mine) # {}
    PROVE  /\ req[h].op = "edit" /\ req[h].pc = "sets"
           /\ \E k \in Left(req[h].mine) :
                /\ sets' = [sets EXCEPT ![k] = Saved(k, req[h].mine[k])]
                /\ Moves(h, Saving(h, [req[h].mine EXCEPT ![k] = Done]), "edit")
           /\ UNCHANGED <<items, booked, titled, begun>>
  <1> DEFINE left == Left(req[h].mine)
             k == CHOOSE k \in left : \A j \in left : k <= j
  <1>1. \E m \in left : \A j \in left : m <= j
    <2>1. left \in SUBSET Nat /\ left # {} BY SetIdsType DEF Left
    <2> HIDE DEF left
    <2> QED BY <2>1, Smallest
  <1>2. k \in left
    <2> HIDE DEF left
    <2> QED BY <1>1
  <1>3. /\ sets' = [sets EXCEPT ![k] = Saved(k, req[h].mine[k])]
        /\ Moves(h, Saving(h, [req[h].mine EXCEPT ![k] = Done]), "edit")
    BY DEF SaveSet
  <1> HIDE DEF left, k
  <1> QED BY <1>2, <1>3 DEF SaveSet, At, stock, left

-----------------------------------------------------------------------------
(* Type correctness *)

LEMMA TypeInit == Init => TypeOK
  <1> SUFFICES ASSUME Init PROVE TypeOK OBVIOUS
  <1>1. MaxQty \in 0 .. MaxQty /\ 0 \in 0 .. MaxQty /\ 1 \in 0 .. MaxQty BY InventoryAssumption
  <1>2. items \in [Items -> Item]
    <2> DEFINE full == [state |-> "live", qty |-> MaxQty, available |-> TRUE]
               empty == [state |-> "none", qty |-> 0, available |-> FALSE]
    <2>1. full \in Item /\ empty \in Item BY <1>1 DEF Item
    <2>2. items \in [Items -> {full, empty}] BY DEF Init
    <2> HIDE DEF full, empty
    <2> QED BY <2>1, <2>2
  <1>3. booked \in [Tickets -> {NoBooking} \cup Booking] BY DEF Init
  <1>4. PICK own \in SUBSET {i \in Items : Stocked(i)}, f \in [Items -> SetIds] :
          sets = [k \in SetIds |->
             IF \E i \in own : f[i] = k
             THEN [live |-> TRUE, key |-> Core(CHOOSE i \in own : f[i] = k), qty |-> 1, stamp |-> 0]
             ELSE NoSet]
    BY DEF Init
  <1>5. ASSUME NEW k \in SetIds PROVE sets[k] \in EquipmentSet
    <2>1. CASE \E i \in own : f[i] = k
      <3> DEFINE i == CHOOSE i \in own : f[i] = k
      <3>1. i \in Items BY <2>1
      <3>2. sets[k] = [live |-> TRUE, key |-> Core(i), qty |-> 1, stamp |-> 0] BY <1>4, <2>1
      <3>3. Core(i) \in Key BY <3>1 DEF Core, Key
      <3> HIDE DEF i
      <3> QED BY <1>1, <3>2, <3>3 DEF EquipmentSet
    <2>2. CASE ~\E i \in own : f[i] = k BY <1>4, <2>2 DEF EquipmentSet
    <2> QED BY <2>1, <2>2
  <1>6. sets \in [SetIds -> EquipmentSet] BY <1>4, <1>5
  <1>7. req \in [Handlers -> {Idle} \cup Page \cup Edit \cup New] BY DEF Init
  <1>8. titled \in Nat /\ begun \in 0 .. MaxBegun BY StockAssumption DEF Init
  <1> QED BY <1>2, <1>3, <1>6, <1>7, <1>8 DEF TypeOK, InventoryTypeOK

LEMMA ArrivesType ==
    ASSUME TypeOK, NEW h \in Handlers, NEW r \in Request, Arrives(h, r)
    PROVE  /\ TypeOK' /\ req[h] = Idle /\ req'[h] = r
           /\ \A g \in Handlers \ {h} : req'[g] = req[g]
           /\ UNCHANGED <<items, booked, sets, titled>>
  <1>1. /\ Goes(h, r) /\ begun' \in 0 .. MaxBegun
        /\ UNCHANGED <<items, booked, sets, titled>> /\ req[h] = Idle
    BY StockAssumption DEF Arrives, Counted, stock, TypeOK
  <1>2. /\ req' \in [Handlers -> Request] /\ req'[h] = r
        /\ \A g \in Handlers \ {h} : req'[g] = req[g]
    BY <1>1, GoesType
  <1>3. TypeOK' BY <1>1, <1>2 DEF TypeOK, InventoryTypeOK, Request
  <1> QED BY <1>1, <1>2, <1>3

LEMMA OpenPageDoes ==
    ASSUME TypeOK, NEW h \in Handlers, OpenPage(h)
    PROVE  \E r \in Page :
             /\ r.pc = "form" /\ r.todo = Wanted(r.form) /\ ~r.clean
             /\ Arrives(h, r)
  <1>1. PICK form \in Forms, slot \in Slots :
          /\ Wanted(form) # {}
          /\ Arrives(h, [op |-> "book", pc |-> "form", form |-> form, slot |-> slot,
                         todo |-> Wanted(form), i |-> CHOOSE i \in Wanted(form) : TRUE,
                         qty |-> 0, shown |-> FALSE,
                         wants |-> NoBooking.wants, clean |-> FALSE])
    BY DEF OpenPage, Fits
  <1> DEFINE i == CHOOSE i \in Wanted(form) : TRUE
             r == [op |-> "book", pc |-> "form", form |-> form, slot |-> slot,
                   todo |-> Wanted(form), i |-> i, qty |-> 0, shown |-> FALSE,
                   wants |-> NoBooking.wants, clean |-> FALSE]
  <1>2. Wanted(form) \in SUBSET Items BY DEF Wanted
  <1>3. i \in Items BY <1>1, <1>2
  <1>4. NoBooking.wants \in Wants BY DEF NoBooking, Wants
  <1>5. 0 \in 0 .. MaxQty BY InventoryAssumption
  <1> HIDE DEF i
  <1>6. r \in Page BY <1>2, <1>3, <1>4, <1>5 DEF Page
  <1> QED BY <1>1, <1>6 DEF i

LEMMA OpenEditDoes ==
    ASSUME TypeOK, NEW h \in Handlers, OpenEdit(h)
    PROVE  \E r \in Edit :
             /\ r.pc = "insert" /\ r.form \in Form /\ r.mine = Mine(r.form) /\ r.clean
             /\ Arrives(h, r)
  <1>1. PICK form \in EditForms :
          Arrives(h, [op |-> "edit", pc |-> "insert", form |-> form,
                      mine |-> Mine(form), clean |-> TRUE])
    BY DEF OpenEdit
  <1> DEFINE r == [op |-> "edit", pc |-> "insert", form |-> form,
                   mine |-> Mine(form), clean |-> TRUE]
  <1>2. form \in Form BY StockAssumption
  <1>3. Mine(form) \in Work BY <1>2, MineType
  <1>4. r \in Edit BY <1>3 DEF Edit
  <1> QED BY <1>1, <1>2, <1>4

LEMMA ChangeType ==
    ASSUME TypeOK, ChangeStock
    PROVE  /\ InventoryTypeOK' /\ begun' \in 0 .. MaxBegun /\ Disturbs("book")
           /\ UNCHANGED <<sets, titled>>
           /\ req' \in [Handlers -> Request]
           /\ \A g \in Handlers : req'[g] = Dirty(req[g], "book")
           /\ NoneAsked => NoneAsked'
  <1>1. /\ begun' \in 0 .. MaxBegun /\ Disturbs("book") /\ UNCHANGED <<sets, titled>>
    BY StockAssumption DEF ChangeStock, Counted, TypeOK
  <1>2. /\ req' \in [Handlers -> Request]
        /\ \A g \in Handlers : req'[g] = Dirty(req[g], "book")
    <2>1. \A g \in Handlers : Dirty(req[g], "book") \in Request BY ReqType, DirtyType
    <2> QED BY <1>1, <2>1 DEF Disturbs
  <1>3. CASE \E t \in Tickets : Cancel(t)
    <2>1. PICK t \in Tickets : booked' = [booked EXCEPT ![t] = NoBooking] /\ UNCHANGED items
      BY <1>3 DEF Cancel
    <2>2. InventoryTypeOK' BY <2>1 DEF TypeOK, InventoryTypeOK
    <2>3. \A u \in Tickets : booked'[u] = IF u = t THEN NoBooking ELSE booked[u]
      BY <2>1 DEF TypeOK, InventoryTypeOK
    <2>4. \A i \in Items : NoBooking.wants[i].total = 0 BY DEF NoBooking
    <2>5. NoneAsked => NoneAsked' BY <2>3, <2>4 DEF NoneAsked
    <2> QED BY <1>1, <1>2, <2>2, <2>5
  <1>4. ASSUME NEW i \in Items, NEW qty \in 0 .. MaxQty, NEW available \in BOOLEAN,
               CreateItem(i, qty, available) \/ EditItem(i, qty, available) \/ DeleteItem(i)
        PROVE  InventoryTypeOK' /\ UNCHANGED booked
    <2>1. UNCHANGED booked BY <1>4 DEF CreateItem, EditItem, DeleteItem
    <2>2. items[i] \in Item /\ items \in [Items -> Item] BY DEF TypeOK, InventoryTypeOK
    <2>3. CASE CreateItem(i, qty, available)
      <3>1. [state |-> "live", qty |-> qty, available |-> available] \in Item BY DEF Item
      <3>2. items' \in [Items -> Item] BY <2>2, <2>3, <3>1 DEF CreateItem
      <3> QED BY <2>1, <3>2 DEF TypeOK, InventoryTypeOK
    <2>4. CASE EditItem(i, qty, available)
      <3>1. PICK failed \in BOOLEAN :
              items' = [items EXCEPT
                ![i].qty = IF qty = 0 THEN @ ELSE qty,
                ![i].available = IF failed THEN @ \/ available ELSE available]
        BY <2>4 DEF EditItem
      <3> DEFINE q == IF qty = 0 THEN items[i].qty ELSE qty
                 a == IF failed THEN items[i].available \/ available ELSE available
      <3>2. q \in 0 .. MaxQty /\ a \in BOOLEAN BY <2>2 DEF Item
      <3>3. items' = [items EXCEPT ![i] = [items[i] EXCEPT !.qty = q, !.available = a]]
        BY <2>2, <3>1
      <3> HIDE DEF q, a
      <3>4. [items[i] EXCEPT !.qty = q, !.available = a] \in Item BY <2>2, <3>2 DEF Item
      <3>5. items' \in [Items -> Item] BY <2>2, <3>3, <3>4
      <3> QED BY <2>1, <3>5 DEF TypeOK, InventoryTypeOK
    <2>5. CASE DeleteItem(i)
      <3>1. items' = [items EXCEPT ![i] = [items[i] EXCEPT !.state = "deleted"]]
        BY <2>2, <2>5 DEF DeleteItem
      <3>2. [items[i] EXCEPT !.state = "deleted"] \in Item BY <2>2 DEF Item
      <3>3. items' \in [Items -> Item] BY <2>2, <3>1, <3>2
      <3> QED BY <2>1, <3>3 DEF TypeOK, InventoryTypeOK
    <2> QED BY <1>4, <2>3, <2>4, <2>5
  <1>5. 0 \in 0 .. MaxQty BY InventoryAssumption
  <1>6. UNCHANGED booked => (NoneAsked => NoneAsked') BY DEF NoneAsked
  <1>7. (\E t \in Tickets : Cancel(t)) \/ (InventoryTypeOK' /\ UNCHANGED booked)
    BY <1>4, <1>5 DEF ChangeStock
  <1> QED BY <1>1, <1>2, <1>3, <1>6, <1>7

-----------------------------------------------------------------------------
(* What a step leaves alone *)

LEMMA StockAlone ==
    ASSUME UNCHANGED <<items, booked>>
    PROVE  \A r : PageOK(r)' <=> PageOK(r)
  <1>1. \A i, s : Bookings(i, s)' = Bookings(i, s) BY DEF Bookings, Live
  <1>2. \A i, s : Usage(i, s)' = Usage(i, s)
    <2> SUFFICES ASSUME NEW i, NEW s PROVE Usage(i, s)' = Usage(i, s) OBVIOUS
    <2> QED BY <1>1 DEF Usage
  <1>3. \A i, qty, s : NetQuantity(i, qty, s)' = NetQuantity(i, qty, s)
    BY <1>2 DEF NetQuantity
  <1>4. \A r, i : Fitting(r, i)' <=> Fitting(r, i) BY <1>1, <1>3 DEF Fitting
  <1> QED BY <1>4 DEF PageOK

LEMMA SetsAlone ==
    ASSUME UNCHANGED sets
    PROVE  \A r : EditOK(r)' <=> EditOK(r)
  <1>1. Equipment' = Equipment BY DEF Equipment
  <1>2. \A k, ids, form : Posted(k, ids, form)' = Posted(k, ids, form)
    <2> SUFFICES ASSUME NEW k, NEW ids, NEW form
                 PROVE  Posted(k, ids, form)' = Posted(k, ids, form)
      OBVIOUS
    <2>1. \A key : With(key, ids)' = With(key, ids) BY DEF With
    <2>2. FirstWith(k, ids)' <=> FirstWith(k, ids) BY <2>1 DEF FirstWith
    <2>3. CopiesTo(k, ids, form)' <=> CopiesTo(k, ids, form) BY <2>2 DEF CopiesTo
    <2> QED BY <2>3 DEF Posted
  <1>3. \A form : Mine(form)' = Mine(form) BY <1>1, <1>2 DEF Mine
  <1>4. \A mine, k : Coming(mine, k)' = Coming(mine, k) BY DEF Coming
  <1>5. \A form, mine : Settled(form, mine)' <=> Settled(form, mine)
    BY <1>1, <1>4 DEF Settled
  <1> QED BY <1>3, <1>5 DEF EditOK

(* What the invariant asks of one request. *)
RequestOK(r) ==
    /\ r.op = "book" => PageOK(r)
    /\ r.op = "edit" => /\ r.pc = "sets" => Left(r.mine) # {}
                        /\ r.clean => EditOK(r)

LEMMA AllOK == Pages /\ Edits <=> \A h \in Handlers : RequestOK(req[h])
  BY DEF Pages, Edits, RequestOK

(* One request goes on, and nothing else happens. *)
LEMMA GoesKeeps ==
    ASSUME IInv, NEW h \in Handlers, NEW r \in Request, RequestOK(r), Goes(h, r),
           UNCHANGED <<items, booked, sets>>, titled' \in Nat, begun' \in 0 .. MaxBegun
    PROVE  IInv'
  <1>1. TypeOK /\ \A g \in Handlers : RequestOK(req[g]) BY AllOK DEF IInv
  <1>2. /\ req' \in [Handlers -> Request] /\ req'[h] = r
        /\ \A g \in Handlers \ {h} : req'[g] = req[g]
    BY <1>1, GoesType
  <1>3. TypeOK' BY <1>1, <1>2 DEF TypeOK, InventoryTypeOK, Request
  <1>4. \A x : RequestOK(x)' <=> RequestOK(x) BY StockAlone, SetsAlone DEF RequestOK
  <1>5. (\A g \in Handlers : RequestOK(req[g]))' BY <1>1, <1>2, <1>4
  <1>6. Pages' /\ Edits' BY <1>5 DEF Pages, Edits, RequestOK
  <1>7. NoneAsked' /\ FirstUsed' BY DEF IInv, NoneAsked, FirstUsed, Used
  <1> QED BY <1>3, <1>6, <1>7 DEF IInv

-----------------------------------------------------------------------------
(* The steps of a page *)

LEMMA IdleOK == Idle \in Request /\ RequestOK(Idle)
  <1>1. Idle.op = "idle" BY DEF Idle
  <1> QED BY <1>1 DEF Request, RequestOK

LEMMA PageRequest ==
    ASSUME NEW p \in Page
    PROVE  p \in Request /\ (PageOK(p) => RequestOK(p))
  <1>1. p.op = "book" BY DEF Page
  <1> QED BY <1>1 DEF Request, RequestOK

LEMMA OpenPageKeeps == ASSUME IInv, NEW h \in Handlers, OpenPage(h) PROVE IInv'
  <1>1. TypeOK BY DEF IInv
  <1>2. PICK r \in Page : /\ r.pc = "form" /\ r.todo = Wanted(r.form) /\ ~r.clean
                          /\ Arrives(h, r)
    BY <1>1, OpenPageDoes
  <1>3. PageOK(r) BY <1>2 DEF PageOK
  <1>4. r \in Request /\ RequestOK(r) BY <1>3, PageRequest
  <1>5. /\ Goes(h, r) /\ UNCHANGED <<items, booked, sets>>
        /\ titled' \in Nat /\ begun' \in 0 .. MaxBegun
    BY <1>1, <1>2, <1>4, ArrivesType DEF Arrives, TypeOK
  <1> QED BY <1>4, <1>5, GoesKeeps

LEMMA ReadItemKeeps == ASSUME IInv, NEW h \in Handlers, ReadItem(h) PROVE IInv'
  <1> DEFINE r == req[h]
  <1>1. /\ r.op = "book" /\ r.pc \in {"form", "item"}
        /\ UNCHANGED <<items, booked, sets, titled, begun>>
    BY DEF ReadItem, At, Reads, stock
  <1>2. TypeOK /\ r \in Page /\ PageOK(r) /\ r.clean \in BOOLEAN
    BY <1>1, PageAt DEF IInv, Pages, Page
  <1>3. PICK i \in r.todo :
          IF ~Stocked(i) THEN Goes(h, Idle)
          ELSE Goes(h, [r EXCEPT !.pc = "net", !.i = i, !.qty = items[i].qty,
                                 !.todo = @ \ {i}, !.clean = @ \/ r.pc = "form"])
    BY DEF ReadItem
  <1>4. titled' \in Nat /\ begun' \in 0 .. MaxBegun BY <1>1, <1>2 DEF TypeOK
  <1>5. CASE ~Stocked(i) BY <1>1, <1>3, <1>4, <1>5, IdleOK, GoesKeeps
  <1>6. CASE Stocked(i)
    <2> DEFINE clean == r.clean \/ r.pc = "form"
               p == [r EXCEPT !.pc = "net", !.i = i, !.qty = items[i].qty,
                              !.todo = @ \ {i}, !.clean = clean]
    <2>1. Goes(h, p) BY <1>2, <1>3, <1>6 DEF Page
    <2>2. clean \in BOOLEAN BY <1>2
    <2>3. i \in Items /\ items[i].qty \in 0 .. MaxQty
      BY <1>2 DEF Page, TypeOK, InventoryTypeOK, Item
    <2>4. /\ p \in Page /\ p.pc = "net" /\ p.form = r.form /\ p.slot = r.slot
          /\ p.i = i /\ p.qty = items[i].qty /\ p.todo = r.todo \ {i}
          /\ p.clean = clean /\ p.shown = r.shown
      <3> DEFINE qty == items[i].qty
      <3>1. p = [r EXCEPT !.pc = "net", !.i = i, !.qty = qty, !.todo = @ \ {i}, !.clean = clean]
        OBVIOUS
      <3>2. qty \in 0 .. MaxQty /\ i \in Items BY <2>3
      <3> HIDE DEF p, clean, r, qty
      <3>3. p \in Page BY <1>2, <2>2, <3>1, <3>2 DEF Page
      <3>4. /\ p.pc = "net" /\ p.form = r.form /\ p.slot = r.slot
            /\ p.i = i /\ p.qty = qty /\ p.todo = r.todo \ {i}
            /\ p.clean = clean /\ p.shown = r.shown
        BY <1>2, <3>1 DEF Page
      <3> QED BY <3>3, <3>4 DEF qty
    <2>5. Unsettled(p) = r.todo
      <3> HIDE DEF p
      <3> QED BY <2>4 DEF Unsettled
    <2>6. ASSUME p.clean, ~p.shown, NEW j \in Wanted(p.form) \ Unsettled(p)
          PROVE  Fitting(p, j)
      <3>1. j \in Wanted(r.form) \ r.todo BY <2>4, <2>5, <2>6
      <3>2. r.pc = "item" /\ r.clean BY <1>1, <1>2, <2>4, <2>6, <3>1 DEF PageOK
      <3>3. Unsettled(r) = r.todo BY <3>2 DEF Unsettled
      <3>4. Fitting(r, j) BY <1>2, <2>4, <2>6, <3>1, <3>2, <3>3 DEF PageOK
      <3> HIDE DEF p, r
      <3> QED BY <2>4, <3>4 DEF Fitting
    <2>7. PageOK(p)
      <3> HIDE DEF p, clean
      <3>1. /\ p.todo \subseteq Wanted(p.form) /\ p.i \in Wanted(p.form)
            /\ p.pc = "net" /\ p.qty = items[p.i].qty
        BY <1>2, <2>4 DEF PageOK
      <3> QED BY <2>6, <3>1 DEF PageOK
    <2>8. p \in Request /\ RequestOK(p)
      <3> HIDE DEF p
      <3> QED BY <2>4, <2>7, PageRequest
    <2> HIDE DEF p
    <2> QED BY <1>1, <1>4, <2>1, <2>8, GoesKeeps
  <1> QED BY <1>5, <1>6

(* The advice is done with an item. *)
LEMMA RestKeeps ==
    ASSUME IInv, NEW h \in Handlers, NEW shown \in BOOLEAN,
           req[h].op = "book", req[h].pc \in {"net", "list"},
           req[h].shown => shown,
           req[h].clean /\ ~shown => Fitting(req[h], req[h].i),
           Goes(h, Rest(h, shown)), Reads
    PROVE  IInv'
  <1> DEFINE r == req[h]
             p == Rest(h, shown)
  <1>1. TypeOK /\ r \in Page /\ PageOK(r) BY PageAt DEF IInv, Pages
  <1>2. /\ p \in Page
        /\ p.pc = (IF r.todo = {} THEN "submit" ELSE "item")
        /\ p.form = r.form /\ p.slot = r.slot /\ p.todo = r.todo
        /\ p.clean = r.clean /\ p.shown = shown
    BY <1>1, ToRest
  <1> HIDE DEF p
  <1>3. Unsettled(p) = r.todo /\ Unsettled(r) = r.todo \cup {r.i}
    BY <1>2 DEF Unsettled
  <1>4. ASSUME p.clean, ~p.shown, NEW j \in Wanted(p.form) \ Unsettled(p)
        PROVE  Fitting(p, j)
    <2>1. Fitting(r, j)
      <3>1. CASE j = r.i BY <1>2, <1>4, <3>1
      <3>2. CASE j # r.i BY <1>1, <1>2, <1>3, <1>4, <3>2 DEF PageOK
      <3> QED BY <3>1, <3>2
    <2> HIDE DEF r
    <2> QED BY <1>2, <2>1 DEF Fitting
  <1>5. PageOK(p)
    <2>1. p.todo \subseteq Wanted(p.form) /\ (p.pc \in {"submit", "book"} => p.todo = {})
          /\ p.pc \in {"submit", "item"}
      BY <1>1, <1>2 DEF PageOK
    <2> QED BY <1>4, <2>1 DEF PageOK
  <1>6. p \in Request /\ RequestOK(p) BY <1>2, <1>5, PageRequest
  <1>7. UNCHANGED <<items, booked, sets>> /\ titled' \in Nat /\ begun' \in 0 .. MaxBegun
    BY <1>1 DEF Reads, stock, TypeOK
  <1>8. Goes(h, p) BY DEF p
  <1> QED BY <1>6, <1>7, <1>8, GoesKeeps

LEMMA AskNetKeeps == ASSUME IInv, NEW h \in Handlers, AskNet(h) PROVE IInv'
  <1> DEFINE r == req[h]
             net == NetQuantity(r.i, r.qty, r.slot)
  <1>1. r.op = "book" /\ r.pc = "net" /\ Reads BY DEF AskNet, At
  <1>2. TypeOK /\ InventoryTypeOK /\ r \in Page /\ PageOK(r) /\ r.form \in Form
    BY <1>1, PageAt DEF IInv, Pages, TypeOK
  <1>3. r.i \in Items /\ r.qty \in Nat /\ r.shown \in BOOLEAN
    BY <1>2, InventoryAssumption DEF Page
  <1>4. PICK key \in {Core(r.i), Extra(r.i)} \cap DOMAIN r.form :
          IF Clashes(net, r.form[key]) THEN Goes(h, [r EXCEPT !.pc = "list"])
          ELSE Goes(h, Rest(h, r.shown))
    BY DEF AskNet
  <1>5. CASE Clashes(net, r.form[key])
    <2> DEFINE p == [r EXCEPT !.pc = "list"]
    <2>1. Goes(h, p) BY <1>4, <1>5
    <2>2. /\ p \in Page /\ p.pc = "list" /\ p.form = r.form /\ p.slot = r.slot
          /\ p.i = r.i /\ p.todo = r.todo
          /\ p.clean = r.clean /\ p.shown = r.shown
      <3> HIDE DEF r
      <3> QED BY <1>2, ToList
    <2> HIDE DEF p
    <2>3. Unsettled(p) = Unsettled(r) BY <1>1, <2>2 DEF Unsettled
    <2>4. \A j : Fitting(p, j) <=> Fitting(r, j)
      <3> HIDE DEF r
      <3> QED BY <2>2 DEF Fitting
    <2>5. PageOK(p)
      <3> HIDE DEF r
      <3> QED BY <1>1, <1>2, <2>2, <2>3, <2>4 DEF PageOK
    <2>6. p \in Request /\ RequestOK(p) BY <2>2, <2>5, PageRequest
    <2>7. UNCHANGED <<items, booked, sets>> /\ titled' \in Nat /\ begun' \in 0 .. MaxBegun
      BY <1>1, <1>2 DEF Reads, stock, TypeOK
    <2> QED BY <2>1, <2>6, <2>7, GoesKeeps
  <1>6. CASE ~Clashes(net, r.form[key])
    <2>1. net \in Int
      <3>1. Usage(r.i, r.slot) \in Nat
        <4> HIDE DEF r
        <4> QED BY <1>2, <1>3, UsageType
      <3> QED BY <1>3, <3>1 DEF NetQuantity
    <2>2. key \in DOMAIN r.form BY <1>4
    <2>3. r.form[key] \in Nat BY <1>2, <2>2, FormType, InventoryAssumption
    <2>4. r.form[key] <= net
      <3> HIDE DEF net
      <3> QED BY <1>6, <2>1, <2>3 DEF Clashes
    <2>5. ASSUME r.clean PROVE Fitting(r, r.i)
      <3>1. r.qty = items[r.i].qty BY <1>1, <1>2, <2>5 DEF PageOK
      <3>2. r.form[key] <= NetQuantity(r.i, items[r.i].qty, r.slot) BY <2>4, <3>1
      <3> HIDE DEF r
      <3> QED BY <2>2, <1>4, <3>2 DEF Fitting
    <2>6. Goes(h, Rest(h, r.shown)) BY <1>4, <1>6
    <2> QED BY <1>1, <1>3, <2>5, <2>6, RestKeeps
  <1> QED BY <1>5, <1>6

LEMMA ListClashesKeeps == ASSUME IInv, NEW h \in Handlers, ListClashes(h) PROVE IInv'
  <1> DEFINE r == req[h]
             shown == r.shown \/ Bookings(r.i, r.slot) # {}
  <1>1. r.op = "book" /\ r.pc = "list" /\ Reads /\ Goes(h, Rest(h, shown))
    BY DEF ListClashes, At
  <1>2. r \in Page BY <1>1, PageAt DEF IInv
  <1>3. shown \in BOOLEAN /\ (r.shown => shown) BY <1>2 DEF Page
  <1>4. r.clean /\ ~shown => Fitting(r, r.i) BY DEF Fitting
  <1> HIDE DEF shown
  <1> QED BY <1>1, <1>3, <1>4, RestKeeps

LEMMA SubmitKeeps == ASSUME IInv, NEW h \in Handlers, Submit(h) PROVE IInv'
  <1> DEFINE r == req[h]
             wants == [i \in Items |-> Copied(i, r.form)]
             p == [r EXCEPT !.pc = "book", !.wants = wants]
  <1>1. r.op = "book" /\ r.pc = "submit" /\ Reads /\ Goes(h, p) BY DEF Submit, At
  <1>2. TypeOK /\ r \in Page /\ PageOK(r) /\ r.form \in Form
    BY <1>1, PageAt DEF IInv, Pages
  <1>3. ASSUME NEW i \in Items
        PROVE  /\ wants[i] \in [sets: Nat, total: Nat]
               /\ wants[i].sets = 0 => wants[i].total = 0
               /\ wants[i].sets = 1 => ~Both(r.form, i)
    <2>1. wants[i] = Copied(i, r.form) OBVIOUS
    <2> QED BY <1>2, <2>1, CopiedType
  <1>4. wants \in Wants
    <2>1. wants = [i \in Items |-> wants[i]] OBVIOUS
    <2> QED BY <1>3, <2>1 DEF Wants
  <1> HIDE DEF wants
  <1>5. /\ p \in Page /\ p.pc = "book" /\ p.form = r.form /\ p.slot = r.slot
        /\ p.i = r.i /\ p.todo = r.todo /\ p.wants = wants
        /\ p.clean = r.clean /\ p.shown = r.shown
    <2>1. p = [r EXCEPT !.pc = "book", !.wants = wants] OBVIOUS
    <2> HIDE DEF p, r
    <2>2. p \in Page BY <1>2, <1>4, <2>1 DEF Page
    <2> QED BY <1>2, <2>1, <2>2 DEF Page
  <1> HIDE DEF p
  <1>6. Unsettled(p) = Unsettled(r) BY <1>1, <1>5 DEF Unsettled
  <1>7. \A j : Fitting(p, j) <=> Fitting(r, j)
    <2> HIDE DEF r
    <2> QED BY <1>5 DEF Fitting
  <1>8. PageOK(p)
    <2> HIDE DEF r
    <2> QED BY <1>1, <1>2, <1>3, <1>5, <1>6, <1>7 DEF PageOK
  <1>9. p \in Request /\ RequestOK(p) BY <1>5, <1>8, PageRequest
  <1>10. UNCHANGED <<items, booked, sets>> /\ titled' \in Nat /\ begun' \in 0 .. MaxBegun
    BY <1>1, <1>2 DEF Reads, stock, TypeOK
  <1> QED BY <1>1, <1>9, <1>10, GoesKeeps

(* Writes to the inventory or the bookings disturb the other pages, writes to *)
(* the sets the other edits.                                                  *)
LEMMA OtherPages ==
    ASSUME IInv, NEW g \in Handlers, req'[g] = Dirty(req[g], "book"), UNCHANGED sets
    PROVE  RequestOK(req[g])'
  <1> DEFINE r == req[g]
             d == req'[g]
  <1>1. r \in Request /\ RequestOK(r) BY PageAt, AllOK DEF IInv
  <1>2. CASE r.op = "book"
    <2>1. r \in Page /\ PageOK(r) BY <1>1, <1>2, RequestType DEF RequestOK
    <2>2. /\ d.op = "book" /\ ~d.clean
          /\ d.pc = r.pc /\ d.form = r.form /\ d.todo = r.todo /\ d.i = r.i
          /\ d.wants = r.wants
      BY <1>1, <1>2, <2>1, DirtyType
    <2>3. PageOK(req[g])' BY <2>1, <2>2 DEF PageOK
    <2> QED BY <2>2, <2>3 DEF RequestOK
  <1>3. CASE r.op # "book"
    <2>1. d = r BY <1>1, <1>3, DirtyType
    <2>2. \A x : EditOK(x)' <=> EditOK(x) BY SetsAlone
    <2> QED BY <1>1, <1>3, <2>1, <2>2 DEF RequestOK
  <1> QED BY <1>2, <1>3

LEMMA OtherEdits ==
    ASSUME IInv, NEW g \in Handlers, req'[g] = Dirty(req[g], "edit"), UNCHANGED <<items, booked>>
    PROVE  RequestOK(req[g])'
  <1> DEFINE r == req[g]
             d == req'[g]
  <1>1. r \in Request /\ RequestOK(r) BY PageAt, AllOK DEF IInv
  <1>2. CASE r.op = "edit"
    <2>1. r \in Edit BY <1>1, <1>2, RequestType
    <2>2. d.op = "edit" /\ ~d.clean /\ d.pc = r.pc /\ d.mine = r.mine
      BY <1>1, <1>2, <2>1, DirtyType
    <2> QED BY <1>1, <1>2, <2>2 DEF RequestOK, Left
  <1>3. CASE r.op # "edit"
    <2>1. d = r BY <1>1, <1>3, DirtyType
    <2>2. \A x : PageOK(x)' <=> PageOK(x) BY StockAlone
    <2> QED BY <1>1, <1>3, <2>1, <2>2 DEF RequestOK
  <1> QED BY <1>2, <1>3

LEMMA BookKeeps == ASSUME IInv, NEW h \in Handlers, Book(h) PROVE IInv'
  <1> DEFINE r == req[h]
  <1>1. TypeOK /\ r \in Page /\ PageOK(r) /\ r.pc = "book"
    BY PageAt DEF IInv, Pages, Book, At
  <1>2. PICK t \in Tickets : booked' = [booked EXCEPT ![t] = [slot |-> r.slot, wants |-> r.wants]]
    BY DEF Book, Enter
  <1>3. /\ Moves(h, Idle, "book")
        /\ UNCHANGED <<items, sets, titled, begun>>
    BY DEF Book
  <1>4. /\ req' \in [Handlers -> Request] /\ req'[h] = Idle
        /\ \A g \in Handlers \ {h} : req'[g] = Dirty(req[g], "book")
    BY <1>1, <1>3, IdleOK, MovesType
  <1>5. [slot |-> r.slot, wants |-> r.wants] \in Booking BY <1>1 DEF Page, Booking
  <1>6. TypeOK' BY <1>1, <1>2, <1>3, <1>4, <1>5 DEF TypeOK, InventoryTypeOK, Request
  <1>7. NoneAsked'
    <2>1. \A i \in Items : r.wants[i].sets = 0 => r.wants[i].total = 0 BY <1>1 DEF PageOK
    <2>2. \A u \in Tickets \ {t} : booked'[u] = booked[u]
      BY <1>1, <1>2 DEF TypeOK, InventoryTypeOK
    <2>3. booked'[t].wants = r.wants BY <1>1, <1>2 DEF TypeOK, InventoryTypeOK
    <2> QED BY <2>1, <2>2, <2>3 DEF IInv, NoneAsked
  <1>8. ASSUME NEW g \in Handlers PROVE RequestOK(req[g])'
    <2>1. CASE g = h
      <3>1. req'[g].op = "idle" BY <1>4, <2>1 DEF Idle
      <3> QED BY <3>1 DEF RequestOK
    <2>2. CASE g # h BY <1>3, <1>4, <2>2, OtherPages
    <2> QED BY <2>1, <2>2
  <1>9. Pages' /\ Edits' BY <1>8 DEF Pages, Edits, RequestOK
  <1>10. FirstUsed' BY <1>3 DEF IInv, FirstUsed, Used
  <1> QED BY <1>6, <1>7, <1>9, <1>10 DEF IInv

LEMMA ChangeStockKeeps == ASSUME IInv, ChangeStock PROVE IInv'
  <1>1. TypeOK /\ NoneAsked BY DEF IInv
  <1>2. /\ InventoryTypeOK' /\ begun' \in 0 .. MaxBegun
        /\ UNCHANGED <<sets, titled>> /\ NoneAsked'
        /\ req' \in [Handlers -> Request]
        /\ \A g \in Handlers : req'[g] = Dirty(req[g], "book")
    BY <1>1, ChangeType
  <1>3. TypeOK' BY <1>1, <1>2 DEF TypeOK, Request
  <1>4. \A g \in Handlers : RequestOK(req[g])' BY <1>2, OtherPages
  <1>5. Pages' /\ Edits' BY <1>4 DEF Pages, Edits, RequestOK
  <1>6. FirstUsed' BY <1>2 DEF IInv, FirstUsed, Used
  <1> QED BY <1>2, <1>3, <1>5, <1>6 DEF IInv

LEMMA OtherStepsKeep ==
    ASSUME IInv,
           \/ \E h \in Handlers : GiveUp(h) \/ OpenNew(h) \/ FindTitle(h) \/ CreateActivity(h)
           \/ Rename
    PROVE  IInv'
  <1>1. TypeOK BY DEF IInv
  <1>2. ASSUME NEW h \in Handlers, NEW op \in {"search", "create"}
        PROVE  [op |-> "new", pc |-> op] \in Request /\ RequestOK([op |-> "new", pc |-> op])
    BY DEF Request, New, RequestOK
  <1>3. ASSUME NEW h \in Handlers, GiveUp(h) PROVE IInv'
    BY <1>1, <1>3, IdleOK, GoesKeeps DEF GiveUp, Reads, stock, TypeOK
  <1>4. ASSUME NEW h \in Handlers, OpenNew(h) PROVE IInv'
    <2> DEFINE r == [op |-> "new", pc |-> "search"]
    <2>1. r \in Request /\ RequestOK(r) BY <1>2
    <2>2. Arrives(h, r) BY <1>4 DEF OpenNew
    <2> HIDE DEF r
    <2>3. /\ Goes(h, r) /\ UNCHANGED <<items, booked, sets>>
          /\ titled' \in Nat /\ begun' \in 0 .. MaxBegun
      BY <1>1, <2>1, <2>2, ArrivesType DEF Arrives, TypeOK
    <2> QED BY <2>1, <2>3, GoesKeeps
  <1>5. ASSUME NEW h \in Handlers, FindTitle(h) PROVE IInv'
    <2> DEFINE r == [op |-> "new", pc |-> "create"]
    <2>1. r \in Request /\ RequestOK(r) BY <1>2
    <2>2. Goes(h, r) /\ Reads BY <1>5 DEF FindTitle
    <2> HIDE DEF r
    <2>3. UNCHANGED <<items, booked, sets>> /\ titled' \in Nat /\ begun' \in 0 .. MaxBegun
      BY <1>1, <2>2 DEF Reads, stock, TypeOK
    <2> QED BY <2>1, <2>2, <2>3, GoesKeeps
  <1>6. ASSUME NEW h \in Handlers, CreateActivity(h) PROVE IInv'
    <2>1. /\ Goes(h, Idle) /\ UNCHANGED <<items, booked, sets>>
          /\ titled' \in Nat /\ begun' \in 0 .. MaxBegun
      BY <1>1, <1>6 DEF CreateActivity, stock, TypeOK
    <2> QED BY <2>1, IdleOK, GoesKeeps
  <1>7. ASSUME Rename PROVE IInv'
    <2>1. /\ UNCHANGED <<items, booked, sets, req>>
          /\ titled' \in Nat /\ begun' \in 0 .. MaxBegun
      BY <1>1, <1>7, StockAssumption DEF Rename, Counted, stock, TypeOK
    <2>2. TypeOK' BY <1>1, <2>1 DEF TypeOK, InventoryTypeOK
    <2>3. \A x : RequestOK(x)' <=> RequestOK(x) BY <2>1, StockAlone, SetsAlone DEF RequestOK
    <2>4. \A g \in Handlers : RequestOK(req[g])' BY <2>1, <2>3, AllOK DEF IInv
    <2>5. Pages' /\ Edits' BY <2>4 DEF Pages, Edits, RequestOK
    <2>6. NoneAsked' /\ FirstUsed' BY <2>1 DEF IInv, NoneAsked, FirstUsed, Used
    <2> QED BY <2>2, <2>5, <2>6 DEF IInv
  <1> QED BY <1>3, <1>4, <1>5, <1>6, <1>7

-----------------------------------------------------------------------------
(* What the steps of an edit leave *)

LEMMA InsertSettles ==
    ASSUME IInv, NEW h \in Handlers, Insert(h), req[h].clean,
           NEW form, form = req[h].form, NEW mine, mine = Grown(req[h])
    PROVE  /\ \A k \in Left(mine) : sets'[k].live /\ mine[k].stamp = sets'[k].stamp
           /\ Settled(form, mine)'
  <1> DEFINE r == req[h]
             ids == NewIds(r)
  <1>1. TypeOK /\ FirstUsed BY DEF IInv
  <1>2. /\ r.op = "edit" /\ r.pc = "insert" /\ ids \subseteq SetIds
        /\ Adding(r) \in SUBSET DOMAIN form /\ Adding(r) \in SUBSET Key
        /\ sets' \in Inserted(Adding(r), form)
        /\ mine \in Work /\ Left(mine) = Left(r.mine) \cup ids
    BY <1>1, InsertDoes
  <1>3. form \in Form BY <1>1, <1>2, PageAt
  <1>4. r.mine = Mine(form) BY <1>2 DEF IInv, Edits, EditOK
  <1>5. /\ Left(r.mine) = Equipment
        /\ \A k \in Equipment : /\ r.mine[k].qty = Posted(k, Equipment, form)
                                /\ r.mine[k].stamp = sets[k].stamp
    BY <1>1, <1>3, <1>4, MineType
  <1>6. /\ \A k \in SetIds \ ids : sets'[k] = sets[k]
        /\ \A k \in ids : /\ sets'[k].live /\ sets'[k].key \in Adding(r) /\ sets'[k].stamp = 0
                          /\ sets'[k].qty = form[sets'[k].key]
        /\ \A key \in Adding(r) : \E k \in ids : sets'[k].key = key
        /\ \A j, k \in ids : sets'[j].key = sets'[k].key => j = k
    <2>1. ids = NextIds(Cardinality(Adding(r))) BY DEF NewIds
    <2> HIDE DEF ids, r
    <2> QED BY <1>1, <1>2, <1>3, <2>1, InsertedSets
  <1>7. Equipment \cap ids = {}
    <2>1. Cardinality(Adding(r)) \in Nat
      BY <1>2, KeyFinite, FS_Subset, FS_CardinalityType
    <2>2. ids \cap Used = {} BY <1>1, <1>2, <2>1, FreshIds DEF NewIds
    <2>3. Equipment \subseteq Used BY <1>1, SetType DEF Equipment, Used
    <2> QED BY <2>2, <2>3
  <1>8. Adding(r) = {key \in DOMAIN form : With(key, Equipment) = {}}
    BY <1>5 DEF Adding, Lacking
  <1> HIDE DEF r, ids
  <1>9. Equipment' = Equipment \cup ids /\ Left(mine) = Equipment'
    BY <1>2, <1>5, <1>6, <1>7 DEF Equipment
  <1>10. ASSUME NEW k \in Equipment
         PROVE  /\ k \in SetIds \ ids /\ sets'[k] = sets[k] /\ mine[k] = r.mine[k]
                /\ sets[k].key \in Key
    <2>1. k \in SetIds \ ids BY <1>7 DEF Equipment
    <2> QED BY <1>1, <1>6, <2>1, SetType DEF Equipment, Grown, ids, r
  <1>11. ASSUME NEW k \in ids
         PROVE  mine[k].qty = sets'[k].qty /\ mine[k].stamp = 0
    BY <1>2, <1>11 DEF Grown, ids, r
  <1>12. ASSUME NEW k \in Left(mine) PROVE sets'[k].live /\ mine[k].stamp = sets'[k].stamp
    <2>1. CASE k \in ids BY <1>6, <1>11, <2>1
    <2>2. CASE k \in Equipment BY <1>5, <1>10, <2>2 DEF Equipment
    <2> QED BY <1>9, <2>1, <2>2
  <1>13. ASSUME NEW k \in Equipment'
         PROVE  /\ Coming(mine, k)' = mine[k].qty
                /\ k \in ids => /\ mine[k].qty = form[sets'[k].key]
                                /\ sets'[k].key \in Key /\ sets'[k].key \in DOMAIN form
                                /\ With(sets'[k].key, Equipment) = {}
                /\ k \in Equipment => mine[k].qty = Posted(k, Equipment, form)
    <2>1. Coming(mine, k)' = mine[k].qty BY <1>9 DEF Coming
    <2>2. ASSUME k \in ids
          PROVE  /\ mine[k].qty = form[sets'[k].key]
                 /\ sets'[k].key \in Key /\ sets'[k].key \in DOMAIN form
                 /\ With(sets'[k].key, Equipment) = {}
      <3>1. sets'[k].key \in Adding(r) /\ sets'[k].key \in Key BY <1>2, <1>6, <2>2
      <3>2. sets'[k].key \in DOMAIN form /\ With(sets'[k].key, Equipment) = {}
        BY <1>8, <3>1
      <3> QED BY <1>6, <1>11, <2>2, <3>1, <3>2
    <2>3. k \in Equipment => mine[k].qty = Posted(k, Equipment, form) BY <1>5, <1>10
    <2> QED BY <2>1, <2>2, <2>3
  <1>14. ASSUME NEW key \in Key, Asked(form, key) > 0
         PROVE  \E k \in Equipment' : sets'[k].key = key /\ Coming(mine, k)' > 0
    <2>1. CASE key \in Adding(r)
      <3>1. PICK k \in ids : sets'[k].key = key BY <1>6, <2>1
      <3>2. form[key] > 0 BY <1>3, <1>14, AskedType
      <3> QED BY <1>9, <1>13, <3>1, <3>2
    <2>2. CASE key \notin Adding(r)
      <3>0. key \in DOMAIN form /\ form[key] > 0 BY <1>3, <1>14, AskedType
      <3>1. With(key, Equipment) # {} BY <1>8, <3>0, <2>2
      <3>2. With(key, Equipment) \in SUBSET Nat BY SetIdsType DEF With, Equipment
      <3>3. PICK m \in With(key, Equipment) : \A j \in With(key, Equipment) : m <= j
        BY <3>1, <3>2, Smallest
      <3>4. m \in Equipment /\ sets[m].key = key BY DEF With
      <3>5. CopiesTo(m, Equipment, form) BY <3>0, <3>3, <3>4 DEF CopiesTo, FirstWith
      <3>6. Posted(m, Equipment, form) > 0 BY <3>0, <3>4, <3>5 DEF Posted
      <3> QED BY <1>9, <1>10, <1>13, <3>4, <3>6
    <2> QED BY <2>1, <2>2
  <1>15. ASSUME NEW k \in Equipment', Coming(mine, k)' > 0
         PROVE  /\ Coming(mine, k)' = Asked(form, sets'[k].key)
                /\ k \in Equipment => FirstWith(k, Equipment)
    <2>1. CASE k \in ids BY <1>7, <1>13, <2>1 DEF Asked
    <2>2. CASE k \in Equipment
      <3>1. Posted(k, Equipment, form) > 0 BY <1>13, <1>15, <2>2
      <3>2. CopiesTo(k, Equipment, form) BY <3>1 DEF Posted
      <3> QED BY <1>10, <1>13, <2>2, <3>2 DEF Posted, CopiesTo, Asked
    <2> QED BY <1>9, <2>1, <2>2
  <1>16. ASSUME NEW k \in Equipment', NEW j \in Equipment',
                Coming(mine, k)' > 0, Coming(mine, j)' > 0, sets'[j].key = sets'[k].key
         PROVE  j = k
    <2>1. CASE k \in ids /\ j \in ids BY <1>6, <1>16, <2>1
    <2>2. CASE k \in Equipment /\ j \in Equipment
      <3>1. FirstWith(k, Equipment) /\ FirstWith(j, Equipment) BY <1>15, <1>16, <2>2
      <3>2. k \in With(sets[j].key, Equipment) /\ j \in With(sets[k].key, Equipment)
        BY <1>10, <1>16, <2>2 DEF With
      <3>3. k <= j /\ j <= k BY <3>1, <3>2 DEF FirstWith
      <3> QED BY <2>2, <3>3, SetIdsType DEF Equipment
    <2>3. ASSUME NEW n \in ids, NEW m \in Equipment PROVE sets'[n].key # sets'[m].key
      BY <1>9, <1>10, <1>13 DEF With
    <2> QED BY <1>9, <1>16, <2>1, <2>2, <2>3
  <1>17. Settled(form, mine)' BY <1>9, <1>14, <1>15, <1>16 DEF Settled
  <1> QED BY <1>12, <1>17

(* The statement on the set k of mine, and what is left then. *)
Saves(mine, k) == sets' = [sets EXCEPT ![k] = Saved(k, mine[k])]
Without(mine, k) == [mine EXCEPT ![k] = Done]

LEMMA SaveSettles ==
    ASSUME IInv, NEW h \in Handlers, req[h].op = "edit", req[h].pc = "sets", req[h].clean,
           NEW form, form = req[h].form,
           NEW k \in Left(req[h].mine),
           Saves(req[h].mine, k), NEW mine, mine = Without(req[h].mine, k)
    PROVE  /\ \A j \in Left(mine) : sets'[j].live /\ mine[j].stamp = sets'[j].stamp
           /\ Settled(form, mine)'
  <1> DEFINE old == req[h].mine
             m == old[k]
  <1>1. TypeOK /\ old \in Work /\ k \in SetIds BY PageAt DEF IInv, Left
  <1>2. /\ \A j \in Left(old) : sets[j].live /\ old[j].stamp = sets[j].stamp
        /\ Settled(form, old)
    BY DEF IInv, Edits, EditOK
  <1>3. m \in [qty: 0 .. MaxQty, stamp: Nat] /\ Left(mine) = Left(old) \ {k}
    BY <1>1, WorkType DEF Without
  <1>4. /\ sets'[k] = Saved(k, m)
        /\ \A j \in SetIds \ {k} : sets'[j] = sets[j] /\ mine[j] = old[j]
    BY <1>1 DEF TypeOK, Work, Saves, Without
  <1>5. /\ m.qty > 0 => sets'[k].live /\ sets'[k].qty = m.qty /\ sets'[k].key = sets[k].key
        /\ m.qty = 0 => ~sets'[k].live
    BY <1>1, <1>2, <1>3, <1>4, SavedType
  <1>6. m.qty \in Nat BY <1>3, InventoryAssumption
  <1>7. Coming(old, k) = m.qty /\ k \in Equipment BY <1>1, <1>2 DEF Coming, Equipment
  <1> HIDE DEF old, m
  <1>8. Equipment' = {j \in Equipment : j # k \/ m.qty > 0}
    BY <1>1, <1>4, <1>5, <1>6, <1>7 DEF Equipment
  <1>9. ASSUME NEW j \in Equipment'
        PROVE  j \in Equipment /\ sets'[j].key = sets[j].key /\ Coming(mine, j)' = Coming(old, j)
    <2>1. CASE j = k
      <3>1. Coming(mine, j)' = sets'[j].qty BY <1>3, <2>1 DEF Coming
      <3> QED BY <1>5, <1>7, <1>8, <2>1, <3>1
    <2>2. CASE j # k
      <3>1. j \in Equipment /\ j \in SetIds \ {k} BY <1>8, <2>2 DEF Equipment
      <3>2. sets'[j] = sets[j] /\ mine[j] = old[j] BY <1>4, <3>1
      <3>3. j \in Left(mine) <=> j \in Left(old) BY <1>3, <2>2
      <3> QED BY <3>1, <3>2, <3>3 DEF Coming
    <2> QED BY <2>1, <2>2
  <1>10. ASSUME NEW j \in Left(mine) PROVE sets'[j].live /\ mine[j].stamp = sets'[j].stamp
    <2>1. j \in SetIds \ {k} /\ j \in Left(old) BY <1>3 DEF Left
    <2> QED BY <1>2, <1>4, <2>1
  <1>11. \A j \in Equipment : Coming(old, j) > 0 => j \in Equipment' BY <1>7, <1>8
  <1>12. ASSUME NEW key \in Key, Asked(form, key) > 0
         PROVE  \E j \in Equipment' : sets'[j].key = key /\ Coming(mine, j)' > 0
    <2>1. PICK j \in Equipment : sets[j].key = key /\ Coming(old, j) > 0
      BY <1>2, <1>12 DEF Settled
    <2> QED BY <1>9, <1>11, <2>1
  <1>13. ASSUME NEW j \in Equipment', Coming(mine, j)' > 0
         PROVE  /\ Coming(mine, j)' = Asked(form, sets'[j].key)
                /\ \A i \in Equipment' :
                      Coming(mine, i)' > 0 /\ sets'[i].key = sets'[j].key => i = j
    <2>1. j \in Equipment /\ Coming(old, j) > 0 BY <1>9, <1>13
    <2>2. Coming(old, j) = Asked(form, sets[j].key) BY <1>2, <2>1 DEF Settled
    <2>3. ASSUME NEW i \in Equipment', Coming(mine, i)' > 0, sets'[i].key = sets'[j].key
          PROVE  i = j
      <3>1. i \in Equipment /\ Coming(old, i) > 0 /\ sets[i].key = sets[j].key
        BY <1>9, <2>3
      <3> QED BY <1>2, <2>1, <3>1 DEF Settled
    <2> QED BY <1>9, <2>2, <2>3
  <1>14. ASSUME NEW j \in Equipment' \ Left(mine) PROVE sets'[j].qty > 0
    <2>1. CASE j = k BY <1>5, <1>8, <2>1
    <2>2. CASE j # k
      <3>1. j \in Equipment \ Left(old) /\ j \in SetIds \ {k} BY <1>3, <1>9, <2>2 DEF Equipment
      <3>2. sets[j].qty > 0 BY <1>2, <3>1 DEF Settled
      <3> QED BY <1>4, <3>1, <3>2
    <2> QED BY <2>1, <2>2
  <1>15. Settled(form, mine)' BY <1>12, <1>13, <1>14 DEF Settled
  <1> QED BY <1>10, <1>15

-----------------------------------------------------------------------------
(* The steps of an edit keep the invariant *)

LEMMA OpenEditKeeps == ASSUME IInv, NEW h \in Handlers, OpenEdit(h) PROVE IInv'
  <1>1. TypeOK BY DEF IInv
  <1>2. PICK r \in Edit : /\ r.pc = "insert" /\ r.form \in Form /\ r.mine = Mine(r.form)
                          /\ Arrives(h, r)
    BY <1>1, OpenEditDoes
  <1>3. r \in Request /\ r.op = "edit" BY DEF Edit, Request
  <1>4. \A k \in Left(r.mine) : sets[k].live /\ r.mine[k].stamp = sets[k].stamp
    BY <1>1, <1>2, MineType DEF Equipment
  <1>5. RequestOK(r) BY <1>2, <1>3, <1>4 DEF RequestOK, EditOK
  <1>6. /\ Goes(h, r) /\ UNCHANGED <<items, booked, sets>>
        /\ titled' \in Nat /\ begun' \in 0 .. MaxBegun
    BY <1>1, <1>2, <1>3, ArrivesType DEF Arrives, TypeOK
  <1> QED BY <1>3, <1>5, <1>6, GoesKeeps

(* A write to the sets by an edit that then goes on with mine. *)
LEMMA WriteKeeps ==
    ASSUME IInv, NEW h \in Handlers, req[h] \in Edit, NEW mine \in Work,
           Moves(h, Saving(h, mine), "edit"),
           UNCHANGED <<items, booked, titled, begun>>,
           sets' \in [SetIds -> EquipmentSet], FirstUsed',
           NEW form, form = req[h].form,
           req[h].clean => /\ \A k \in Left(mine) : sets'[k].live /\ mine[k].stamp = sets'[k].stamp
                           /\ Settled(form, mine)'
    PROVE  IInv' /\ req'[h] = Saving(h, mine)
  <1>1. PICK r : r = Saving(h, mine) OBVIOUS
  <1>2. TypeOK BY DEF IInv
  <1>3. /\ r \in Request
        /\ r = Idle <=> Left(mine) = {}
        /\ Left(mine) # {} =>
             /\ r.op = "edit" /\ r.pc = "sets"
             /\ r.form = form /\ r.mine = mine
             /\ r.clean = req[h].clean
    BY <1>1, SavingType
  <1>4. /\ req' \in [Handlers -> Request] /\ req'[h] = r
        /\ \A g \in Handlers \ {h} : req'[g] = Dirty(req[g], "edit")
    BY <1>1, <1>2, <1>3, MovesType
  <1>5. TypeOK' BY <1>2, <1>4 DEF TypeOK, InventoryTypeOK, Request
  <1>6. RequestOK(req[h])'
    <2>1. CASE r = Idle
      <3>1. req'[h].op = "idle" BY <1>4, <2>1 DEF Idle
      <3> QED BY <3>1 DEF RequestOK
    <2>2. CASE r # Idle
      <3>1. r.clean => EditOK(req[h])' BY <1>3, <1>4, <2>2 DEF EditOK, Left
      <3> QED BY <1>3, <1>4, <2>2, <3>1 DEF RequestOK, Left
    <2> QED BY <2>1, <2>2
  <1>7. \A g \in Handlers \ {h} : RequestOK(req[g])' BY <1>4, OtherEdits
  <1>8. Pages' /\ Edits' BY <1>6, <1>7 DEF Pages, Edits, RequestOK
  <1>9. NoneAsked' BY DEF IInv, NoneAsked
  <1> QED BY <1>1, <1>4, <1>5, <1>8, <1>9 DEF IInv

LEMMA InsertKeeps ==
    ASSUME IInv, NEW h \in Handlers, Insert(h)
    PROVE  IInv' /\ req'[h] = Saving(h, Grown(req[h]))
  <1>1. TypeOK /\ FirstUsed BY DEF IInv
  <1>2. /\ req[h] \in Edit /\ NewIds(req[h]) \subseteq SetIds
        /\ Adding(req[h]) \in SUBSET DOMAIN req[h].form /\ Adding(req[h]) \in SUBSET Key
        /\ sets' \in Inserted(Adding(req[h]), req[h].form)
        /\ sets' \in [SetIds -> EquipmentSet] /\ Grown(req[h]) \in Work
        /\ Moves(h, Saving(h, Grown(req[h])), "edit")
        /\ UNCHANGED <<items, booked, titled, begun>> /\ req[h].form \in Form
    BY <1>1, InsertDoes, PageAt
  <1>3. PICK form, mine : form = req[h].form /\ mine = Grown(req[h]) OBVIOUS
  <1>4. FirstUsed'
    <2> DEFINE ids == NewIds(req[h])
               keys == Adding(req[h])
    <2>1. Cardinality(keys) \in Nat BY <1>2, KeyFinite, FS_Subset, FS_CardinalityType
    <2>2. ids = NextIds(Cardinality(keys)) BY DEF NewIds
    <2>3. /\ \A k \in SetIds \ ids : sets'[k] = sets[k]
          /\ \A k \in ids : sets'[k] # NoSet
      <3> HIDE DEF ids, keys
      <3> QED BY <1>1, <1>2, <2>2, InsertedSets DEF ids, keys
    <2>4. \E n \in Nat : Used \cup ids = 1 .. n
      <3> HIDE DEF ids, keys
      <3> QED BY <1>1, <1>2, <2>1, <2>2, FreshIds DEF ids
    <2>5. Used' = Used \cup ids
      <3> HIDE DEF ids, keys
      <3> QED BY <1>2, <2>3 DEF Used, ids
    <2> QED BY <2>4, <2>5 DEF FirstUsed
  <1>5. req[h].clean => /\ \A k \in Left(mine) : sets'[k].live /\ mine[k].stamp = sets'[k].stamp
                        /\ Settled(form, mine)'
    BY <1>3, InsertSettles
  <1> QED BY <1>2, <1>3, <1>4, <1>5, WriteKeeps

LEMMA SaveSetKeeps ==
    ASSUME IInv, NEW h \in Handlers, SaveSet(h)
    PROVE  /\ IInv'
           /\ \E k \in Left(req[h].mine) :
                /\ sets' = [sets EXCEPT ![k] = Saved(k, req[h].mine[k])]
                /\ req'[h] = Saving(h, [req[h].mine EXCEPT ![k] = Done])
  <1>1. TypeOK /\ FirstUsed BY DEF IInv
  <1>2. req[h].op = "edit" /\ req[h].pc = "sets" BY DEF SaveSet, At
  <1>3. Left(req[h].mine) # {} BY <1>2 DEF IInv, Edits
  <1>4. PICK k \in Left(req[h].mine) :
          /\ sets' = [sets EXCEPT ![k] = Saved(k, req[h].mine[k])]
          /\ Moves(h, Saving(h, [req[h].mine EXCEPT ![k] = Done]), "edit")
    BY <1>1, <1>3, SaveSetDoes
  <1>5. UNCHANGED <<items, booked, titled, begun>> BY <1>1, <1>3, SaveSetDoes
  <1>6. PICK form, mine : form = req[h].form /\ mine = [req[h].mine EXCEPT ![k] = Done] OBVIOUS
  <1>7. req[h] \in Edit /\ req[h].mine \in Work /\ k \in SetIds
    BY <1>1, <1>2, PageAt DEF Left
  <1>8. mine \in Work /\ req[h].mine[k] \in [qty: 0 .. MaxQty, stamp: Nat]
    BY <1>6, <1>7, WorkType
  <1>9. /\ Saved(k, req[h].mine[k]) \in EquipmentSet
        /\ Saved(k, req[h].mine[k]) = NoSet <=> sets[k] = NoSet
    BY <1>1, <1>7, <1>8, SavedType
  <1>10. sets' \in [SetIds -> EquipmentSet] BY <1>1, <1>4, <1>9 DEF TypeOK
  <1>11. FirstUsed'
    <2>1. Used' = Used BY <1>1, <1>4, <1>7, <1>9 DEF TypeOK, Used
    <2> QED BY <1>1, <2>1 DEF FirstUsed
  <1>12. req[h].clean => /\ \A j \in Left(mine) : sets'[j].live /\ mine[j].stamp = sets'[j].stamp
                         /\ Settled(form, mine)'
    <2>1. Saves(req[h].mine, k) /\ mine = Without(req[h].mine, k)
      BY <1>4, <1>6 DEF Saves, Without
    <2>2. form = req[h].form BY <1>6
    <2>3. ASSUME req[h].clean
          PROVE  /\ \A j \in Left(mine) : sets'[j].live /\ mine[j].stamp = sets'[j].stamp
                 /\ Settled(form, mine)'
      <3>1. \A j \in Left(mine) : sets'[j].live /\ mine[j].stamp = sets'[j].stamp
        BY <1>2, <2>1, <2>2, <2>3, SaveSettles
      <3>2. Settled(form, mine)'
        BY <1>2, <2>1, <2>2, <2>3, SaveSettles
      <3> QED BY <3>1, <3>2
    <2> QED BY <2>3
  <1>13. Moves(h, Saving(h, mine), "edit") BY <1>4, <1>6
  <1>14. IInv' /\ req'[h] = Saving(h, mine)
    BY <1>5, <1>6, <1>7, <1>8, <1>10, <1>11, <1>12, <1>13, WriteKeeps
  <1> QED BY <1>4, <1>6, <1>14

-----------------------------------------------------------------------------
(* The invariant holds *)

LEMMA FirstUsedInit == Init => FirstUsed
  <1> SUFFICES ASSUME Init PROVE FirstUsed OBVIOUS
  <1>1. PICK own \in SUBSET {i \in Items : Stocked(i)}, f \in [Items -> SetIds] :
          /\ {f[i] : i \in own} = 1 .. Cardinality(own)
          /\ sets = [k \in SetIds |->
               IF \E i \in own : f[i] = k
               THEN [live |-> TRUE, key |-> Core(CHOOSE i \in own : f[i] = k), qty |-> 1, stamp |-> 0]
               ELSE NoSet]
    BY DEF Init
  <1>2. Cardinality(own) \in Nat
    <2>1. own \in SUBSET Items OBVIOUS
    <2> QED BY <2>1, InventoryAssumption, FS_Subset, FS_CardinalityType
  <1>3. \A key, qty, stamp : [live |-> TRUE, key |-> key, qty |-> qty, stamp |-> stamp] # NoSet
    <2>1. NoSet.live = FALSE BY DEF NoSet
    <2> QED BY <2>1
  <1>4. Used = {k \in SetIds : \E i \in own : f[i] = k} BY <1>1, <1>3 DEF Used
  <1>5. Used = {f[i] : i \in own} BY <1>4
  <1> QED BY <1>1, <1>2, <1>5 DEF FirstUsed

LEMMA InvInit == Init => IInv
  <1> SUFFICES ASSUME Init PROVE IInv OBVIOUS
  <1>1. TypeOK /\ FirstUsed BY TypeInit, FirstUsedInit
  <1>2. NoneAsked BY DEF Init, NoneAsked, NoBooking
  <1>3. \A h \in Handlers : req[h].op = "idle" BY DEF Init, Idle
  <1>4. Pages /\ Edits BY <1>3 DEF Pages, Edits
  <1> QED BY <1>1, <1>2, <1>4 DEF IInv

LEMMA InvStep == IInv /\ [Next]_vars => IInv'
  <1> SUFFICES ASSUME IInv, [Next]_vars PROVE IInv' OBVIOUS
  <1>1. ASSUME NEW h \in Handlers,
               OpenPage(h) \/ ReadItem(h) \/ AskNet(h) \/ ListClashes(h) \/ Submit(h)
        PROVE  IInv'
    BY <1>1, OpenPageKeeps, ReadItemKeeps, AskNetKeeps, ListClashesKeeps, SubmitKeeps
  <1>2. ASSUME NEW h \in Handlers, Book(h) PROVE IInv' BY <1>2, BookKeeps
  <1>3. ASSUME NEW h \in Handlers, OpenEdit(h) \/ Insert(h) \/ SaveSet(h) PROVE IInv'
    BY <1>3, OpenEditKeeps, InsertKeeps, SaveSetKeeps
  <1>4. CASE \/ \E h \in Handlers : GiveUp(h) \/ OpenNew(h) \/ FindTitle(h) \/ CreateActivity(h)
             \/ Rename
    BY <1>4, OtherStepsKeep
  <1>5. CASE ChangeStock BY <1>5, ChangeStockKeeps
  <1>6. CASE UNCHANGED vars
    <2>1. UNCHANGED <<items, booked, sets, titled, begun, req>> BY <1>6 DEF vars
    <2>2. TypeOK' BY <2>1 DEF IInv, TypeOK, InventoryTypeOK
    <2>3. \A x : RequestOK(x)' <=> RequestOK(x) BY <2>1, StockAlone, SetsAlone DEF RequestOK
    <2>4. \A g \in Handlers : RequestOK(req[g])' BY <2>1, <2>3, AllOK DEF IInv
    <2>5. Pages' /\ Edits' BY <2>4 DEF Pages, Edits, RequestOK
    <2>6. NoneAsked' /\ FirstUsed' BY <2>1 DEF IInv, NoneAsked, FirstUsed, Used
    <2> QED BY <2>2, <2>5, <2>6 DEF IInv
  <1> QED BY <1>1, <1>2, <1>3, <1>4, <1>5, <1>6 DEF Next

(* The inductive invariant holds in every state of every behaviour. *)
THEOREM Invariance == Spec => []IInv
  BY InvInit, InvStep, PTL DEF Spec

(* Items, bookings, sets and requests keep their types: quantities stay within *)
(* their bound, and every set belongs to an item.                              *)
THEOREM TypeCorrect == Spec => []TypeOK
  <1>1. IInv => TypeOK BY DEF IInv
  <1> QED BY <1>1, Invariance, PTL

(* EquipmentItem.Usage counts exactly the bookings that share an instant with *)
(* the times asked about.                                                     *)
THEOREM UsageCounts == Spec => []UsageExact
  <1>1. IInv => UsageExact BY UsageIsDemand DEF IInv
  <1> QED BY <1>1, Invariance, PTL

-----------------------------------------------------------------------------
(* What a page is advised *)

LEMMA AdviceNow ==
    ASSUME IInv, NEW h \in Handlers, At(h, "book", "book"), req[h].clean, ~req[h].shown,
           NEW i \in Wanted(req[h].form), NEW n \in req[h].slot.start .. req[h].slot.end,
           req[h].wants[i].sets = 1
    PROVE  LET asked == Asked(req[h].form, Core(i)) + Asked(req[h].form, Extra(i))
           IN  DemandAt(i, n) = 0 \/ DemandAt(i, n) + asked <= items[i].qty
  <1> DEFINE r == req[h]
             c == Asked(r.form, Core(i))
             x == Asked(r.form, Extra(i))
  <1>1. /\ TypeOK /\ InventoryTypeOK /\ NoneAsked /\ r \in Page /\ r.form \in Form
        /\ PageOK(r) /\ r.pc = "book"
    BY PageAt DEF IInv, Pages, At, TypeOK
  <1>2. i \in Items /\ r.slot \in Slots BY <1>1 DEF Wanted, Page
  <1>3. c \in Nat /\ x \in Nat BY <1>1, AskedType
  <1>4. ~Both(r.form, i) BY <1>1, <1>2 DEF PageOK
  <1>5. Unsettled(r) = {} BY <1>1 DEF PageOK, Unsettled
  <1>6. Fitting(r, i) BY <1>1, <1>5 DEF PageOK
  <1>7. DemandAt(i, n) \in Nat /\ Usage(i, r.slot) \in Nat BY <1>1, <1>2, DemandType, UsageType
  <1>8. /\ DemandAt(i, n) <= Usage(i, r.slot)
        /\ Bookings(i, r.slot) = {} => DemandAt(i, n) = 0
    BY <1>1, <1>2, UsageCoversDemand
  <1>9. items[i].qty \in Nat BY <1>1, <1>2, InventoryAssumption DEF InventoryTypeOK, Item
  <1>10. CASE Bookings(i, r.slot) = {} BY <1>8, <1>10
  <1>11. CASE \E key \in {Core(i), Extra(i)} :
                key \in DOMAIN r.form /\ r.form[key] <= NetQuantity(i, items[i].qty, r.slot)
    <2>1. c + x <= items[i].qty - Usage(i, r.slot)
      <3>1. \/ x = 0 /\ c <= items[i].qty - Usage(i, r.slot)
            \/ c = 0 /\ x <= items[i].qty - Usage(i, r.slot)
        BY <1>4, <1>11 DEF NetQuantity, Both, Asked
      <3> HIDE DEF c, x
      <3> QED BY <1>3, <1>4, <3>1
    <2> HIDE DEF c, x
    <2>2. DemandAt(i, n) + (c + x) <= items[i].qty BY <1>3, <1>7, <1>8, <1>9, <2>1
    <2> QED BY <2>2 DEF c, x
  <1> QED BY <1>6, <1>10, <1>11 DEF Fitting

(* A booking that the page was not warned of asks, at no instant, for more of   *)
(* an item than is left, unless nobody else has booked the item then: if nobody *)
(* wrote since the page's first query (another page's booking in between is the *)
(* race that the code does not exclude), if the booking took one set of the     *)
(* item with what was asked for, and if the item is available.                  *)
THEOREM AdviceHolds == Spec => AdviceIsSound
  <1> DEFINE Sound ==
        \A h \in Handlers : At(h, "book", "book") /\ req'[h] = Idle
                              /\ req[h].clean /\ ~req[h].shown =>
        \A i \in Wanted(req[h].form), n \in req[h].slot.start .. req[h].slot.end :
            LET asked == Asked(req[h].form, Core(i)) + Asked(req[h].form, Extra(i)) IN
            req[h].wants[i] = [sets |-> 1, total |-> asked] /\ items[i].available =>
                DemandAt(i, n) = 0 \/ DemandAt(i, n) + asked <= items[i].qty
  <1>1. IInv => Sound
    <2> SUFFICES ASSUME IInv, NEW h \in Handlers,
                        At(h, "book", "book"), req[h].clean, ~req[h].shown,
                        NEW i \in Wanted(req[h].form),
                        NEW n \in req[h].slot.start .. req[h].slot.end,
                        NEW asked,
                        asked = Asked(req[h].form, Core(i)) + Asked(req[h].form, Extra(i)),
                        req[h].wants[i] = [sets |-> 1, total |-> asked]
                 PROVE  DemandAt(i, n) = 0 \/ DemandAt(i, n) + asked <= items[i].qty
      OBVIOUS
    <2>1. req[h].wants[i].sets = 1 OBVIOUS
    <2> QED BY <2>1, AdviceNow
  <1>2. IInv /\ [Next]_vars => [Sound]_vars BY <1>1
  <1>3. Spec => [][Sound]_vars
    <2> HIDE DEF Sound
    <2> QED BY <1>2, Invariance, PTL DEF Spec
  <1> QED BY <1>3 DEF AdviceIsSound

-----------------------------------------------------------------------------
(* What an edit leaves *)

(* Only its own last statement ends an edit. *)
LEMMA EndsBy ==
    ASSUME IInv, Next, NEW h \in Handlers, req[h].op = "edit", req'[h] = Idle
    PROVE  Insert(h) \/ SaveSet(h)
  <1>1. TypeOK /\ req[h] \in Request /\ req'[h].op = "idle" BY PageAt DEF IInv, Idle
  <1>2. \A op \in {"book", "edit"} : req'[h] # Dirty(req[h], op) BY <1>1, DirtyType
  <1>3. req'[h] # req[h] BY <1>1
  <1>4. req \in [Handlers -> Request] BY <1>1, ReqType
  <1>5. ASSUME NEW g \in Handlers, NEW r, Goes(g, r) PROVE g = h
    BY <1>3, <1>4, <1>5 DEF Goes
  <1>6. ASSUME NEW g \in Handlers, NEW r, NEW op \in {"book", "edit"}, Moves(g, r, op)
        PROVE  g = h
    BY <1>2, <1>6 DEF Moves
  <1>7. ASSUME NEW g \in Handlers, NEW r, Arrives(g, r) PROVE FALSE
    BY <1>1, <1>5, <1>7, RequestType DEF Arrives
  <1>8. ASSUME NEW g \in Handlers, OpenPage(g) \/ OpenEdit(g) \/ OpenNew(g) PROVE FALSE
    BY <1>7, <1>8 DEF OpenPage, OpenEdit, OpenNew
  <1>9. ASSUME NEW g \in Handlers, GiveUp(g) \/ Submit(g) \/ FindTitle(g) \/ CreateActivity(g)
        PROVE  FALSE
    BY <1>5, <1>9 DEF GiveUp, Submit, FindTitle, CreateActivity, At
  <1>10. ASSUME NEW g \in Handlers, ReadItem(g) \/ AskNet(g) \/ ListClashes(g) PROVE FALSE
    BY <1>5, <1>10 DEF ReadItem, AskNet, ListClashes, At
  <1>11. ASSUME NEW g \in Handlers, Book(g) PROVE FALSE BY <1>6, <1>11 DEF Book, At
  <1>12. ASSUME NEW g \in Handlers, Insert(g) \/ SaveSet(g) PROVE g = h
    BY <1>6, <1>12 DEF Insert, SaveSet
  <1>13. ~Rename BY <1>3 DEF Rename
  <1>14. ~ChangeStock BY <1>2 DEF ChangeStock, Disturbs
  <1> QED BY <1>8, <1>9, <1>10, <1>11, <1>12, <1>13, <1>14 DEF Next

(* Nothing left to do, the sets are those of the form. *)
LEMMA SettledIsPosted ==
    ASSUME TypeOK', NEW form \in Form, NEW mine, Left(mine) = {}, Settled(form, mine)'
    PROVE  /\ \A key \in Key : Asked(form, key) > 0 =>
                \E k \in SetIds : sets'[k].live /\ sets'[k].key = key /\ sets'[k].qty = form[key]
           /\ Cardinality({k \in SetIds : sets'[k].live})
                = Cardinality({key \in Key : Asked(form, key) > 0})
  <1> DEFINE E == {k \in SetIds : sets'[k].live}
             K == {key \in Key : Asked(form, key) > 0}
             f == [k \in E |-> sets'[k].key]
  <1>1. E = Equipment' BY DEF Equipment
  <1>2. ASSUME NEW k \in E PROVE Coming(mine, k)' = sets'[k].qty /\ Coming(mine, k)' > 0
    BY <1>1 DEF Coming, Settled
  <1>3. ASSUME NEW k \in E
        PROVE  sets'[k].key \in K /\ sets'[k].qty = Asked(form, sets'[k].key)
    <2>1. sets'[k].key \in Key
      <3>1. k \in SetIds /\ sets'[k].live OBVIOUS
      <3>2. sets'[k] \in EquipmentSet BY <3>1 DEF TypeOK
      <3>3. sets'[k] # NoSet
        <4>1. NoSet.live = FALSE BY DEF NoSet
        <4> QED BY <3>1, <4>1
      <3> QED BY <3>2, <3>3 DEF EquipmentSet
    <2>2. Coming(mine, k)' = Asked(form, sets'[k].key) BY <1>1, <1>2 DEF Settled
    <2> QED BY <1>2, <2>1, <2>2
  <1>4. ASSUME NEW key \in K PROVE \E k \in E : sets'[k].key = key
    BY <1>1 DEF Settled
  <1>5. ASSUME NEW j \in E, NEW k \in E, sets'[j].key = sets'[k].key PROVE j = k
    BY <1>1, <1>2, <1>5 DEF Settled
  <1>6. ASSUME NEW key \in Key, Asked(form, key) > 0
        PROVE  \E k \in SetIds : sets'[k].live /\ sets'[k].key = key /\ sets'[k].qty = form[key]
    <2>1. PICK k \in E : sets'[k].key = key BY <1>4, <1>6
    <2>2. Asked(form, key) = form[key] BY <1>6, AskedType
    <2> QED BY <1>3, <2>1, <2>2
  <1>7. Cardinality(E) = Cardinality(K)
    <2>1. IsFiniteSet(E) BY SetIdsType, FS_Subset
    <2>2. f \in [E -> K] BY <1>3
    <2>3. \A j, k \in E : f[j] = f[k] => j = k BY <1>5
    <2>4. \A key \in K : \E k \in E : f[k] = key BY <1>4
    <2> HIDE DEF E, K, f
    <2>5. f \in Bijection(E, K)
      BY <2>2, <2>3, <2>4 DEF Bijection, Injection, IsInjective, Surjection
    <2>6. ExistsBijection(E, K) BY <2>5 DEF ExistsBijection
    <2> QED BY <2>1, <2>6, FS_Bijection
  <1> QED BY <1>6, <1>7

(* An edit that nobody interfered with leaves exactly what was posted. *)
THEOREM EditSaves == Spec => SavedIsPosted
  <1> DEFINE Leaves(form) ==
        /\ \A key \in Key : Asked(form, key) > 0 =>
             \E k \in SetIds : sets'[k].live /\ sets'[k].key = key /\ sets'[k].qty = form[key]
        /\ Cardinality({k \in SetIds : sets'[k].live}) = Cardinality({key \in Key : Asked(form, key) > 0})
  <1>1. ASSUME IInv, Next, NEW h \in Handlers,
               req[h].op = "edit", req'[h] = Idle, req[h].clean
        PROVE  Leaves(req[h].form)
    <2>1. TypeOK /\ req[h] \in Edit /\ req[h].form \in Form /\ req[h].mine \in Work
      BY <1>1, PageAt DEF IInv
    <2>2. PICK form : form = req[h].form OBVIOUS
    <2>3. CASE Insert(h)
      <3>1. PICK mine : mine = Grown(req[h]) OBVIOUS
      <3>2. Settled(form, mine)' BY <1>1, <2>2, <2>3, <3>1, InsertSettles
      <3>3. IInv' /\ req'[h] = Saving(h, mine) BY <1>1, <2>3, <3>1, InsertKeeps
      <3>4. mine \in Work BY <1>1, <2>3, <3>1, InsertDoes DEF IInv
      <3>5. Left(mine) = {} BY <1>1, <2>1, <3>3, <3>4, SavingType
      <3> QED BY <2>1, <2>2, <3>2, <3>3, <3>5, SettledIsPosted DEF IInv
    <2>4. CASE SaveSet(h)
      <3>1. PICK k \in Left(req[h].mine) :
              /\ Saves(req[h].mine, k) /\ req'[h] = Saving(h, Without(req[h].mine, k))
        BY <1>1, <2>4, SaveSetKeeps DEF Saves, Without
      <3>2. PICK mine : mine = Without(req[h].mine, k) OBVIOUS
      <3>3. req[h].pc = "sets" BY <2>4 DEF SaveSet, At
      <3>4. Settled(form, mine)' BY <1>1, <2>2, <3>1, <3>2, <3>3, SaveSettles
      <3>5. mine \in Work BY <2>1, <3>1, <3>2, WorkType DEF Without, Left
      <3>6. Left(mine) = {} BY <1>1, <2>1, <3>1, <3>2, <3>5, SavingType
      <3>7. IInv' BY <1>1, <2>4, SaveSetKeeps
      <3> QED BY <2>1, <2>2, <3>4, <3>6, <3>7, SettledIsPosted DEF IInv
    <2> QED BY <1>1, <2>3, <2>4, EndsBy
  <1> DEFINE Saved_h ==
        \A h \in Handlers : req[h].op = "edit" /\ req'[h] = Idle /\ req[h].clean =>
            Leaves(req[h].form)
  <1>2. IInv /\ [Next]_vars => [Saved_h]_vars
    <2> SUFFICES ASSUME IInv, Next PROVE Saved_h OBVIOUS
    <2> HIDE DEF Leaves
    <2> QED BY <1>1
  <1>3. Spec => [][Saved_h]_vars
    <2> HIDE DEF Saved_h
    <2> QED BY <1>2, Invariance, PTL DEF Spec
  <1>4. Saved_h <=>
          \A h \in Handlers : req[h].op = "edit" /\ req'[h] = Idle /\ req[h].clean =>
            /\ \A key \in Key : Asked(req[h].form, key) > 0 =>
                 \E k \in SetIds : sets'[k].live /\ sets'[k].key = key
                                  /\ sets'[k].qty = req[h].form[key]
            /\ Cardinality({k \in SetIds : sets'[k].live})
                 = Cardinality({key \in Key : Asked(req[h].form, key) > 0})
    OBVIOUS
  <1> QED
    <2> HIDE DEF Saved_h
    <2> QED BY <1>3, <1>4, PTL DEF SavedIsPosted

=============================================================================
