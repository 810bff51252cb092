------------------------------- MODULE Stock -------------------------------
(***************************************************************************)
(* What draws on the inventory, and the requests that compete for it: the  *)
(* page that asks /api/clashes before it books, the edit of a permanent    *)
(* activity's equipment, the creation of new activities, and single        *)
(* statements on items and bookings.                                       *)
(*                                                                         *)
(* clean is history: nobody else has written, since the first query of a   *)
(* page or the read of an edit, to what it works on.                       *)
(***************************************************************************)
EXTENDS Templates

CONSTANTS
    Handlers,   \* pages and requests at work at once
    Forms,      \* the forms a booking page may post
    EditForms,  \* the forms an activity's editor may post
    MaxBegun    \* bound: pages opened, requests and single statements

ASSUME StockAssumption ==
    /\ Forms \subseteq Form /\ EditForms \subseteq Form
    /\ \A form \in EditForms, i \in Items : Extra(i) \notin DOMAIN form
    /\ MaxBegun \in Nat

VARIABLES
    titled,     \* live activities titled newactivity1
    begun, req

vars == <<items, booked, sets, titled, begun, req>>

Idle == [op |-> "idle"]

(* A page: todo are the items the advice is still to look at, i and qty    *)
(* the one it looks at, shown says that the answer lists a clash.          *)
Page == [op: {"book"}, pc: {"form", "item", "net", "list", "submit", "book"},
         form: Forms, slot: Slots, todo: SUBSET Items, i: Items, qty: 0 .. MaxQty,
         shown: BOOLEAN, wants: Wants, clean: BOOLEAN]
(* mine are the sets still to be saved.                                    *)
Edit == [op: {"edit"}, pc: {"insert", "sets"}, form: EditForms, mine: Work, clean: BOOLEAN]
New == [op: {"new"}, pc: {"search", "create"}]

TypeOK ==
    /\ InventoryTypeOK
    /\ sets \in [SetIds -> EquipmentSet]
    /\ titled \in Nat /\ begun \in 0 .. MaxBegun
    /\ req \in [Handlers -> {Idle} \cup Page \cup Edit \cup New]

At(h, op, pc) == req[h].op = op /\ req[h].pc = pc

(* Moves(h, r, op): h goes on as r, and has disturbed those who do op.     *)
Dirty(r, op) == IF r.op = op THEN [r EXCEPT !.clean = FALSE] ELSE r
Disturbs(op) == req' = [g \in Handlers |-> Dirty(req[g], op)]
Moves(h, r, op) == req' = [g \in Handlers |-> IF g = h THEN r ELSE Dirty(req[g], op)]
Goes(h, r) == req' = [req EXCEPT ![h] = r]

Counted == begun < MaxBegun /\ begun' = begun + 1
Arrives(h, r) == req[h] = Idle /\ Counted /\ Goes(h, r) /\ UNCHANGED <<stock, sets, titled>>

-----------------------------------------------------------------------------
(* The page: book-activity.gohtml, book-timings.gohtml, booktime.js *)

Wanted(form) == {i \in Items : Core(i) \in DOMAIN form \/ Extra(i) \in DOMAIN form}

(* The inputs of the page: the activity's own sets, and any extras, with   *)
(* no more of an item than there is of it.                                 *)
Fits(form) ==
    /\ {i \in Items : Core(i) \in DOMAIN form} = {sets[k].key.item : k \in Equipment}
    /\ Wanted(form) # {}
    /\ \A key \in DOMAIN form : Stocked(key.item) /\ form[key] <= items[key.item].qty

OpenPage(h) ==
    \E form \in Forms, slot \in Slots :
        /\ Fits(form)
        /\ Arrives(h, [op |-> "book", pc |-> "form", form |-> form, slot |-> slot,
                       todo |-> Wanted(form), i |-> CHOOSE i \in Wanted(form) : TRUE, qty |-> 0, shown |-> FALSE,
                       wants |-> NoBooking.wants, clean |-> FALSE])

Reads == UNCHANGED <<stock, sets, titled, begun>>

(* handleAPIClashes; it is the first query that the history starts at.     *)
ReadItem(h) ==
    /\ At(h, "book", "form") \/ At(h, "book", "item")
    /\ \E i \in req[h].todo :
        IF ~Stocked(i) THEN Goes(h, Idle)
        ELSE Goes(h, [req[h] EXCEPT !.pc = "net", !.i = i, !.qty = items[i].qty,
                        !.todo = @ \ {i}, !.clean = @ \/ req[h].pc = "form"])
    /\ Reads

(* A mutant: the comparison is off by one. *)
ClashesLate(net, asked) == net + 1 < asked

Clashes(net, asked) == net < 0 \/ net < asked

Rest(h, shown) ==
    [req[h] EXCEPT !.shown = shown, !.pc = IF req[h].todo = {} THEN "submit" ELSE "item"]

(* format_items gives an item that is both core and extra twice under one  *)
(* name, and the handler takes the first.                                  *)
AskNet(h) ==
    /\ At(h, "book", "net")
    /\ \E key \in {Core(req[h].i), Extra(req[h].i)} \cap DOMAIN req[h].form :
        IF Clashes(NetQuantity(req[h].i, req[h].qty, req[h].slot), req[h].form[key])
        THEN Goes(h, [req[h] EXCEPT !.pc = "list"])
        ELSE Goes(h, Rest(h, req[h].shown))
    /\ Reads

ListClashes(h) ==
    /\ At(h, "book", "list")
    /\ Goes(h, Rest(h, req[h].shown \/ Bookings(req[h].i, req[h].slot) # {}))
    /\ Reads

(* show_clashes submits at once if there is none to show; the user may     *)
(* confirm or go back.                                                     *)
GiveUp(h) ==
    /\ At(h, "book", "submit") /\ req[h].shown
    /\ Goes(h, Idle)
    /\ Reads

(* handleBookSubmission: the activity as it is now, the form copied into   *)
(* it, cloned, and booked by another statement.                            *)
Copied(i, form) ==
    LET own == {k \in Equipment : sets[k].key.item = i}
        added == {key \in Lacking(Equipment, form) : key.item = i}
    IN [sets |-> Cardinality(own) + Cardinality(added),
        total |-> SumOf([k \in own |-> IF CopiesTo(k, Equipment, form)
                                       THEN form[sets[k].key] ELSE sets[k].qty])
                  + SumOf([key \in added |-> form[key]])]

Submit(h) ==
    /\ At(h, "book", "submit")
    /\ Goes(h, [req[h] EXCEPT !.pc = "book",
                              !.wants = [i \in Items |-> Copied(i, req[h].form)]])
    /\ Reads

Book(h) ==
    /\ At(h, "book", "book")
    /\ \E t \in Tickets : ~Live(t)
    /\ Enter(CHOOSE t \in Tickets : ~Live(t), req[h].slot, req[h].wants)
    /\ Moves(h, Idle, "book")
    /\ UNCHANGED <<items, sets, titled, begun>>

-----------------------------------------------------------------------------
(* handleActivityDoEdit *)

OpenEdit(h) ==
    \E form \in EditForms :
        Arrives(h, [op |-> "edit", pc |-> "insert", form |-> form,
                    mine |-> Mine(form), clean |-> TRUE])

(* There is nothing left to do, or the sets of mine. *)
Saving(h, mine) ==
    IF Left(mine) = {} THEN Idle ELSE [req[h] EXCEPT !.pc = "sets", !.mine = mine]

Insert(h) ==
    /\ At(h, "edit", "insert")
    /\ LET new == Lacking(Left(req[h].mine), req[h].form)
           ids == NextIds(Cardinality(new))
       IN /\ ids \subseteq SetIds
          /\ sets' \in Inserted(new, req[h].form)
          /\ Moves(h, Saving(h, [k \in SetIds |-> IF k \in ids
                THEN [qty |-> sets'[k].qty, stamp |-> 0] ELSE req[h].mine[k]]), "edit")
    /\ UNCHANGED <<stock, titled, begun>>

(* One statement for each of the sets, in the order of the query that read *)
(* them.                                                                   *)
SaveSet(h) ==
    /\ At(h, "edit", "sets")
    /\ LET mine == req[h].mine
           k == CHOOSE k \in Left(mine) : \A j \in Left(mine) : k <= j
       IN /\ sets' = [sets EXCEPT ![k] = Saved(k, mine[k])]
          /\ Moves(h, Saving(h, [mine EXCEPT ![k] = Done]), "edit")
    /\ UNCHANGED <<stock, titled, begun>>

-----------------------------------------------------------------------------
(* handleActivityNew and NewActivity *)

OpenNew(h) == Arrives(h, [op |-> "new", pc |-> "search"])

AnyTitled(n) == n >= 0   \* a mutant: a search that found nothing goes on

TitleTaken(n) == n > 0

(* The loop never changes num, so a search that finds the title is only    *)
(* repeated.                                                               *)
FindTitle(h) ==
    /\ At(h, "new", "search") /\ ~TitleTaken(titled)
    /\ Goes(h, [op |-> "new", pc |-> "create"])
    /\ Reads

CreateActivity(h) ==
    /\ At(h, "new", "create")
    /\ titled' = titled + 1
    /\ Goes(h, Idle)
    /\ UNCHANGED <<stock, sets, begun>>

-----------------------------------------------------------------------------
(* Single statements of others *)

ChangeStock ==
    /\ \/ \E t \in Tickets : Cancel(t)
       \/ \E i \in Items, qty \in 0 .. MaxQty, available \in BOOLEAN :
            \/ CreateItem(i, qty, available) \/ EditItem(i, qty, available)
       \/ \E i \in Items : DeleteItem(i)
    /\ Counted /\ Disturbs("book")
    /\ UNCHANGED <<sets, titled>>

(* A new activity is renamed by its editor, or deleted. *)
Rename ==
    /\ titled > 0 /\ titled' = titled - 1
    /\ Counted
    /\ UNCHANGED <<stock, sets, req>>

Init ==
    /\ items \in [Items -> {[state |-> "live", qty |-> MaxQty, available |-> TRUE],
                           [state |-> "none", qty |-> 0, available |-> FALSE]}]
    /\ booked = [t \in Tickets |-> NoBooking]
    /\ \E own \in SUBSET {i \in Items : Stocked(i)}, f \in [Items -> SetIds] :
        /\ \A i, j \in own : f[i] = f[j] => i = j
        /\ {f[i] : i \in own} = 1 .. Cardinality(own)
        /\ sets = [k \in SetIds |->
             IF \E i \in own : f[i] = k
             THEN [live |-> TRUE, key |-> Core(CHOOSE i \in own : f[i] = k), qty |-> 1, stamp |-> 0]
             ELSE NoSet]
    /\ titled = 0 /\ begun = 0
    /\ req = [h \in Handlers |-> Idle]

Next ==
    \/ \E h \in Handlers :
        \/ OpenPage(h) \/ ReadItem(h) \/ AskNet(h) \/ ListClashes(h) \/ GiveUp(h)
        \/ Submit(h) \/ Book(h)
        \/ OpenEdit(h) \/ Insert(h) \/ SaveSet(h)
        \/ OpenNew(h) \/ FindTitle(h) \/ CreateActivity(h)
    \/ ChangeStock \/ Rename

(* A handler's goroutine goes on with its work. *)
Spec == Init /\ [][Next]_vars
    /\ \A h \in Handlers : WF_vars(FindTitle(h) \/ CreateActivity(h))

-----------------------------------------------------------------------------
(* Properties *)

(* A booking entered although no clash was shown leaves, at every instant  *)
(* of it, no more of an item asked for than there is, unless nobody else   *)
(* has booked the item then: if nobody wrote to the inventory or the       *)
(* bookings since the page's first query, if the booking takes what the    *)
(* page asked for, in one set of each item, and if the item is available   *)
(* (NetQuantity does not look whether it is).                              *)
AdviceIsSound ==
    [][\A h \in Handlers : At(h, "book", "book") /\ req'[h] = Idle
                              /\ req[h].clean /\ ~req[h].shown =>
        \A i \in Wanted(req[h].form), n \in req[h].slot.start .. req[h].slot.end :
            LET asked == Asked(req[h].form, Core(i)) + Asked(req[h].form, Extra(i)) IN
            req[h].wants[i] = [sets |-> 1, total |-> asked] /\ items[i].available =>
                DemandAt(i, n) = 0 \/ DemandAt(i, n) + asked <= items[i].qty]_vars

(* An edit that nobody interfered with leaves exactly what was posted: one *)
(* set for each item of a quantity above zero, whatever duplicates the     *)
(* edits before it had left.                                               *)
SavedIsPosted ==
    [][\A h \in Handlers : req[h].op = "edit" /\ req'[h] = Idle /\ req[h].clean =>
        /\ \A key \in Key : Asked(req[h].form, key) > 0 =>
             \E k \in SetIds : sets'[k].live /\ sets'[k].key = key /\ sets'[k].qty = req[h].form[key]
        /\ Cardinality({k \in SetIds : sets'[k].live})
             = Cardinality({key \in Key : Asked(req[h].form, key) > 0})]_vars

(* A request for a new activity does not hang for ever if the title it     *)
(* tries is free for good from some time on.                               *)
NewActivityEnds ==
    <>[](titled = 0) => \A h \in Handlers : []<>(req[h].op # "new")
=============================================================================
