\* Two requests at a time on two items and one activity.
CONSTANTS
    a = a
    b = b
    Items = {a, b}
    Slots <- SmallSlots
    Tickets = {t1, t2, t3}
    MaxQty = 2
    SetIds = {1, 2, 3, 4}
    Handlers = {h1, h2}
    Forms <- SmallForms
    EditForms <- SmallEdits
    MaxBegun = 3
SPECIFICATION Spec
INVARIANTS TypeOK UsageExact
PROPERTIES AdviceIsSound SavedIsPosted NewActivityEnds
CHECK_DEADLOCK FALSE
