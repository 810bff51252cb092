\* Two requests at a time on one booking, while its template is saved or deleted.
CONSTANTS
    Tickets = {t1}
    Templates = {p1}
    Handlers = {h1, h2}
    Deleters = {d1}
    Cleaners = {}
    Users = {teacher}
    AllBooking = {}
    Slots <- Now
    Batch = 1
    Edited = {p1, t1}
    MaxTime = 0
    MaxStamp = 3
    MaxFaults = 1
SYMMETRY AnyHandler
SPECIFICATION Spec
INVARIANTS TypeOK ActivityGoesWithBooking CancelledIsGone
PROPERTIES ActivityNotPulled DeletedIsFinal StatusOnBookingSeen ImplementsLife
CHECK_DEADLOCK FALSE
