CONSTANTS
    Tickets = {t1}
    Templates = {p1}
    Handlers = {h1, h2}
    Deleters = {}
    Cleaners = {}
    Users = {teacher}
    AllBooking = {}
    Slots <- NowOrLater
    Batch = 1
    Edited = {}
    MaxTime = 0
    MaxStamp = 3
    MaxFaults = 0
SPECIFICATION FairSpec
PROPERTIES PostponedIsReopened
CHECK_DEADLOCK FALSE
