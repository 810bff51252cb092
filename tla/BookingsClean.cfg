\* A run of CleanBookings over two bookings, one at a time, with a request in flight.
CONSTANTS
    Tickets = {t1, t2}
    Templates = {p1}
    Handlers = {h1}
    Deleters = {}
    Cleaners = {c1}
    Users = {teacher}
    AllBooking = {}
    Slots <- ShortOrLong
    Batch = 1
    Edited = {}
    MaxTime = 1
    MaxStamp = 3
    MaxFaults = 1
SPECIFICATION FairSpec
PROPERTIES CleansOnlyPast CleanedAll CleanEnds
