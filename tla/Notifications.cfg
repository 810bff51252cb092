CONSTANTS
    technician = technician
    Users = {technician}
    Tabs = {left, right}
    UserOf <- OnePerson
    Polls = {p1, p2}
    MaxQueue = 2
    MaxPops = 2
    MaxShown = 2
    MaxSent = 4
    MaxFaults = 1
SPECIFICATION FairSpec
INVARIANTS TypeOK QueueInOrder Accounted ShownOnce
PROPERTIES ImplementsDelivery QueueDrains
