\* Every layout of up to four periods over five ticks, and the default one.
CONSTANTS
    Nil = nil
    MaxTime = 4
    MaxPeriods = 4
    Layouts <- SmallLayouts
    Times <- SmallTimes
SPECIFICATION Spec
INVARIANTS TypeOK FindsThePeriod ShownIfConfigured
PROPERTIES CallsHalve
