CONSTANTS
    Requests = {r1, r2}
    Scheduler = scheduler
    Work = 2
SPECIFICATION FairSpec
INVARIANTS TypeOK NotLeftClosed UnattendedIsExclusive
PROPERTIES SiteReopens FiringTaken RunReturns
CHECK_DEADLOCK FALSE
