CONSTANTS
    Requests = {r1}
    Scheduler = scheduler
    Work = 1
SPECIFICATION FairSpec
INVARIANTS NowIsSafe
CHECK_DEADLOCK FALSE
