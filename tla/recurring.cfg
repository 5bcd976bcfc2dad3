SPECIFICATION FairSpec
CONSTANTS
    Schedules = {s1, s2}
    Workers = {tick, admin}
    Ticker = tick
    Requests = {r1}
    Periods = {1, 2}
    Limit = 1
    None = none
    MaxTime = 1
    MaxEvents = 2
INVARIANTS TypeOK ActiveHasClient
PROPERTIES OncePerPeriod ServedUnlessCrowdedOut
