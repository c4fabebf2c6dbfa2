SPECIFICATION FairSpec
CONSTANTS
    s1 = s1
    s2 = s2
    Schedules = {s1, s2}
    Daemons = {d1, d2}
    Rule <- CronAndOnce
    GivenTimes = {}
    HourLength = 3
    DayLength = 2
    Zone = 0
    Horizon = 4
    Env <- Shared
INVARIANTS
    NoSpuriousJobs
    PauseHolds
PROPERTIES
    StaleSnapshotRefused
    DueRuns
