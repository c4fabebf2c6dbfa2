SPECIFICATION Spec
CONSTANTS
    s1 = s1
    s2 = s2
    Schedules = {s1, s2}
    Daemons = {d1}
    Rule <- CronAndInterval
    GivenTimes = {}
    HourLength = 2
    DayLength = 2
    Zone = 2
    Horizon = 5
    Env <- NoCircumstances
INVARIANTS
    RecurringStaysEnabled
