SPECIFICATION FairScheduleSpec
CONSTANTS
    Hours = 24
    PerHour = 2
    TaskHours = {0, 3, 23}
    Hourly = Hourly
    Never = Never
    MaxLag = 1
PROPERTY DailyRuns
CHECK_DEADLOCK FALSE
